--------------------------- MODULE SocketsProofs ----------------------------
(***************************************************************************)
(* Theorems about Sockets for any connections, events, size of the buffer    *)
(* and workloads: the books of the hub, and that the hub and the pumps only  *)
(* take steps that Feed allows.                                              *)
(***************************************************************************)
EXTENDS Sockets, FiniteSetTheorems, TLAPS

-----------------------------------------------------------------------------
(* Types.                                                                  *)

Places == {"new", "registered", "count", "add", "addQuietly", "start", "open",
           "zrem", "card", "del", "schedule", "grace", "done"}

Load == [clients : SUBSET Clients, max : Nat, events : SUBSET Events,
         presence : BOOLEAN, settings : Nat, faults : Nat]

HubType ==
    /\ pc \in [Clients -> Places]
    /\ pump \in [Clients -> {"off", "on", "dead"}]
    /\ topics \in [Clients -> SUBSET Rooms]
    /\ send \in [Clients -> Seq(Events)]
    /\ resync \in [Clients -> BOOLEAN]
    /\ coming \subseteq Events
    /\ due \in [Clients -> SUBSET Events]
    /\ known \in [Clients -> SUBSET Events]
    /\ load \in Load

Settings == [availability : {"online", "away"}, auto : BOOLEAN]

Job == [at : {"none", "user", "live", "save"}, user : Settings,
        live : BOOLEAN, behind : BOOLEAN]

PresenceType ==
    /\ conns \in [Clients -> {"none", "fresh", "stale"}]
    /\ notices \in Nat
    /\ user \in Settings
    /\ status \in {"online", "away", "offline"}
    /\ job \in [Jobs -> Job]
    /\ crossed \in BOOLEAN

\* What the environment uses up leaves the rest of the workload as it was.
LEMMA LoadSteps ==
    ASSUME NEW l \in Load
    PROVE  /\ l.max \in Nat /\ l.faults \in Nat /\ l.settings \in Nat
           /\ l.clients \subseteq Clients /\ l.events \subseteq Events
           /\ l.presence \in BOOLEAN
           /\ l.faults > 0 =>
                 /\ [l EXCEPT !.faults = @ - 1] \in Load
                 /\ [l EXCEPT !.faults = @ - 1].max = l.max
                 /\ [l EXCEPT !.faults = @ - 1].presence = l.presence
           /\ l.settings > 0 =>
                 /\ [l EXCEPT !.settings = @ - 1] \in Load
                 /\ [l EXCEPT !.settings = @ - 1].max = l.max
                 /\ [l EXCEPT !.settings = @ - 1].presence = l.presence
<1>1. l.faults > 0 => l.faults - 1 \in Nat
  BY DEF Load
<1>2. l.settings > 0 => l.settings - 1 \in Nat
  BY DEF Load
<1> QED BY <1>1, <1>2 DEF Load

\* A fault costs one of the faults of the workload and changes nothing else.
LEMMA FaultSteps ==
    ASSUME HubType, Fault \/ UNCHANGED load
    PROVE  load' \in Load /\ load'.max = load.max /\ load'.presence = load.presence
BY LoadSteps DEF HubType, Fault

\* The connections an event reaches, and those that have no room for it.
Followers(e) == {c \in Clients : e.room \in topics[c]}
Full(e) == {c \in Followers(e) : Len(send[c]) = BufferSize}

\* What becomes of an event of the fan-out channel.
Delivered(e) ==
    /\ coming' = coming \ {e}
    /\ send' = [c \in Clients |-> IF c \in Followers(e) \ Full(e)
                                  THEN Append(send[c], e) ELSE send[c]]
    /\ resync' = [c \in Clients |-> resync[c] \/ c \in Full(e)]
    /\ due' = [c \in Clients |-> IF c \in Followers(e) THEN due[c] \cup {e} ELSE due[c]]
    /\ UNCHANGED <<pc, pump, slots, topics, known, presence, load>>

\* Deliver takes one event off the channel.
LEMMA DeliverSteps == Deliver => \E e \in coming : Delivered(e)
BY Zenon DEF Deliver, Delivered, Followers, Full

\* Every step keeps the types of the hub.
LEMMA HubTypeSteps == HubType /\ [Next]_vars => HubType'
<1> SUFFICES ASSUME HubType, [Next]_vars PROVE HubType'
  OBVIOUS
<1>1. CASE UNCHANGED vars
  BY <1>1 DEF vars, hub, HubType
<1>2. ASSUME NEW c \in Clients, Handler(c) PROVE HubType'
  <2>1. CASE Register(c) \/ UpgradeFails(c) \/ Upgrade(c) \/ StartPumps(c)
    <3>1. load' \in Load
      BY <2>1, FaultSteps DEF HubType, Register, UpgradeFails, Upgrade, StartPumps
    <3>2. pc' \in [Clients -> Places] /\ pump' \in [Clients -> {"off", "on", "dead"}]
      BY <2>1 DEF HubType, Register, UpgradeFails, Upgrade, StartPumps, Go, Places
    <3>3. topics' \in [Clients -> SUBSET Rooms]
      <4>1. topics' = topics \/ topics' = [topics EXCEPT ![c] = {"tenant"}]
        BY <2>1 DEF Register, UpgradeFails, Upgrade, StartPumps, hub
      <4>2. {"tenant"} \in SUBSET Rooms
        BY DEF Rooms
      <4> QED BY <4>1, <4>2 DEF HubType
    <3>4. UNCHANGED <<send, resync, coming, due, known>>
      BY <2>1 DEF Register, UpgradeFails, Upgrade, StartPumps, hub
    <3> QED BY <3>1, <3>2, <3>3, <3>4 DEF HubType
  <2>2. CASE Subscribe(c) \/ Unsubscribe(c)
    <3>1. topics' \in [Clients -> SUBSET Rooms]
      <4>1. \E rooms \in SUBSET Rooms : topics' = [topics EXCEPT ![c] = rooms]
        <5>1. CASE Subscribe(c)
          BY <5>1 DEF Subscribe
        <5>2. CASE Unsubscribe(c)
          <6>1. /\ topics' = [topics EXCEPT ![c] = topics[c] \ {"conversation"}]
                /\ topics[c] \ {"conversation"} \in SUBSET Rooms
            BY <5>2 DEF Unsubscribe, HubType
          <6> QED BY <6>1
        <5> QED BY <2>2, <5>1, <5>2
      <4> QED BY <4>1 DEF HubType
    <3> QED BY <2>2, <3>1 DEF HubType, Subscribe, Unsubscribe
  <2>3. CASE WriteMessage(c)
    <3>1. /\ send[c] \in Seq(Events) /\ send[c] # <<>>
          /\ send' = [send EXCEPT ![c] = Tail(send[c])]
          /\ known' = [known EXCEPT ![c] = known[c] \cup {Head(send[c])}]
          /\ UNCHANGED <<pc, pump, topics, resync, coming, due, load>>
      BY <2>3 DEF HubType, WriteMessage
    <3>2. Tail(send[c]) \in Seq(Events) /\ Head(send[c]) \in Events
      BY <3>1
    <3> QED BY <3>1, <3>2 DEF HubType
  <2>4. CASE WriteResync(c)
    <3>1. /\ resync' = [resync EXCEPT ![c] = FALSE]
          /\ known' = [known EXCEPT ![c] = due[c]]
          /\ UNCHANGED <<pc, pump, topics, send, coming, due, load>>
      BY <2>4 DEF WriteResync
    <3> QED BY <3>1 DEF HubType
  <2>5. CASE WriteFails(c) \/ Heartbeat(c)
    <3>1. load' \in Load
      BY <2>5, FaultSteps DEF HubType, WriteFails, Heartbeat
    <3>2. pump' \in [Clients -> {"off", "on", "dead"}]
      BY <2>5 DEF HubType, WriteFails, Heartbeat
    <3> QED BY <2>5, <3>1, <3>2 DEF HubType, WriteFails, Heartbeat, hub
  <2>6. CASE ReadError(c) \/ ReadDeadline(c)
    <3>1. /\ topics' = [topics EXCEPT ![c] = {}]
          /\ \E place \in {"zrem", "done"} : pc' = [pc EXCEPT ![c] = place]
          /\ UNCHANGED <<pump, send, resync, coming, due, known, load>>
      BY <2>6 DEF ReadError, ReadDeadline, Leave, Go
    <3> QED BY <3>1 DEF HubType, Places
  <2>7. CASE Count(c) \/ Add(c) \/ ZRem(c) \/ ZCard(c) \/ Del(c) \/ Schedule(c)
             \/ Vanish(c) \/ Lapse(c) \/ CallFails(c)
    <3>1. /\ \E place \in Places : pc' = [pc EXCEPT ![c] = place] \/ pc' = pc
          /\ UNCHANGED <<pump, hub>>
      BY <2>7 DEF Count, Add, ZRem, ZCard, Del, Schedule, Vanish, Lapse, CallFails, Go, Places
    <3>2. pc' \in [Clients -> Places]
      BY <3>1 DEF HubType
    <3>3. load' \in Load
      BY <2>7, FaultSteps DEF HubType, Count, Add, ZRem, ZCard, Del, Schedule, Vanish, Lapse,
         CallFails
    <3> QED BY <3>1, <3>2, <3>3 DEF HubType, hub
  <2> QED BY <1>2, <2>1, <2>2, <2>3, <2>4, <2>5, <2>6, <2>7 DEF Handler
<1>3. ASSUME NEW j \in Jobs, \/ ReadUser(j) \/ HasLiveSocket(j) \/ Save(j)
                              \/ MiscountsLive(j) \/ RecomputeFails(j)
      PROVE  HubType'
  <2>1. load' \in Load
    BY <1>3, FaultSteps DEF HubType, ReadUser, HasLiveSocket, Save, MiscountsLive, RecomputeFails
  <2> QED BY <1>3, <2>1 DEF ReadUser, HasLiveSocket, Save, MiscountsLive, RecomputeFails, hub, HubType
<1>4. CASE Deliver
  <2>1. PICK e \in coming : Delivered(e)
    BY <1>4, DeliverSteps
  <2>2. send' \in [Clients -> Seq(Events)]
    BY <2>1 DEF HubType, Delivered
  <2>3. due' \in [Clients -> SUBSET Events]
    BY <2>1 DEF HubType, Delivered
  <2>4. resync' \in [Clients -> BOOLEAN]
    BY <2>1 DEF HubType, Delivered
  <2> QED BY <2>1, <2>2, <2>3, <2>4 DEF HubType, Delivered
<1>5. CASE LoseEvent
  <2>1. load' \in Load
    BY <1>5, FaultSteps DEF LoseEvent
  <2> QED BY <1>5, <2>1 DEF LoseEvent, HubType
<1>6. CASE Crash
  <2>1. load' \in Load
    BY <1>6, FaultSteps DEF Crash
  <2>2. pc' \in [Clients -> Places] /\ pump' \in [Clients -> {"off", "on", "dead"}]
    BY <1>6 DEF Crash, Places
  <2> QED BY <1>6, <2>1, <2>2 DEF Crash, HubType
<1>7. CASE KeyExpires \/ Watch
  BY <1>7 DEF KeyExpires, Watch, hub, HubType
<1>8. CASE LoseNotice \/ SetSettings
  <2>1. load' \in Load
    BY <1>8, FaultSteps, LoadSteps DEF LoseNotice, SetSettings, HubType
  <2> QED BY <1>8, <2>1 DEF LoseNotice, SetSettings, hub, HubType
<1> QED BY <1>1, <1>2, <1>3, <1>4, <1>5, <1>6, <1>7, <1>8 DEF Next

\* A job's record keeps its type when one of its fields changes.
LEMMA JobTypes ==
    ASSUME NEW r \in Job
    PROVE  /\ r.at \in {"none", "user", "live", "save"} /\ r.user \in Settings
           /\ r.live \in BOOLEAN /\ r.behind \in BOOLEAN
           /\ [r EXCEPT !.behind = TRUE] \in Job
           /\ [r EXCEPT !.behind = TRUE].at = r.at
           /\ [r EXCEPT !.behind = TRUE].behind = TRUE
           /\ \A s \in Settings : [r EXCEPT !.at = "live", !.user = s] \in Job
           /\ \A b \in BOOLEAN : [r EXCEPT !.at = "save", !.live = b] \in Job
BY DEF Job

LEMMA MiscountTypes ==
    ASSUME NEW r \in Job
    PROVE  /\ [r EXCEPT !.at = "save", !.live = TRUE, !.behind = TRUE] \in Job
           /\ [r EXCEPT !.at = "save", !.live = TRUE, !.behind = TRUE].at = "save"
           /\ [r EXCEPT !.at = "save", !.live = TRUE, !.behind = TRUE].behind = TRUE
BY DEF Job

LEMMA NewJobs ==
    /\ NoJob \in Job /\ NoJob.at = "none"
    /\ [NoJob EXCEPT !.at = "user"] \in Job
    /\ [NoJob EXCEPT !.at = "user"].at = "user"
    /\ [NoJob EXCEPT !.at = "user"].behind = FALSE
<1>1. [availability |-> "online", auto |-> TRUE] \in Settings
  BY DEF Settings
<1>2. NoJob \in Job
  BY <1>1 DEF NoJob, Job
<1> QED BY <1>2 DEF NoJob, Job

\* The status that is saved is one of three.
LEMMA EffectiveType ==
    ASSUME NEW u \in Settings, NEW live \in BOOLEAN
    PROVE  Effective(u, live) \in {"online", "away", "offline"}
BY DEF Effective, Settings

\* Every step keeps the types of the presence.
LEMMA PresenceTypeSteps ==
    HubType /\ PresenceType /\ [Next]_vars => PresenceType'
<1> SUFFICES ASSUME HubType, PresenceType, [Next]_vars PROVE PresenceType'
  OBVIOUS
<1>0. /\ Pruned \in [Clients -> {"none", "fresh", "stale"}]
      /\ \A c \in Clients : [conns EXCEPT ![c] = "fresh"] \in [Clients -> {"none", "fresh", "stale"}]
      /\ \A c \in Clients : [conns EXCEPT ![c] = "none"] \in [Clients -> {"none", "fresh", "stale"}]
      /\ \A c \in Clients : [conns EXCEPT ![c] = "stale"] \in [Clients -> {"none", "fresh", "stale"}]
      /\ [c \in Clients |-> "none"] \in [Clients -> {"none", "fresh", "stale"}]
  BY DEF PresenceType, Pruned
<1>1. ASSUME NEW live, LiveChanges(live) PROVE job' \in [Jobs -> Job]
  BY <1>1, JobTypes DEF LiveChanges, PresenceType
<1>2. CASE UNCHANGED presence
  BY <1>2 DEF presence, PresenceType
<1>3. ASSUME NEW c \in Clients, Handler(c) PROVE PresenceType'
  <2>1. c \in Jobs
    BY DEF Jobs
  <2>2. CASE \/ Register(c) \/ Upgrade(c) \/ StartPumps(c) \/ Subscribe(c)
             \/ Unsubscribe(c) \/ WriteMessage(c) \/ WriteResync(c)
             \/ WriteFails(c) \/ ReadError(c) \/ ReadDeadline(c) \/ Schedule(c)
             \/ CallFails(c)
    BY <1>2, <2>2 DEF CallFails, Register, Upgrade, StartPumps, Subscribe, Unsubscribe,
       WriteMessage, WriteResync, WriteFails, ReadError, ReadDeadline, Leave,
       Schedule
  <2>3. CASE UpgradeFails(c)
    BY <2>3 DEF UpgradeFails, PresenceType
  <2>4. CASE Heartbeat(c)
    <3>1. job' \in [Jobs -> Job]
      <4>1. ASSUME NEW j \in Jobs PROVE job'[j] \in Job
        <5>1. job[j] \in Job
          BY DEF PresenceType
        <5> QED BY <2>4, <5>1, JobTypes DEF Heartbeat
      <4>2. job' = [j \in Jobs |-> job'[j]]
        BY <2>4 DEF Heartbeat
      <4> QED BY <4>1, <4>2
    <3>2. crossed' \in BOOLEAN
      BY <2>4 DEF Heartbeat, PresenceType
    <3> QED BY <1>0, <2>4, <3>1, <3>2 DEF Heartbeat, PresenceType
  <2>5. CASE Count(c) \/ ZCard(c)
    BY <1>0, <2>5 DEF Count, ZCard, PresenceType
  <2>6. CASE Add(c)
    <3>1. job' \in [Jobs -> Job]
      <4>1. ASSUME NEW j \in Jobs PROVE job'[j] \in Job
        <5>1. job[j] \in Job
          BY DEF PresenceType
        <5> QED BY <2>6, <5>1, JobTypes, NewJobs DEF Add
      <4>2. job' = [j \in Jobs |-> job'[j]]
        BY <2>6 DEF Add
      <4> QED BY <4>1, <4>2
    <3>2. crossed' \in BOOLEAN
      BY <2>6 DEF Add, PresenceType
    <3> QED BY <1>0, <2>6, <3>1, <3>2 DEF Add, PresenceType
  <2>7. CASE ZRem(c) \/ Lapse(c) \/ Del(c)
    <3>1. job' \in [Jobs -> Job]
      BY <1>1, <2>7 DEF ZRem, Lapse, Del
    <3> QED BY <1>0, <2>7, <3>1 DEF ZRem, Lapse, Del, PresenceType
  <2>9. CASE Vanish(c)
    <3>1. job' \in [Jobs -> Job]
      BY <2>1, <2>9, NewJobs DEF Vanish, PresenceType
    <3> QED BY <2>9, <3>1 DEF Vanish, PresenceType
  <2> QED BY <1>3, <2>2, <2>3, <2>4, <2>5, <2>6, <2>7, <2>9 DEF Handler
<1>4. ASSUME NEW j \in Jobs, \/ ReadUser(j) \/ HasLiveSocket(j) \/ Save(j)
                              \/ MiscountsLive(j) \/ RecomputeFails(j)
      PROVE  PresenceType'
  <2>1. job[j] \in Job /\ user \in Settings
    BY DEF PresenceType
  <2>2. CASE ReadUser(j)
    <3>1. job' = [job EXCEPT ![j] = [job[j] EXCEPT !.at = "live", !.user = user]]
      BY <2>2 DEF ReadUser, PresenceType
    <3>2. job' \in [Jobs -> Job]
      BY <2>1, <3>1, JobTypes DEF PresenceType
    <3> QED BY <2>2, <3>2 DEF ReadUser, PresenceType
  <2>3. CASE HasLiveSocket(j)
    <3>1. job' = [job EXCEPT ![j] = [job[j] EXCEPT !.at = "save", !.live = Fresh # {}]]
      BY <2>3 DEF HasLiveSocket, PresenceType
    <3>2. job' \in [Jobs -> Job]
      BY <2>1, <3>1, JobTypes DEF PresenceType
    <3> QED BY <1>0, <2>3, <3>2 DEF HasLiveSocket, PresenceType
  <2>4. CASE Save(j)
    <3>1. job' \in [Jobs -> Job]
      BY <2>4, NewJobs DEF Save, PresenceType
    <3>2. status' \in {"online", "away", "offline"}
      BY <2>1, <2>4, JobTypes, EffectiveType DEF Save
    <3> QED BY <2>1, <2>4, <3>1, <3>2, JobTypes DEF Save, PresenceType
  <2>5. CASE MiscountsLive(j)
    <3>1. job' = [job EXCEPT ![j] = [job[j] EXCEPT !.at = "save", !.live = TRUE, !.behind = TRUE]]
      BY <2>5 DEF MiscountsLive, PresenceType
    <3>2. job' \in [Jobs -> Job]
      BY <2>1, <3>1, MiscountTypes DEF PresenceType
    <3> QED BY <2>5, <3>2 DEF MiscountsLive, PresenceType
  <2>6. CASE RecomputeFails(j)
    BY <2>6, NewJobs DEF RecomputeFails, PresenceType
  <2> QED BY <1>4, <2>2, <2>3, <2>4, <2>5, <2>6
<1>5. CASE Deliver \/ LoseEvent
  BY <1>2, <1>5 DEF Deliver, LoseEvent
<1>6. CASE Crash
  BY <1>6, NewJobs DEF Crash, PresenceType
<1>7. CASE KeyExpires
  BY <1>0, <1>7 DEF KeyExpires, PresenceType
<1>8. CASE Watch \/ LoseNotice
  <2>1. job' \in [Jobs -> Job]
    BY <1>8, NewJobs DEF Watch, LoseNotice, PresenceType, Jobs
  <2>2. notices' \in Nat
    BY <1>8 DEF Watch, LoseNotice, PresenceType
  <2>3. crossed' \in BOOLEAN
    BY <1>8 DEF Watch, LoseNotice, PresenceType
  <2> QED BY <1>8, <2>1, <2>2, <2>3 DEF Watch, LoseNotice, PresenceType
<1>9. CASE SetSettings
  <2>1. job' \in [Jobs -> Job]
    <3>1. ASSUME NEW j \in Jobs PROVE job'[j] \in Job
      <4>1. job[j] \in Job
        BY DEF PresenceType
      <4> QED BY <1>9, <4>1, JobTypes, NewJobs DEF SetSettings
    <3>2. job' = [j \in Jobs |-> job'[j]]
      BY <1>9 DEF SetSettings
    <3> QED BY <3>1, <3>2
  <2>2. user' \in Settings
    BY <1>9 DEF SetSettings, Settings
  <2> QED BY <1>9, <2>1, <2>2 DEF SetSettings, PresenceType
<1>10. CASE UNCHANGED vars
  BY <1>2, <1>10 DEF vars
<1> QED BY <1>3, <1>4, <1>5, <1>6, <1>7, <1>8, <1>9, <1>10 DEF Next

-----------------------------------------------------------------------------
(* The books of the hub.                                                   *)

\* The connections that hold a slot.
Holding == {c \in Clients : Held(c)}

\* As many slots are taken as connections hold one; a buffer fits; and only a
\* connection that was upgraded, and did not leave, is in a room.
Books ==
    /\ IsFiniteSet(Holding) /\ slots = Cardinality(Holding)
    /\ load.max # 0 => slots <= load.max
    /\ \A c \in Clients : Len(send[c]) <= BufferSize
    /\ \A c \in Clients :
          topics[c] # {} => pc[c] \in {"count", "add", "addQuietly", "start", "open"}

\* A step moves the handler of one connection, or none, or ends them all.
LEMMA PlaceSteps ==
    ASSUME HubType, NEW c \in Clients, NEW p \in Places, pc' = [pc EXCEPT ![c] = p]
    PROVE  /\ pc'[c] = p /\ \A d \in Clients \ {c} : pc'[d] = pc[d]
           /\ Holding' = IF p \in {"new", "done", "zrem", "card", "del", "schedule", "grace"}
                         THEN Holding \ {c} ELSE Holding \cup {c}
<1>1. pc'[c] = p /\ \A d \in Clients \ {c} : pc'[d] = pc[d]
  BY DEF HubType
<1> QED BY <1>1 DEF Holding, Held

\* What a step does to the slots, those who hold one, and the limit.
LEMMA HoldingSteps ==
    ASSUME HubType, [Next]_vars
    PROVE  /\ load'.max = load.max
           /\ \/ Holding' = Holding /\ slots' = slots
              \/ /\ UNCHANGED <<due, known>>
                 /\ \/ \E c \in Clients : /\ c \notin Holding /\ Holding' = Holding \cup {c}
                                          /\ slots' = slots + 1 /\ (load.max = 0 \/ slots < load.max)
                    \/ \E c \in Holding : Holding' = Holding \ {c} /\ slots' = slots - 1
                    \/ Holding' = {} /\ slots' = 0
<1> DEFINE Goal == \/ Holding' = Holding /\ slots' = slots
                   \/ /\ UNCHANGED <<due, known>>
                      /\ \/ \E c \in Clients : /\ c \notin Holding /\ Holding' = Holding \cup {c}
                                               /\ slots' = slots + 1 /\ (load.max = 0 \/ slots < load.max)
                         \/ \E c \in Holding : Holding' = Holding \ {c} /\ slots' = slots - 1
                         \/ Holding' = {} /\ slots' = 0
<1>0. ASSUME pc' = pc, slots' = slots PROVE Goal
  BY <1>0 DEF Holding, Held
<1>1. load'.max = load.max
  <2>1. CASE Fault \/ UNCHANGED load
    BY <2>1, FaultSteps
  <2>2. CASE SetSettings
    BY <2>2, LoadSteps DEF SetSettings, HubType
  <2>3. Fault \/ UNCHANGED load \/ SetSettings
    BY DEF Next, Handler, Register, UpgradeFails, Upgrade, StartPumps, Subscribe,
           Unsubscribe, WriteMessage, WriteResync, WriteFails, Heartbeat, ReadError,
           ReadDeadline, Leave, Count, Add, ZRem, ZCard, Del, Schedule, Vanish, Lapse, CallFails,
           ReadUser, HasLiveSocket, Save, MiscountsLive, RecomputeFails, Deliver, LoseEvent, Crash, KeyExpires, Watch,
           LoseNotice, vars
  <2> QED BY <2>1, <2>2, <2>3
<1>2. ASSUME NEW c \in Clients, Handler(c) PROVE Goal
  <2>1. CASE Register(c)
    <3>1. pc[c] = "new" /\ UNCHANGED <<due, known>> /\ c \notin Holding
      BY <2>1 DEF Register, At, Holding, Held
    <3>2. CASE pc' = [pc EXCEPT ![c] = "registered"] /\ slots' = slots + 1
               /\ (load.max = 0 \/ slots < load.max)
      <4>1. Holding' = Holding \cup {c}
        BY <3>2, PlaceSteps DEF Places
      <4> QED BY <3>1, <3>2, <4>1
    <3>3. CASE pc' = [pc EXCEPT ![c] = "done"] /\ slots' = slots
      <4>1. Holding' = Holding
        <5>1. Holding' = Holding \ {c}
          BY <3>3, PlaceSteps DEF Places
        <5> QED BY <3>1, <5>1
      <4> QED BY <3>3, <4>1
    <3> QED BY <2>1, <3>2, <3>3 DEF Register, Go
  <2>2. CASE UpgradeFails(c)
    <3>1. /\ pc[c] = "registered" /\ UNCHANGED <<due, known>> /\ c \in Holding
          /\ pc' = [pc EXCEPT ![c] = "done"] /\ slots' = slots - 1
      BY <2>2 DEF UpgradeFails, At, Holding, Held, Go
    <3>2. Holding' = Holding \ {c}
      BY <3>1, PlaceSteps DEF Places
    <3> QED BY <3>1, <3>2
  <2>3. CASE ReadError(c) \/ ReadDeadline(c)
    <3>1. /\ pc[c] = "open" /\ UNCHANGED <<due, known>> /\ c \in Holding
          /\ \E p \in {"zrem", "done"} : pc' = [pc EXCEPT ![c] = p]
          /\ slots' = slots - 1
      BY <2>3 DEF ReadError, ReadDeadline, Leave, At, Holding, Held, Go
    <3>2. Holding' = Holding \ {c}
      BY <3>1, PlaceSteps DEF Places
    <3> QED BY <3>1, <3>2
  <2>4. CASE Upgrade(c) \/ StartPumps(c) \/ Count(c) \/ Add(c) \/ (CallFails(c) /\ Held(c))
    <3>1. /\ pc[c] \in {"registered", "count", "add", "addQuietly", "start"}
          /\ \E p \in {"count", "add", "addQuietly", "start", "open"} : pc' = [pc EXCEPT ![c] = p]
          /\ slots' = slots
      BY <2>4 DEF Upgrade, StartPumps, Count, Add, CallFails, Held, At, Go, hub
    <3>2. Holding' = Holding \cup {c} /\ c \in Holding
      BY <3>1, PlaceSteps DEF Places, Holding, Held
    <3> QED BY <3>1, <3>2
  <2>5. CASE \/ ZRem(c) \/ ZCard(c) \/ Del(c) \/ Schedule(c) \/ Vanish(c)
             \/ (CallFails(c) /\ ~Held(c))
    <3>1. /\ pc[c] \in {"zrem", "card", "del", "schedule", "grace"}
          /\ \E p \in {"card", "del", "schedule", "grace", "done"} : pc' = [pc EXCEPT ![c] = p]
          /\ slots' = slots
      BY <2>5 DEF ZRem, ZCard, Del, Schedule, Vanish, CallFails, Held, At, Go, hub
    <3>2. Holding' = Holding \ {c} /\ c \notin Holding
      BY <3>1, PlaceSteps DEF Places, Holding, Held
    <3> QED BY <3>1, <3>2
  <2>6. CASE \/ Subscribe(c) \/ Unsubscribe(c) \/ WriteMessage(c) \/ WriteResync(c)
             \/ WriteFails(c) \/ Heartbeat(c) \/ Lapse(c)
    BY <1>0, <2>6 DEF Subscribe, Unsubscribe, WriteMessage, WriteResync, WriteFails,
                      Heartbeat, Lapse, hub
  <2> QED BY <1>2, <2>1, <2>2, <2>3, <2>4, <2>5, <2>6 DEF Handler
<1>3. ASSUME Crash PROVE Goal
  <2>1. Holding' = {}
    BY <1>3 DEF Crash, Holding, Held, At
  <2>2. slots' = 0 /\ UNCHANGED <<due, known>>
    BY <1>3 DEF Crash
  <2> QED BY <2>1, <2>2
<1>4. ASSUME \/ \E j \in Jobs : ReadUser(j) \/ HasLiveSocket(j) \/ Save(j)
                              \/ MiscountsLive(j) \/ RecomputeFails(j)
             \/ Deliver \/ LoseEvent \/ KeyExpires \/ Watch \/ LoseNotice \/ SetSettings
             \/ UNCHANGED vars
      PROVE  Goal
  <2>1. pc' = pc /\ slots' = slots
    BY <1>4 DEF ReadUser, HasLiveSocket, Save, MiscountsLive, RecomputeFails, Deliver, LoseEvent, KeyExpires, Watch,
                LoseNotice, SetSettings, vars, hub
  <2> QED BY <1>0, <2>1
<1> QED BY <1>1, <1>2, <1>3, <1>4 DEF Next

\* Every step keeps the books.
LEMMA BooksSteps == HubType /\ Books /\ [Next]_vars => Books'
<1> SUFFICES ASSUME HubType, Books, [Next]_vars PROVE Books'
  OBVIOUS
<1>1. /\ IsFiniteSet(Holding') /\ slots' = Cardinality(Holding')
      /\ load'.max # 0 => slots' <= load'.max
  <2>1. /\ IsFiniteSet(Holding) /\ slots = Cardinality(Holding)
        /\ load.max # 0 => slots <= load.max
        /\ slots \in Nat /\ load.max \in Nat /\ load'.max = load.max
    BY FS_CardinalityType, HoldingSteps, LoadSteps DEF Books, HubType
  <2>2. CASE Holding' = Holding /\ slots' = slots
    BY <2>1, <2>2
  <2>3. CASE \E c \in Clients : /\ c \notin Holding /\ Holding' = Holding \cup {c}
                                /\ slots' = slots + 1 /\ (load.max = 0 \/ slots < load.max)
    BY <2>1, <2>3, FS_AddElement
  <2>4. CASE \E c \in Holding : Holding' = Holding \ {c} /\ slots' = slots - 1
    <3>1. PICK c \in Holding : Holding' = Holding \ {c} /\ slots' = slots - 1
      BY <2>4
    <3>2. IsFiniteSet(Holding \ {c}) /\ Cardinality(Holding \ {c}) = Cardinality(Holding) - 1
      BY <2>1, FS_RemoveElement
    <3>3. load'.max # 0 => slots' <= load'.max
      BY <2>1, <3>1
    <3> QED BY <2>1, <3>1, <3>2, <3>3
  <2>5. CASE Holding' = {} /\ slots' = 0
    BY <2>1, <2>5, FS_EmptySet
  <2> QED BY <2>2, <2>3, <2>4, <2>5, HoldingSteps
<1>2. ASSUME NEW d \in Clients PROVE Len(send'[d]) <= BufferSize
  <2>1. send[d] \in Seq(Events) /\ Len(send[d]) <= BufferSize
    BY DEF HubType, Books
  <2>2. CASE send' = send
    BY <2>1, <2>2
  <2>3. ASSUME NEW c \in Clients, WriteMessage(c) PROVE Len(send'[d]) <= BufferSize
    <3>1. send' = [send EXCEPT ![c] = Tail(send[c])] /\ send[c] # <<>>
      BY <2>3 DEF WriteMessage
    <3>2. CASE c = d
      <4>1. send'[d] = Tail(send[d]) /\ send[d] # <<>>
        BY <3>1, <3>2 DEF HubType
      <4> QED BY <2>1, <4>1, SocketsAssumption
    <3>3. CASE c # d
      BY <2>1, <3>1, <3>3 DEF HubType
    <3> QED BY <3>2, <3>3
  <2>4. CASE Deliver
    <3>1. PICK e \in coming : Delivered(e)
      BY <2>4, DeliverSteps
    <3>2. CASE d \in Followers(e) \ Full(e)
      <4>1. send'[d] = Append(send[d], e) /\ Len(send[d]) # BufferSize
        BY <3>1, <3>2 DEF Delivered, Full
      <4> QED BY <2>1, <4>1, SocketsAssumption
    <3>3. CASE d \notin Followers(e) \ Full(e)
      BY <2>1, <3>1, <3>3 DEF Delivered
    <3> QED BY <3>2, <3>3
  <2>5. send' = send \/ (\E c \in Clients : WriteMessage(c)) \/ Deliver
    BY DEF Next, Handler, Register, UpgradeFails, Upgrade, StartPumps, Subscribe,
           Unsubscribe, WriteResync, WriteFails, Heartbeat, ReadError,
           ReadDeadline, Leave, Count, Add, ZRem, ZCard, Del, Schedule, Vanish, Lapse, CallFails,
           ReadUser, HasLiveSocket, Save, MiscountsLive, RecomputeFails, LoseEvent, Crash, KeyExpires, Watch,
           LoseNotice, SetSettings, vars, hub
  <2> QED BY <2>2, <2>3, <2>4, <2>5
<1>3. ASSUME NEW d \in Clients, topics'[d] # {}
      PROVE  pc'[d] \in {"count", "add", "addQuietly", "start", "open"}
  <2>1. topics[d] # {} => pc[d] \in {"count", "add", "addQuietly", "start", "open"}
    BY DEF Books
  <2>2. CASE pc' = pc /\ topics' = topics
    BY <1>3, <2>1, <2>2
  <2>3. ASSUME NEW c \in Clients, NEW p, pc' = [pc EXCEPT ![c] = p],
               p \in {"count", "add", "addQuietly", "start", "open"} \/ topics'[c] = {},
               \A e \in Clients \ {c} : topics'[e] = topics[e]
        PROVE  pc'[d] \in {"count", "add", "addQuietly", "start", "open"}
    BY <1>3, <2>1, <2>3 DEF HubType
  <2>4. ASSUME NEW c \in Clients, Handler(c)
        PROVE  pc'[d] \in {"count", "add", "addQuietly", "start", "open"}
    <3>1. topics[c] # {} => pc[c] \in {"count", "add", "addQuietly", "start", "open"}
      BY DEF Books
    <3>2. CASE Register(c) \/ UpgradeFails(c)
      <4>1. /\ \E p : pc' = [pc EXCEPT ![c] = p]
            /\ topics' = topics /\ topics[c] = {}
        BY <3>1, <3>2 DEF Register, UpgradeFails, At, Go
      <4> QED BY <2>3, <4>1
    <3>3. CASE Upgrade(c)
      <4>1. /\ \E p \in {"count", "start"} : pc' = [pc EXCEPT ![c] = p]
            /\ \A e \in Clients \ {c} : topics'[e] = topics[e]
        BY <3>3 DEF Upgrade, Go, HubType
      <4> QED BY <2>3, <4>1
    <3>4. CASE StartPumps(c) \/ Count(c) \/ Add(c) \/ (CallFails(c) /\ Held(c))
      <4>1. /\ \E p \in {"open", "start", "add", "addQuietly"} : pc' = [pc EXCEPT ![c] = p]
            /\ topics' = topics
        BY <3>4 DEF StartPumps, Count, Add, CallFails, Held, At, Go, hub
      <4> QED BY <2>3, <4>1
    <3>5. CASE Subscribe(c) \/ Unsubscribe(c)
      <4>1. /\ pc' = pc
            /\ pc[c] = "open" \/ topics'[c] = {} \/ topics[c] # {}
            /\ \A e \in Clients \ {c} : topics'[e] = topics[e]
        BY <3>5 DEF Subscribe, Unsubscribe, At, HubType
      <4> QED BY <1>3, <2>1, <3>1, <4>1
    <3>6. CASE ReadError(c) \/ ReadDeadline(c)
      <4>1. /\ \E p : pc' = [pc EXCEPT ![c] = p]
            /\ topics'[c] = {} /\ \A e \in Clients \ {c} : topics'[e] = topics[e]
        BY <3>6 DEF ReadError, ReadDeadline, Leave, Go, HubType
      <4> QED BY <2>3, <4>1
    <3>7. CASE \/ ZRem(c) \/ ZCard(c) \/ Del(c) \/ Schedule(c) \/ Vanish(c)
               \/ (CallFails(c) /\ ~Held(c))
      <4>1. /\ \E p : pc' = [pc EXCEPT ![c] = p]
            /\ topics' = topics /\ topics[c] = {}
        BY <3>1, <3>7 DEF ZRem, ZCard, Del, Schedule, Vanish, CallFails, Held, At, Go, hub
      <4> QED BY <2>3, <4>1
    <3>8. CASE \/ WriteMessage(c) \/ WriteResync(c) \/ WriteFails(c) \/ Heartbeat(c)
               \/ Lapse(c)
      BY <2>2, <3>8 DEF WriteMessage, WriteResync, WriteFails, Heartbeat, Lapse, hub
    <3> QED
      BY <2>4, <3>2, <3>3, <3>4, <3>5, <3>6, <3>7, <3>8 DEF Handler
  <2>5. CASE Crash
    BY <1>3, <2>5 DEF Crash
  <2>6. CASE \/ \E j \in Jobs : ReadUser(j) \/ HasLiveSocket(j) \/ Save(j)
                              \/ MiscountsLive(j) \/ RecomputeFails(j)
             \/ Deliver \/ LoseEvent \/ KeyExpires \/ Watch \/ LoseNotice \/ SetSettings
             \/ UNCHANGED vars
    <3>1. pc' = pc /\ topics' = topics
      BY <2>6 DEF ReadUser, HasLiveSocket, Save, MiscountsLive, RecomputeFails, Deliver, LoseEvent, KeyExpires, Watch,
                  LoseNotice, SetSettings, vars, hub
    <3> QED BY <2>2, <3>1
  <2> QED BY <2>4, <2>5, <2>6 DEF Next
<1> QED BY <1>1, <1>2, <1>3 DEF Books

\* Types and books hold in every reachable state.
LEMMA BooksHold == Spec => [](HubType /\ PresenceType /\ Books)
<1>1. Init => HubType /\ PresenceType /\ Books
  <2> SUFFICES ASSUME Init PROVE HubType /\ PresenceType /\ Books
    OBVIOUS
  <2>1. load \in Load
    BY SocketsAssumption DEF Init, Load
  <2>2. HubType
    <3>1. /\ coming \subseteq Events
          /\ topics \in [Clients -> SUBSET Rooms]
          /\ send \in [Clients -> Seq(Events)]
      <4>1. /\ coming = load.events /\ topics = [c \in Clients |-> {}]
            /\ send = [c \in Clients |-> <<>>]
        BY DEF Init
      <4>2. load.events \subseteq Events
        BY <2>1, LoadSteps
      <4> QED BY <4>1, <4>2
    <3>2. /\ pc \in [Clients -> Places] /\ pump \in [Clients -> {"off", "on", "dead"}]
          /\ resync \in [Clients -> BOOLEAN]
      BY DEF Init, Places
    <3>3. due \in [Clients -> SUBSET Events] /\ known \in [Clients -> SUBSET Events]
      BY DEF Init
    <3> QED BY <2>1, <3>1, <3>2, <3>3 DEF HubType
  <2>3. PresenceType
    BY NewJobs DEF Init, PresenceType, Settings
  <2>4. Holding = {}
    BY DEF Init, Holding, Held
  <2>5. /\ IsFiniteSet(Holding) /\ slots = Cardinality(Holding)
        /\ load.max # 0 => slots <= load.max
    <3>1. slots = 0
      BY DEF Init
    <3>2. load.max \in Nat
      BY <2>1, LoadSteps
    <3>3. 0 <= load.max
      BY <3>2
    <3> QED BY <2>4, <3>1, <3>3, FS_EmptySet
  <2>6. \A c \in Clients : Len(send[c]) <= BufferSize
    <3>1. Len(<<>>) <= BufferSize
      BY SocketsAssumption
    <3> QED BY <3>1 DEF Init
  <2> QED BY <2>2, <2>3, <2>5, <2>6 DEF Init, Books
<1> QED BY <1>1, HubTypeSteps, PresenceTypeSteps, BooksSteps, PTL DEF Spec

\* The hub's books are right, for any number of connections: as many slots are
\* taken as connections hold one, never more than a user may have unless there
\* is no limit, and a buffer never holds more than it can (hub.go, Register, Remove and Deliver).
THEOREM TypeCorrect == Spec => []TypeOK
<1>1. HubType /\ PresenceType /\ Books => TypeOK
  <2> SUFFICES ASSUME HubType, PresenceType, Books PROVE TypeOK
    OBVIOUS
  <2>1. /\ slots = Cardinality({c \in Clients : Held(c)})
        /\ load.max # 0 => slots <= load.max
    BY DEF Books, Holding
  <2>2. ASSUME NEW c \in Clients
        PROVE  /\ Len(send[c]) <= BufferSize
               /\ conns[c] \in {"none", "fresh", "stale"}
               /\ pump[c] \in {"off", "on", "dead"}
               /\ topics[c] \subseteq Rooms
               /\ topics[c] # {} => Held(c)
    BY DEF HubType, PresenceType, Books, Held
  <2> QED BY <2>1, <2>2 DEF TypeOK, PresenceType
<1> QED BY <1>1, BooksHold, PTL

-----------------------------------------------------------------------------
(* The feed.                                                               *)

\* A buffer holds only what is due to its client, a client knows only what was
\* due to it, and an event that is still to come is due to nobody.
Ledger ==
    \A c \in Clients :
        /\ \A i \in 1..Len(send[c]) : send[c][i] \in due[c]
        /\ known[c] \subseteq due[c]
        /\ coming \cap due[c] = {}

\* Every step keeps the ledger.
LEMMA LedgerSteps == HubType /\ Ledger /\ [Next]_vars => Ledger'
<1> SUFFICES ASSUME HubType, Ledger, [Next]_vars, NEW d \in Clients
             PROVE  /\ \A i \in 1..Len(send'[d]) : send'[d][i] \in due'[d]
                    /\ known'[d] \subseteq due'[d]
                    /\ coming' \cap due'[d] = {}
  BY DEF Ledger
<1>0. /\ send[d] \in Seq(Events)
      /\ \A i \in 1..Len(send[d]) : send[d][i] \in due[d]
      /\ known[d] \subseteq due[d] /\ coming \cap due[d] = {}
  BY DEF Ledger, HubType
<1>1. CASE send' = send /\ due' = due /\ known' = known /\ coming' \subseteq coming
  BY <1>0, <1>1
<1>2. ASSUME NEW c \in Clients, WriteMessage(c)
      PROVE  /\ \A i \in 1..Len(send'[d]) : send'[d][i] \in due'[d]
             /\ known'[d] \subseteq due'[d]
             /\ coming' \cap due'[d] = {}
  <2>1. /\ send' = [send EXCEPT ![c] = Tail(send[c])] /\ send[c] # <<>>
        /\ known' = [known EXCEPT ![c] = known[c] \cup {Head(send[c])}]
        /\ due' = due /\ coming' = coming
    BY <1>2 DEF WriteMessage
  <2>2. CASE c = d
    <3>1. /\ send'[d] = Tail(send[d]) /\ send[d] # <<>>
          /\ known'[d] = known[d] \cup {Head(send[d])}
      BY <2>1, <2>2 DEF HubType
    <3>2. /\ \A i \in 1..Len(Tail(send[d])) : Tail(send[d])[i] = send[d][i + 1]
                                              /\ i + 1 \in 1..Len(send[d])
          /\ Head(send[d]) = send[d][1] /\ 1 \in 1..Len(send[d])
      BY <1>0, <3>1
    <3> QED BY <1>0, <2>1, <3>1, <3>2
  <2>3. CASE c # d
    BY <1>0, <2>1, <2>3 DEF HubType
  <2> QED BY <2>2, <2>3
<1>3. ASSUME NEW c \in Clients, WriteResync(c)
      PROVE  /\ \A i \in 1..Len(send'[d]) : send'[d][i] \in due'[d]
             /\ known'[d] \subseteq due'[d]
             /\ coming' \cap due'[d] = {}
  <2>1. known' = [known EXCEPT ![c] = due[c]] /\ UNCHANGED <<send, due, coming>>
    BY <1>3 DEF WriteResync
  <2>2. known'[d] \subseteq due[d]
    BY <1>0, <2>1 DEF HubType
  <2> QED BY <1>0, <2>1, <2>2
<1>4. CASE Deliver
  <2>1. PICK e \in coming : Delivered(e)
    BY <1>4, DeliverSteps
  <2>2. /\ known' = known /\ coming' = coming \ {e} /\ e \in Events
        /\ due[d] \subseteq due'[d] /\ due'[d] \subseteq due[d] \cup {e}
        /\ d \in Followers(e) => e \in due'[d]
        /\ send'[d] = IF d \in Followers(e) \ Full(e) THEN Append(send[d], e) ELSE send[d]
    BY <2>1 DEF Delivered, HubType
  <2>3. \A i \in 1..Len(send'[d]) : send'[d][i] \in due'[d]
    <3>1. CASE d \in Followers(e) \ Full(e)
      <4>1. send'[d] = Append(send[d], e) /\ e \in due'[d]
        BY <2>2, <3>1
      <4>2. ASSUME NEW i \in 1..Len(send'[d])
            PROVE  send'[d][i] = e \/ (i \in 1..Len(send[d]) /\ send'[d][i] = send[d][i])
        BY <1>0, <2>2, <4>1
      <4> QED BY <1>0, <2>2, <4>1, <4>2
    <3>2. CASE d \notin Followers(e) \ Full(e)
      BY <1>0, <2>2, <3>2
    <3> QED BY <3>1, <3>2
  <2> QED BY <1>0, <2>2, <2>3
<1>5. ASSUME ~\E c \in Clients : WriteMessage(c) \/ WriteResync(c), ~Deliver
      PROVE  send' = send /\ due' = due /\ known' = known /\ coming' \subseteq coming
  <2>1. ASSUME NEW c \in Clients, Handler(c)
        PROVE  UNCHANGED <<send, due, known, coming>>
    BY <1>5, <2>1 DEF Handler, Register, UpgradeFails, Upgrade, StartPumps, Subscribe,
       Unsubscribe, WriteFails, Heartbeat, ReadError, ReadDeadline, Leave, Count, Add, ZRem,
       ZCard, Del, Schedule, Vanish, Lapse, CallFails, hub
  <2>2. ASSUME NEW j \in Jobs, \/ ReadUser(j) \/ HasLiveSocket(j) \/ Save(j)
                                \/ MiscountsLive(j) \/ RecomputeFails(j)
        PROVE  UNCHANGED <<send, due, known, coming>>
    BY <2>2 DEF ReadUser, HasLiveSocket, Save, MiscountsLive, RecomputeFails, hub
  <2>3. CASE LoseEvent \/ Crash \/ KeyExpires \/ Watch \/ LoseNotice \/ SetSettings
             \/ UNCHANGED vars
    BY <2>3 DEF LoseEvent, Crash, KeyExpires, Watch, LoseNotice, SetSettings, vars, hub
  <2> QED BY <1>5, <2>1, <2>2, <2>3 DEF Next
<1> QED BY <1>1, <1>2, <1>3, <1>4, <1>5

\* Every step of the hub and the pumps is a step of the feed, or none.
LEMMA FeedSteps ==
    HubType /\ Books /\ Ledger /\ [Next]_vars => [F!Next]_(F!vars)
<1> SUFFICES ASSUME HubType, Books, Ledger, [Next]_vars
             PROVE  [F!Next]_(F!vars)
  OBVIOUS
<1> DEFINE on == [c \in Clients |-> Held(c)]
<1>0. \A c \in Clients : on[c] <=> c \in Holding
  BY DEF Holding
<1>1. \A c \in Clients : (on')[c] <=> c \in Holding'
  BY DEF Holding
<1>2. /\ on = [c \in Clients |-> on[c]] /\ on' = [c \in Clients |-> (on')[c]]
      /\ \A c \in Clients : on[c] \in BOOLEAN /\ (on')[c] \in BOOLEAN
  BY DEF Held
<1>3. ASSUME Holding' = Holding PROVE on' = on
  BY <1>0, <1>1, <1>2, <1>3
<1>4. ASSUME NEW c \in Clients, c \notin Holding, Holding' = Holding \cup {c},
             UNCHANGED <<due, known>>
      PROVE  F!Next
  <2>1. on' = [on EXCEPT ![c] = TRUE] /\ ~on[c]
    <3>1. \A d \in Clients : (on')[d] = IF d = c THEN TRUE ELSE on[d]
      BY <1>0, <1>1, <1>2, <1>4
    <3>2. on' = [d \in Clients |-> IF d = c THEN TRUE ELSE on[d]]
      BY <1>2, <3>1
    <3> QED BY <1>0, <1>4, <3>2
  <2>2. F!Connect(c)
    BY <1>4, <2>1 DEF F!Connect
  <2> QED BY <2>2 DEF F!Next
<1>5. ASSUME NEW cs \in SUBSET Holding, Holding' = Holding \ cs, UNCHANGED <<due, known>>
      PROVE  F!Next
  <2>1. (\A c \in cs : on[c]) /\ cs \in SUBSET Clients
    BY <1>0 DEF Holding
  <2>2. on' = [c \in Clients |-> on[c] /\ c \notin cs]
    BY <1>0, <1>1, <1>2, <1>5
  <2>3. F!Disconnect(cs)
    BY <1>5, <2>1, <2>2 DEF F!Disconnect
  <2> QED BY <2>1, <2>3 DEF F!Next
<1>6. CASE UNCHANGED <<due, known>>
  <2>1. CASE Holding' = Holding
    BY <1>3, <1>6, <2>1 DEF F!vars
  <2>2. CASE \E c \in Clients : c \notin Holding /\ Holding' = Holding \cup {c}
    BY <1>4, <1>6, <2>2
  <2>3. CASE \E c \in Holding : Holding' = Holding \ {c}
    <3>1. PICK c \in Holding : Holding' = Holding \ {c}
      BY <2>3
    <3>2. {c} \in SUBSET Holding
      OBVIOUS
    <3> QED BY <1>5, <1>6, <3>1, <3>2
  <2>4. CASE Holding' = {}
    <3>1. Holding' = Holding \ Holding /\ Holding \in SUBSET Holding
      BY <2>4
    <3> QED BY <1>5, <1>6, <3>1
  <2> QED BY <2>1, <2>2, <2>3, <2>4, HoldingSteps
<1>7. ASSUME NEW c \in Clients, WriteMessage(c) \/ WriteResync(c)
      PROVE  F!Next
  <2>1. /\ pc' = pc /\ due' = due /\ known[c] \subseteq due[c]
        /\ send[c] \in Seq(Events)
        /\ \A i \in 1..Len(send[c]) : send[c][i] \in due[c]
    BY <1>7 DEF WriteMessage, WriteResync, Ledger, HubType
  <2>2. on' = on
    BY <1>3, <2>1 DEF Holding, Held
  <2>3. CASE WriteMessage(c)
    <3>1. send[c] # <<>> /\ known' = [known EXCEPT ![c] = @ \cup {Head(send[c])}]
      BY <2>3 DEF WriteMessage
    <3>2. Head(send[c]) = send[c][1] /\ 1 \in 1..Len(send[c])
      BY <2>1, <3>1
    <3>3. {Head(send[c])} \in SUBSET due[c]
      BY <2>1, <3>2
    <3>4. F!Learn(c)
      BY <2>1, <2>2, <3>1, <3>3 DEF F!Learn
    <3> QED BY <3>4 DEF F!Next
  <2>4. CASE WriteResync(c)
    <3>1. known' = [known EXCEPT ![c] = due[c]]
      BY <2>4 DEF WriteResync
    <3>2. due[c] = known[c] \cup due[c]
      BY <2>1
    <3>3. known' = [known EXCEPT ![c] = @ \cup due[c]]
      BY <3>1, <3>2 DEF HubType
    <3>4. F!Learn(c)
      BY <2>1, <2>2, <3>3 DEF F!Learn
    <3> QED BY <3>4 DEF F!Next
  <2> QED BY <1>7, <2>3, <2>4
<1>8. ASSUME Deliver PROVE F!Next
  <2>1. PICK e \in coming : Delivered(e)
    BY <1>8, DeliverSteps
  <2>2. /\ e \in Events /\ pc' = pc /\ known' = known
        /\ due' = [c \in Clients |-> IF c \in Followers(e) THEN due[c] \cup {e} ELSE due[c]]
        /\ \A c \in Clients : e \notin due[c]
    BY <2>1 DEF Delivered, HubType, Ledger
  <2>3. on' = on
    BY <1>3, <2>2 DEF Holding, Held
  <2>4. Followers(e) \in SUBSET {c \in Clients : on[c]}
    BY DEF Followers, Books, Held
  <2>5. F!Arrive(e)
    BY <2>2, <2>3, <2>4 DEF F!Arrive
  <2> QED BY <2>2, <2>5 DEF F!Next
<1>9. UNCHANGED <<due, known>> \/ (\E c \in Clients : WriteMessage(c) \/ WriteResync(c)) \/ Deliver
  BY DEF Next, Handler, Register, UpgradeFails, Upgrade, StartPumps, Subscribe,
         Unsubscribe, WriteFails, Heartbeat, ReadError,
         ReadDeadline, Leave, Count, Add, ZRem, ZCard, Del, Schedule, Vanish, Lapse, CallFails,
         ReadUser, HasLiveSocket, Save, MiscountsLive, RecomputeFails, LoseEvent, Crash, KeyExpires, Watch,
         LoseNotice, SetSettings, vars, hub
<1> QED BY <1>6, <1>7, <1>8, <1>9

\* What Feed promises, without the liveness of Told.
FeedSafety == F!Init /\ [][F!Next]_(F!vars)

\* Hub and pumps take only the steps the feed allows: an event is due only to
\* connections that are up, at most once, nothing becomes known that was not
\* due, and what is known is not forgotten (hub.go, handler.go).
THEOREM ImplementsFeed == Spec => FeedSafety
<1>1. Init => F!Init /\ Ledger
  <2> SUFFICES ASSUME Init PROVE F!Init /\ Ledger
    OBVIOUS
  <2>1. /\ due = [c \in Clients |-> {}] /\ known = [c \in Clients |-> {}]
        /\ send = [c \in Clients |-> <<>>] /\ pc = [c \in Clients |-> "new"]
    BY DEF Init
  <2>2. [c \in Clients |-> Held(c)] = [c \in Clients |-> FALSE]
    BY <2>1 DEF Held
  <2>3. F!Init
    BY <2>1, <2>2 DEF F!Init
  <2>4. Ledger
    BY <2>1 DEF Ledger
  <2> QED BY <2>3, <2>4
<1> QED BY <1>1, FeedSteps, LedgerSteps, BooksHold, PTL DEF Spec, FeedSafety

-----------------------------------------------------------------------------
(* Presence.                                                               *)

Early == {"new", "registered", "count", "add", "addQuietly", "start"}

\* A pump runs only once the connection is open, and nothing lists a
\* connection before Connect does.
Rooted ==
    \A c \in Clients : /\ pc[c] \in Early => pump[c] = "off"
                       /\ pc[c] \in Early \ {"start"} => conns[c] # "fresh"

Calm == ~crossed /\ load.presence

\* A recomputation that was not overtaken has read what is there.
UpToDate ==
    \A j \in Jobs : ~job[j].behind =>
        /\ job[j].at \in {"live", "save"} => job[j].user = user
        /\ job[j].at = "save" => (job[j].live <=> Fresh # {})

Right == status = Effective(user, Fresh # {})

Underway == \E j \in Jobs : job[j].at # "none"

\* What will have the status recomputed when no connection is listed as live: a
\* notice, a key that will expire, or a handler that is on its way.
Awaited ==
    \/ notices > 0
    \/ \E c \in Clients : conns[c] = "stale"
    \/ \E c \in Clients : pc[c] \notin {"new", "registered", "done"}
    \/ \E c, d \in Clients : At(c, "registered") /\ At(d, "done")

\* The status is right or somebody will see to it; while only connections that
\* are closed are listed as live, their lapse will.
Attended ==
    Right \/ Underway \/ (IF Fresh = {} THEN Awaited ELSE \A c \in Fresh : ~Up(c))

Heeded == UpToDate /\ (Calm => Attended)

\* What the writes of the store do to the connections that are live.
LEMMA FreshSteps ==
    ASSUME PresenceType
    PROVE  /\ conns' = conns \/ conns' = Pruned => Fresh' = Fresh
           /\ conns' = [d \in Clients |-> "none"] => Fresh' = {}
           /\ \A c \in Clients :
                 /\ conns' = [conns EXCEPT ![c] = "fresh"] => Fresh' = Fresh \cup {c}
                 /\ conns' = [conns EXCEPT ![c] = "none"] => Fresh' = Fresh \ {c}
                 /\ conns' = [conns EXCEPT ![c] = "stale"] => Fresh' = Fresh \ {c}
<1>1. \A d \in Clients : d \in Fresh' <=> conns'[d] = "fresh"
  BY DEF Fresh
<1>2. \A d \in Clients : d \in Fresh <=> conns[d] = "fresh"
  BY DEF Fresh
<1>3. Fresh \subseteq Clients /\ Fresh' \subseteq Clients
  BY DEF Fresh
<1>4. conns' = conns \/ conns' = Pruned => Fresh' = Fresh
  <2> SUFFICES ASSUME conns' = conns \/ conns' = Pruned PROVE Fresh' = Fresh
    OBVIOUS
  <2>1. \A d \in Clients : conns'[d] = "fresh" <=> conns[d] = "fresh"
    BY DEF Pruned
  <2> QED BY <1>1, <1>2, <1>3, <2>1
<1>5. conns' = [d \in Clients |-> "none"] => Fresh' = {}
  BY <1>1, <1>3
<1>6. ASSUME NEW c \in Clients, conns' = [conns EXCEPT ![c] = "fresh"]
      PROVE  Fresh' = Fresh \cup {c}
  <2>1. conns'[c] = "fresh" /\ \A d \in Clients \ {c} : conns'[d] = conns[d]
    BY <1>6 DEF PresenceType
  <2> QED BY <1>1, <1>2, <1>3, <2>1
<1>7. ASSUME NEW c \in Clients, NEW v \in {"none", "stale"}, conns' = [conns EXCEPT ![c] = v]
      PROVE  Fresh' = Fresh \ {c}
  <2>1. conns'[c] = v /\ \A d \in Clients \ {c} : conns'[d] = conns[d]
    BY <1>7 DEF PresenceType
  <2> QED BY <1>1, <1>2, <1>3, <2>1
<1> QED BY <1>4, <1>5, <1>6, <1>7

\* Only a recomputation that nothing overtook takes back what happened.
LEMMA CalmSteps ==
    ASSUME HubType, [Next]_vars
    PROVE  /\ load'.presence = load.presence
           /\ (crossed => crossed') \/ \E j \in Jobs : Save(j)
<1>1. load'.presence = load.presence
  <2>1. CASE SetSettings
    BY <2>1, LoadSteps DEF SetSettings, HubType
  <2>2. CASE Fault \/ UNCHANGED load
    BY <2>2, FaultSteps
  <2> QED BY <2>1, <2>2 DEF Next, Handler, Register, UpgradeFails, Upgrade, StartPumps,
      Subscribe, Unsubscribe, WriteMessage, WriteResync, WriteFails, Heartbeat, ReadError,
      ReadDeadline, Leave, Count, Add, ZRem, ZCard, Del, Schedule, Vanish, Lapse, CallFails,
      ReadUser, HasLiveSocket, Save, MiscountsLive, RecomputeFails, Deliver, LoseEvent, Crash,
      KeyExpires, Watch, LoseNotice, vars
<1>2. (crossed => crossed') \/ \E j \in Jobs : Save(j)
  BY DEF Next, Handler, Register, UpgradeFails, Upgrade, StartPumps,
      Subscribe, Unsubscribe, WriteMessage, WriteResync, WriteFails, Heartbeat, ReadError,
      ReadDeadline, Leave, Count, Add, ZRem, ZCard, Del, Schedule, Vanish, Lapse, CallFails,
      ReadUser, HasLiveSocket, MiscountsLive, RecomputeFails, Deliver, LoseEvent, Crash,
      KeyExpires, Watch, LoseNotice,
      SetSettings, vars, presence
<1> QED BY <1>1, <1>2

\* Every step keeps a pump off until the connection is open, and it unlisted
\* until Connect lists it.
LEMMA RootedSteps ==
    ASSUME HubType, PresenceType, Rooted, [Next]_vars PROVE Rooted'
<1> SUFFICES ASSUME NEW d \in Clients
             PROVE  /\ pc'[d] \in Early => pump'[d] = "off"
                    /\ pc'[d] \in Early \ {"start"} => conns'[d] # "fresh"
  BY DEF Rooted
<1>0. /\ pc[d] \in Early => pump[d] = "off"
      /\ pc[d] \in Early \ {"start"} => conns[d] # "fresh"
      /\ Pruned[d] = "fresh" <=> conns[d] = "fresh"
  BY DEF Rooted, Pruned
<1>1. CASE UNCHANGED <<pc, pump>> /\ (conns' = conns \/ conns' = Pruned)
  BY <1>0, <1>1
<1>2. ASSUME NEW c \in Clients, Handler(c)
      PROVE  /\ pc'[d] \in Early => pump'[d] = "off"
             /\ pc'[d] \in Early \ {"start"} => conns'[d] # "fresh"
  <2>1. CASE \/ Register(c) \/ UpgradeFails(c) \/ Upgrade(c) \/ Count(c)
             \/ (CallFails(c) /\ Held(c))
    <3>1. /\ pump' = pump /\ pc[c] \in Early \ {"start"}
          /\ \A e \in Clients \ {c} : pc'[e] = pc[e]
          /\ conns' = conns \/ conns' = Pruned
      BY <2>1 DEF Register, UpgradeFails, Upgrade, Count, CallFails, Held, At, Go, Early,
         HubType, presence
    <3> QED BY <1>0, <3>1
  <2>2. CASE Add(c)
    <3>1. /\ pump' = pump /\ pc[c] \in Early /\ pc'[c] = "start"
          /\ \A e \in Clients \ {c} : pc'[e] = pc[e] /\ conns'[e] = conns[e]
      BY <2>2 DEF Add, At, Go, Early, HubType, PresenceType
    <3> QED BY <1>0, <3>1
  <2>3. CASE StartPumps(c)
    <3>1. /\ pc'[c] = "open" /\ conns' = conns
          /\ \A e \in Clients \ {c} : pc'[e] = pc[e] /\ pump'[e] = pump[e]
      BY <2>3 DEF StartPumps, At, Go, HubType, presence
    <3> QED BY <1>0, <3>1 DEF Early
  <2>4. CASE WriteFails(c) \/ Heartbeat(c)
    <3>1. /\ pump[c] = "on" /\ pc' = pc
          /\ \A e \in Clients \ {c} : pump'[e] = pump[e] /\ conns'[e] = conns[e]
      BY <2>4 DEF WriteFails, Heartbeat, HubType, PresenceType, presence
    <3> QED BY <1>0, <3>1
  <2>5. CASE \/ ReadError(c) \/ ReadDeadline(c) \/ ZRem(c) \/ ZCard(c) \/ Del(c)
             \/ Schedule(c) \/ Vanish(c) \/ (CallFails(c) /\ ~Held(c))
    <3>1. /\ pump' = pump /\ pc'[c] \notin Early
          /\ \A e \in Clients \ {c} : pc'[e] = pc[e]
      BY <2>5 DEF ReadError, ReadDeadline, Leave, ZRem, ZCard, Del, Schedule, Vanish, CallFails,
         Held, At, Go, Early, HubType
    <3>2. conns'[d] = "fresh" => conns[d] = "fresh"
      BY <1>0, <2>5 DEF ReadError, ReadDeadline, Leave, ZRem, ZCard, Del, Schedule, Vanish,
         CallFails, PresenceType, presence
    <3> QED BY <1>0, <3>1, <3>2
  <2>6. CASE Lapse(c)
    <3>1. /\ pc' = pc /\ pump' = pump
          /\ conns'[d] = "fresh" => conns[d] = "fresh"
      BY <2>6 DEF Lapse, PresenceType
    <3> QED BY <1>0, <3>1
  <2> QED BY <1>1, <1>2, <2>1, <2>2, <2>3, <2>4, <2>5, <2>6
      DEF Handler, Subscribe, Unsubscribe, WriteMessage, WriteResync, presence
<1>3. CASE Crash
  <2>1. /\ conns' = conns
        /\ pc'[d] = IF pc[d] = "new" THEN "new" ELSE "done"
        /\ pump'[d] = IF pc[d] = "new" THEN "off" ELSE "dead"
    BY <1>3 DEF Crash, At
  <2> QED BY <1>0, <2>1 DEF Early
<1>4. CASE KeyExpires
  BY <1>0, <1>4 DEF KeyExpires
<1> QED BY <1>1, <1>2, <1>3, <1>4 DEF Next, ReadUser, HasLiveSocket, Save, MiscountsLive,
    RecomputeFails, Deliver, LoseEvent, Watch, LoseNotice, SetSettings, vars, presence

\* Every step that overtakes a recomputation marks it.
LEMMA UpToDateSteps ==
    ASSUME HubType, PresenceType, UpToDate, [Next]_vars PROVE UpToDate'
<1> DEFINE Ok(i) == ~job'[i].behind =>
                       /\ job'[i].at \in {"live", "save"} => job'[i].user = user'
                       /\ job'[i].at = "save" => (job'[i].live <=> Fresh' # {})
<1> SUFFICES ASSUME NEW i \in Jobs PROVE Ok(i)
  BY DEF UpToDate
<1>0. /\ job[i] \in Job
      /\ ~job[i].behind =>
            /\ job[i].at \in {"live", "save"} => job[i].user = user
            /\ job[i].at = "save" => (job[i].live <=> Fresh # {})
  BY DEF UpToDate, PresenceType
<1>1. CASE /\ job'[i] = job[i] /\ user' = user
           /\ (Fresh' # {} <=> Fresh # {}) \/ job[i].at # "save"
  BY <1>0, <1>1
<1>2. CASE \/ job'[i] = NoJob \/ job'[i] = [NoJob EXCEPT !.at = "user"]
           \/ job'[i] = [job[i] EXCEPT !.behind = TRUE]
  <2>1. job'[i].behind \/ job'[i].at \in {"none", "user"}
    BY <1>0, <1>2, JobTypes, NewJobs
  <2> QED BY <2>1
<1>3. ASSUME NEW live \in BOOLEAN, LiveChanges(live), user' = user, live <=> Fresh' # {}
      PROVE  Ok(i)
  <2>1. CASE job[i].at = "save" /\ job[i].live # live
    BY <1>2, <1>3, <2>1 DEF LiveChanges
  <2>2. CASE ~(job[i].at = "save" /\ job[i].live # live)
    <3>1. job'[i] = job[i]
      BY <1>3, <2>2 DEF LiveChanges
    <3> QED BY <1>0, <1>3, <2>2, <3>1
  <2> QED BY <2>1, <2>2
<1>4. ASSUME NEW c \in Clients, Handler(c) PROVE Ok(i)
  <2>1. CASE \/ Register(c) \/ UpgradeFails(c) \/ Upgrade(c) \/ StartPumps(c)
             \/ Subscribe(c) \/ Unsubscribe(c) \/ WriteMessage(c) \/ WriteResync(c)
             \/ WriteFails(c) \/ ReadError(c) \/ ReadDeadline(c) \/ Count(c)
             \/ ZCard(c) \/ Schedule(c) \/ CallFails(c)
    <3>1. UNCHANGED <<job, user>> /\ (conns' = conns \/ conns' = Pruned)
      BY <2>1 DEF CallFails, Register, UpgradeFails, Upgrade, StartPumps, Subscribe, Unsubscribe,
         WriteMessage, WriteResync, WriteFails, ReadError, ReadDeadline, Leave, Count,
         ZCard, Schedule, presence
    <3> QED BY <1>1, <3>1, FreshSteps
  <2>2. CASE Heartbeat(c)
    <3>1. Fresh' = Fresh \cup {c} /\ user' = user
      BY <2>2, FreshSteps DEF Heartbeat
    <3>2. CASE conns[c] # "fresh" /\ job[i].at = "save"
      BY <1>2, <2>2, <3>2 DEF Heartbeat
    <3>3. CASE conns[c] = "fresh"
      <4>1. Fresh' = Fresh /\ job'[i] = job[i]
        BY <2>2, <3>1, <3>3 DEF Heartbeat, Fresh
      <4> QED BY <1>1, <3>1, <4>1
    <3>4. CASE job[i].at # "save"
      BY <1>1, <2>2, <3>1, <3>4 DEF Heartbeat
    <3> QED BY <3>2, <3>3, <3>4
  <2>3. CASE Add(c)
    <3>1. Fresh' = Fresh \cup {c} /\ user' = user
      BY <2>3, FreshSteps DEF Add
    <3>2. \/ job'[i] = [NoJob EXCEPT !.at = "user"]
          \/ job'[i] = [job[i] EXCEPT !.behind = TRUE]
          \/ job'[i] = job[i] /\ ~(job[i].at = "save" /\ ~job[i].live)
      BY <2>3 DEF Add
    <3> QED BY <1>0, <1>2, <3>1, <3>2
  <2>4. CASE ZRem(c) \/ Lapse(c)
    <3>1. /\ user' = user /\ LiveChanges(Fresh \ {c} # {})
          /\ \/ conns' = [conns EXCEPT ![c] = "none"]
             \/ conns' = [conns EXCEPT ![c] = "stale"]
      BY <2>4 DEF ZRem, Lapse
    <3>2. Fresh' = Fresh \ {c}
      BY <3>1, FreshSteps
    <3> QED BY <1>3, <3>1, <3>2
  <2>5. CASE Del(c)
    <3>1. user' = user /\ LiveChanges(FALSE) /\ conns' = [d \in Clients |-> "none"]
      BY <2>5 DEF Del
    <3>2. Fresh' = {}
      BY <3>1, FreshSteps
    <3> QED BY <1>3, <3>1, <3>2
  <2>6. CASE Vanish(c)
    <3>1. UNCHANGED <<conns, user>>
      BY <2>6 DEF Vanish
    <3>2. job'[i] = job[i] \/ job'[i] = [NoJob EXCEPT !.at = "user"]
      BY <2>6 DEF Vanish, PresenceType
    <3> QED BY <1>1, <1>2, <3>1, <3>2, FreshSteps
  <2> QED BY <1>4, <2>1, <2>2, <2>3, <2>4, <2>5, <2>6 DEF Handler
<1>5. ASSUME NEW j \in Jobs, \/ ReadUser(j) \/ HasLiveSocket(j) \/ Save(j)
                              \/ MiscountsLive(j) \/ RecomputeFails(j)
      PROVE  Ok(i)
  <2>1. CASE j # i
    <3>1. user' = user /\ job'[i] = job[i] /\ (conns' = conns \/ conns' = Pruned)
      BY <1>5, <2>1 DEF ReadUser, HasLiveSocket, Save, MiscountsLive, RecomputeFails, PresenceType
    <3> QED BY <1>1, <3>1, FreshSteps
  <2>2. CASE j = i
    <3>1. CASE ReadUser(j)
      <4>1. job'[i] = [job[i] EXCEPT !.at = "live", !.user = user] /\ user' = user
        BY <2>2, <3>1 DEF ReadUser, PresenceType
      <4>2. job'[i].at = "live" /\ job'[i].user = user
        BY <1>0, <4>1 DEF Job
      <4> QED BY <4>1, <4>2
    <3>2. CASE HasLiveSocket(j)
      <4>1. /\ job[i].at = "live" /\ user' = user /\ conns' = Pruned
            /\ job'[i] = [job[i] EXCEPT !.at = "save", !.live = Fresh # {}]
        BY <2>2, <3>2 DEF HasLiveSocket, PresenceType
      <4>2. /\ job'[i].behind = job[i].behind /\ job'[i].user = job[i].user
            /\ job'[i].live = (Fresh # {})
        BY <1>0, <4>1 DEF Job
      <4> QED BY <1>0, <4>1, <4>2, FreshSteps
    <3>3. CASE Save(j) \/ RecomputeFails(j)
      BY <1>2, <2>2, <3>3 DEF Save, RecomputeFails, PresenceType
    <3>4. CASE MiscountsLive(j)
      <4>1. job'[i] = [job[i] EXCEPT !.at = "save", !.live = TRUE, !.behind = TRUE]
        BY <2>2, <3>4 DEF MiscountsLive, PresenceType
      <4> QED BY <1>0, <4>1, MiscountTypes
    <3> QED BY <1>5, <3>1, <3>2, <3>3, <3>4
  <2> QED BY <2>1, <2>2
<1>6. CASE Crash
  BY <1>2, <1>6 DEF Crash
<1>7. CASE KeyExpires
  <2>1. Fresh = {} /\ conns' = [d \in Clients |-> "none"] /\ UNCHANGED <<job, user>>
    BY <1>7 DEF KeyExpires
  <2> QED BY <1>1, <2>1, FreshSteps
<1>8. CASE Watch
  <2>1. UNCHANGED <<conns, user>>
    BY <1>8 DEF Watch
  <2>2. job'[i] = job[i] \/ job'[i] = [NoJob EXCEPT !.at = "user"]
    BY <1>8 DEF Watch, PresenceType
  <2> QED BY <1>1, <1>2, <2>1, <2>2, FreshSteps
<1>9. CASE SetSettings
  <2>1. \/ job'[i] = [NoJob EXCEPT !.at = "user"]
        \/ job'[i] = [job[i] EXCEPT !.behind = TRUE]
        \/ job'[i] = job[i] /\ job[i].at \notin {"live", "save"}
    BY <1>9 DEF SetSettings
  <2> QED BY <1>2, <2>1
<1>10. CASE Deliver \/ LoseEvent \/ LoseNotice \/ UNCHANGED vars
  <2>1. UNCHANGED <<conns, user, job>>
    BY <1>10 DEF Deliver, LoseEvent, LoseNotice, vars, presence
  <2> QED BY <1>1, <2>1, FreshSteps
<1> QED BY <1>4, <1>5, <1>6, <1>7, <1>8, <1>9, <1>10 DEF Next

\* Who closes while slots are taken leaves somebody who is on his way.
LEMMA SomebodyStays ==
    ASSUME HubType, Books, NEW c \in Clients, ~Held(c), slots > 0,
           pc' = [pc EXCEPT ![c] = "done"]
    PROVE  Awaited'
<1>1. Holding # {}
  BY FS_EmptySet DEF Books
<1>2. PICK e \in Clients : Held(e)
  BY <1>1 DEF Holding
<1>3. pc'[e] = pc[e] /\ pc'[c] = "done"
  BY <1>2 DEF HubType
<1>4. pc[e] \notin {"new", "done"}
  BY <1>2 DEF Held
<1>5. CASE pc[e] = "registered"
  BY <1>3, <1>5 DEF Awaited, At
<1>6. CASE pc[e] # "registered"
  BY <1>3, <1>4, <1>6 DEF Awaited
<1> QED BY <1>5, <1>6

\* Every step leaves the status right, or somebody who will see to it.
LEMMA AttendedSteps ==
    ASSUME HubType, PresenceType, Books, Rooted, UpToDate, Calm => Attended,
           Calm', [Next]_vars
    PROVE  Attended'
<1> DEFINE Idle == \A c \in Fresh : ~Up(c)
           Wait == IF Fresh = {} THEN Awaited ELSE Idle
           SameJobs == \A j \in Jobs : job'[j].at = job[j].at
           SameStatus == UNCHANGED <<status, user>> /\ (Fresh' # {} <=> Fresh # {})
<1>a. load.presence /\ ~crossed'
  BY CalmSteps DEF Calm
<1>f. ASSUME NEW j \in Jobs, Save(j) PROVE Attended'
  <2>1. /\ job[j].at = "save" /\ ~job[j].behind /\ job[j] \in Job
        /\ status' = Effective(job[j].user, job[j].live) /\ UNCHANGED <<user, conns>>
    BY <1>a, <1>f DEF Save, PresenceType
  <2>2. job[j].user = user /\ job[j].live = (Fresh # {}) /\ Fresh' = Fresh
    BY <2>1, FreshSteps, JobTypes DEF UpToDate
  <2>3. Right'
    BY <2>1, <2>2 DEF Right
  <2> QED BY <2>3 DEF Attended
<1> SUFFICES ASSUME ~\E j \in Jobs : Save(j) PROVE Attended'
  BY <1>f
<1>0. ~crossed /\ (Right \/ Underway \/ Wait)
  BY <1>a, CalmSteps DEF Attended, Calm
<1>b. (Right' \/ Underway' \/ Wait') => Attended'
  BY DEF Attended
<1>c. SameJobs /\ Underway => Underway'
  BY DEF Underway
<1>d. SameStatus /\ Right => Right'
  BY DEF Right
<1>e. \A c \in Clients : pc'[c] \notin {"new", "registered", "done"} => Awaited'
  BY DEF Awaited
<1> HIDE DEF SameJobs, SameStatus
<1>1. ASSUME UNCHANGED <<job, status, user>>, Fresh' = Fresh,
             Fresh = {} /\ Awaited => Awaited',
             \A c \in Fresh : ~Up(c) => ~Up(c)'
      PROVE  Attended'
  <2>1. SameJobs /\ SameStatus
    BY <1>1 DEF SameJobs, SameStatus
  <2>2. Wait => Wait'
    BY <1>1
  <2> QED BY <1>0, <1>b, <1>c, <1>d, <2>1, <2>2
<1>2. ASSUME NEW c \in Clients, Handler(c) PROVE Attended'
  <2>1. CASE Register(c)
    <3>1. /\ pc[c] = "new" /\ pc'[c] \in {"registered", "done"} /\ UNCHANGED presence
          /\ \A e \in Clients \ {c} : pc'[e] = pc[e]
      BY <2>1 DEF Register, At, Go, HubType
    <3>2. UNCHANGED <<job, status, user, conns, notices>>
      BY <3>1 DEF presence
    <3>3. Awaited => Awaited'
      BY <3>1, <3>2 DEF Awaited, At
    <3>4. \A e \in Fresh : ~Up(e) => ~Up(e)'
      BY <3>1 DEF Up, Fresh
    <3> QED BY <1>1, <3>2, <3>3, <3>4, FreshSteps
  <2>2. CASE UpgradeFails(c)
    <3>1. /\ pc[c] = "registered" /\ pc'[c] = "done"
          /\ \A e \in Clients : pc[e] # "done"
          /\ \A e \in Clients \ {c} : pc'[e] = pc[e]
      BY <1>a, <2>2 DEF UpgradeFails, At, Go, HubType
    <3>2. UNCHANGED <<job, status, user, conns, notices>>
      BY <2>2 DEF UpgradeFails
    <3>3. Awaited => Awaited'
      BY <3>1, <3>2 DEF Awaited, At
    <3>4. \A e \in Fresh : ~Up(e) => ~Up(e)'
      BY <3>1 DEF Up, Fresh
    <3> QED BY <1>1, <3>2, <3>3, <3>4, FreshSteps
  <2>3. CASE \/ Upgrade(c) \/ StartPumps(c) \/ ReadError(c) \/ ReadDeadline(c)
             \/ Count(c) \/ ZCard(c)
    <3>1. /\ pc'[c] \in {"count", "open", "zrem", "add", "addQuietly", "del", "schedule"}
          /\ pc'[c] = "open" => pc[c] = "start"
          /\ \A e \in Clients \ {c} : pc'[e] = pc[e]
      BY <1>a, <2>3 DEF Upgrade, StartPumps, ReadError, ReadDeadline, Leave, Count,
         ZCard, At, Go, HubType
    <3>2. UNCHANGED <<job, status, user>> /\ (conns' = conns \/ conns' = Pruned)
      BY <2>3 DEF Upgrade, StartPumps, ReadError, ReadDeadline, Leave, Count, ZCard, presence
    <3>3. \A e \in Fresh : ~Up(e) => ~Up(e)'
      BY <3>1 DEF Up, Fresh
    <3> QED BY <1>1, <1>e, <3>1, <3>2, <3>3, FreshSteps
  <2>11. CASE CallFails(c)
    <3>1. /\ pc'[c] \in {"add", "addQuietly", "start", "del", "schedule"}
          /\ pc'[c] = "start" => pc[c] \in {"add", "addQuietly"}
          /\ \A e \in Clients \ {c} : pc'[e] = pc[e]
          /\ UNCHANGED <<job, status, user, conns>>
      BY <2>11 DEF CallFails, At, Go, HubType, presence
    <3>2. Fresh' = Fresh /\ Awaited'
      BY <1>e, <3>1, FreshSteps
    <3>3. pc'[c] = "start" => c \notin Fresh
      BY <3>1 DEF Rooted, Early, Fresh
    <3>4. \A e \in Fresh : ~Up(e) => ~Up(e)'
      BY <3>1, <3>3 DEF Up, Fresh
    <3> QED BY <1>1, <3>1, <3>2, <3>4
  <2>4. CASE \/ Subscribe(c) \/ Unsubscribe(c) \/ WriteMessage(c) \/ WriteResync(c)
             \/ WriteFails(c)
    <3>1. UNCHANGED <<pc, job, status, user, conns, notices>>
      BY <2>4 DEF Subscribe, Unsubscribe, WriteMessage, WriteResync, WriteFails, presence
    <3>2. (Awaited => Awaited') /\ \A e \in Fresh : ~Up(e) => ~Up(e)'
      BY <3>1 DEF Awaited, At, Up
    <3> QED BY <1>1, <3>1, <3>2, FreshSteps
  <2>5. CASE Heartbeat(c)
    <3>1. /\ pump[c] = "on" /\ UNCHANGED <<pc, status, user>>
          /\ conns' = [conns EXCEPT ![c] = "fresh"]
      BY <2>5 DEF Heartbeat
    <3>2. Fresh' = Fresh \cup {c}
      BY <3>1, FreshSteps
    <3>3. SameJobs
      <4>1. ASSUME NEW j \in Jobs PROVE job'[j].at = job[j].at
        <5>1. job[j] \in Job
          BY DEF PresenceType
        <5> QED BY <2>5, <5>1, JobTypes DEF Heartbeat
      <4> QED BY <4>1 DEF SameJobs
    <3>4. c \notin Fresh /\ Up(c) => ~Idle
      BY <1>a, <2>5, <3>1 DEF Heartbeat, Rooted, Early, At, Up, Fresh
    <3>5. CASE Fresh = {}
      <4>1. ~Up(c)
        BY <3>4, <3>5
      <4>2. Wait'
        BY <3>1, <3>2, <3>5, <4>1 DEF Up
      <4> QED BY <1>b, <4>2
    <3>6. CASE Fresh # {}
      <4>1. SameStatus
        BY <3>1, <3>2, <3>6 DEF SameStatus
      <4>2. Wait => Wait'
        BY <3>1, <3>2, <3>4, <3>6 DEF Up
      <4> QED BY <1>0, <1>b, <1>c, <1>d, <3>3, <4>1, <4>2
    <3> QED BY <3>5, <3>6
  <2>6. CASE Add(c)
    <3>1. /\ UNCHANGED <<status, user>>
          /\ conns' = [conns EXCEPT ![c] = "fresh"]
      BY <2>6 DEF Add
    <3>2. Fresh' = Fresh \cup {c}
      BY <3>1, FreshSteps
    <3>3. CASE At(c, "add")
      <4>1. job'[c].at = "user" /\ c \in Jobs
        BY <2>6, <3>3, NewJobs DEF Add, Jobs
      <4> QED BY <1>b, <4>1 DEF Underway
    <3>4. CASE ~At(c, "add")
      <4>1. \E d \in Fresh : Up(d)
        BY <1>a, <2>6, <3>4 DEF Add
      <4>2. SameJobs
        <5>1. ASSUME NEW j \in Jobs PROVE job'[j].at = job[j].at
          <6>1. job[j] \in Job
            BY DEF PresenceType
          <6> QED BY <2>6, <3>4, <6>1, JobTypes DEF Add
        <5> QED BY <5>1 DEF SameJobs
      <4>3. SameStatus
        BY <3>1, <3>2, <4>1 DEF SameStatus
      <4> QED BY <1>0, <1>b, <1>c, <1>d, <4>1, <4>2, <4>3
    <3> QED BY <3>3, <3>4
  <2>7. CASE ZRem(c) \/ Lapse(c)
    <3>1. /\ UNCHANGED <<status, user>> /\ LiveChanges(Fresh \ {c} # {})
          /\ \/ conns' = [conns EXCEPT ![c] = "none"] /\ pc' = [pc EXCEPT ![c] = "card"]
             \/ conns' = [conns EXCEPT ![c] = "stale"] /\ pc' = pc
      BY <2>7 DEF ZRem, Lapse, Go
    <3>2. Fresh' = Fresh \ {c} /\ (pc'[c] = "card" \/ pc' = pc)
          /\ \A e \in Clients \ {c} : pc'[e] = pc[e]
      BY <3>1, FreshSteps DEF HubType
    <3>3. SameJobs
      <4>1. ASSUME NEW j \in Jobs PROVE job'[j].at = job[j].at
        <5>1. job[j] \in Job
          BY DEF PresenceType
        <5> QED BY <3>1, <5>1, JobTypes DEF LiveChanges
      <4> QED BY <4>1 DEF SameJobs
    <3>4. pc'[c] = "card" \/ conns'[c] = "stale"
      BY <3>1 DEF HubType, PresenceType
    <3>5. Awaited'
      BY <3>4 DEF Awaited
    <3>6. CASE Fresh' = {}
      BY <1>b, <3>5, <3>6
    <3>7. CASE Fresh' # {}
      <4>1. SameStatus /\ Fresh # {}
        BY <3>1, <3>2, <3>7 DEF SameStatus
      <4>2. \A e \in Fresh' : e \in Fresh /\ e \in Clients /\ pc'[e] = pc[e]
        BY <3>2 DEF Fresh
      <4>3. Wait => Wait'
        BY <3>7, <4>1, <4>2 DEF Up
      <4> QED BY <1>0, <1>b, <1>c, <1>d, <3>3, <4>1, <4>3
    <3> QED BY <3>6, <3>7
  <2>8. CASE Del(c)
    <3>1. conns' = [d \in Clients |-> "none"] /\ pc'[c] = "schedule"
      BY <2>8 DEF Del, Go, HubType
    <3>2. Wait'
      BY <1>e, <3>1, FreshSteps
    <3> QED BY <1>b, <3>2
  <2>9. CASE Schedule(c) \/ (Vanish(c) /\ slots > 0)
    <3>1. /\ UNCHANGED <<job, status, user, conns>> /\ pc[c] \in {"schedule", "grace"}
          /\ \/ pc' = [pc EXCEPT ![c] = "done"] /\ slots > 0
             \/ pc' = [pc EXCEPT ![c] = "grace"]
      BY <2>9 DEF Schedule, Vanish, At, Go, presence
    <3>2. Awaited'
      <4>1. CASE pc' = [pc EXCEPT ![c] = "done"] /\ slots > 0
        BY <3>1, <4>1, SomebodyStays DEF Held
      <4>2. CASE pc' = [pc EXCEPT ![c] = "grace"]
        <5>1. pc'[c] = "grace"
          BY <4>2 DEF HubType
        <5> QED BY <1>e, <5>1
      <4> QED BY <3>1, <4>1, <4>2
    <3>3. \A e \in Fresh : ~Up(e) => ~Up(e)'
      BY <3>1 DEF Up, Fresh, HubType
    <3> QED BY <1>1, <3>1, <3>2, <3>3, FreshSteps
  <2>10. CASE Vanish(c) /\ ~(slots > 0)
    <3>1. job'[c].at = "user" /\ c \in Jobs
      BY <2>10, NewJobs DEF Vanish, Jobs, PresenceType
    <3> QED BY <1>b, <3>1 DEF Underway
  <2> QED BY <1>2, <2>1, <2>2, <2>3, <2>4, <2>5, <2>6, <2>7, <2>8, <2>9, <2>10, <2>11 DEF Handler
<1>3. ASSUME NEW j \in Jobs, ReadUser(j) \/ HasLiveSocket(j) \/ MiscountsLive(j) \/ RecomputeFails(j)
      PROVE  Attended'
  <2>1. job[j] \in Job
    BY DEF PresenceType
  <2>2. CASE ReadUser(j)
    <3>1. job'[j] = [job[j] EXCEPT !.at = "live", !.user = user]
      BY <2>2 DEF ReadUser, PresenceType
    <3>2. job'[j].at = "live"
      BY <2>1, <3>1 DEF Job
    <3> QED BY <1>b, <3>2 DEF Underway
  <2>3. CASE HasLiveSocket(j)
    <3>1. job'[j] = [job[j] EXCEPT !.at = "save", !.live = Fresh # {}]
      BY <2>3 DEF HasLiveSocket, PresenceType
    <3>2. job'[j].at = "save"
      BY <2>1, <3>1 DEF Job
    <3> QED BY <1>b, <3>2 DEF Underway
  <2>4. CASE MiscountsLive(j)
    <3>1. job'[j] = [job[j] EXCEPT !.at = "save", !.live = TRUE, !.behind = TRUE]
      BY <2>4 DEF MiscountsLive, PresenceType
    <3>2. job'[j].at = "save"
      BY <2>1, <3>1, MiscountTypes
    <3> QED BY <1>b, <3>2 DEF Underway
  <2>5. CASE RecomputeFails(j)
    BY <1>a, <2>5 DEF RecomputeFails
  <2> QED BY <1>3, <2>2, <2>3, <2>4, <2>5
<1>4. CASE Crash
  <2>1. /\ UNCHANGED <<status, user, conns, notices>>
        /\ \A c \in Clients : pc'[c] \in {"new", "done"}
    BY <1>4 DEF Crash
  <2>2. /\ \A j \in Jobs : job[j].at = "none"
        /\ \A c \in Clients : pc[c] \notin {"new", "done"} => conns[c] = "fresh" /\ pc[c] = "open"
    BY <1>a, <1>4 DEF Crash, At
  <2>3. SameStatus /\ Fresh' = Fresh /\ ~Underway
    BY <2>1, <2>2, FreshSteps DEF SameStatus, Underway
  <2>4. Fresh = {} /\ Awaited => Awaited'
    <3>1. Fresh = {} => \A c \in Clients : pc[c] \in {"new", "done"}
      BY <2>2 DEF Fresh
    <3> QED BY <2>1, <3>1 DEF Awaited, At
  <2>5. Idle'
    BY <2>1, <2>3 DEF Up, Fresh
  <2> QED BY <1>0, <1>b, <1>d, <2>3, <2>4, <2>5
<1>5. CASE KeyExpires
  <2>1. /\ Fresh = {} /\ UNCHANGED <<job, status, user>> /\ notices' = notices + 1
        /\ conns' = [d \in Clients |-> "none"]
    BY <1>5 DEF KeyExpires
  <2>2. notices' > 0
    BY <2>1 DEF PresenceType
  <2> QED BY <1>1, <2>1, <2>2, FreshSteps DEF Awaited
<1>6. CASE Watch \/ SetSettings
  <2>0. Api \in Jobs /\ Watcher \in Jobs
    BY DEF Jobs
  <2>1. \E j \in Jobs : job'[j].at = "user"
    <3>1. CASE Watch
      <4>1. job' = [job EXCEPT ![Watcher] = [NoJob EXCEPT !.at = "user"]]
        BY <3>1 DEF Watch
      <4>2. job'[Watcher] = [NoJob EXCEPT !.at = "user"]
        BY <2>0, <4>1 DEF PresenceType
      <4> QED BY <2>0, <4>2, NewJobs
    <3>2. CASE SetSettings
      <4>1. job'[Api] = [NoJob EXCEPT !.at = "user"]
        BY <2>0, <3>2 DEF SetSettings
      <4> QED BY <2>0, <4>1, NewJobs
    <3> QED BY <1>6, <3>1, <3>2
  <2> QED BY <1>b, <2>1 DEF Underway
<1>7. CASE Deliver \/ LoseEvent \/ LoseNotice \/ UNCHANGED vars
  <2>1. UNCHANGED <<pc, job, status, user, conns, notices>>
    BY <1>a, <1>7 DEF Deliver, LoseEvent, LoseNotice, vars, presence
  <2>2. (Awaited => Awaited') /\ \A e \in Fresh : ~Up(e) => ~Up(e)'
    BY <2>1 DEF Awaited, At, Up
  <2> QED BY <1>1, <2>1, <2>2, FreshSteps
<1> QED BY <1>2, <1>3, <1>4, <1>5, <1>6, <1>7 DEF Next

\* Whenever the presence is at rest and, since the last recomputation that
\* nothing overtook, none was overtaken or failed and nothing got lost, the cached status is what the settings and the live sockets give, for
\* any number of connections (presence_service.go, recomputeAndPublish; store.go).
THEOREM PresenceIsRight == Spec => []PresenceAgrees
<1>1. Init => Rooted /\ Heeded
  <2> SUFFICES ASSUME Init PROVE Rooted /\ Heeded
    OBVIOUS
  <2>1. /\ \A c \in Clients : pc[c] = "new" /\ pump[c] = "off" /\ conns[c] = "none"
        /\ \A j \in Jobs : job[j] = NoJob
        /\ user = [availability |-> "online", auto |-> TRUE] /\ status = "offline"
    BY DEF Init
  <2>2. Right
    BY <2>1 DEF Right, Effective, Fresh
  <2>3. UpToDate
    BY <2>1, NewJobs DEF UpToDate
  <2> QED BY <2>1, <2>2, <2>3 DEF Rooted, Early, Heeded, Attended
<1>2. HubType /\ PresenceType /\ Books /\ Rooted /\ Heeded /\ [Next]_vars
        => Rooted' /\ Heeded'
  BY RootedSteps, UpToDateSteps, AttendedSteps DEF Heeded
<1>3. Heeded => PresenceAgrees
  <2> SUFFICES ASSUME Heeded /\ Calm /\ notices = 0, \A j \in Jobs : job[j].at = "none",
                      \A c \in Clients : pc[c] \in {"new", "open", "done"},
                      \A c \in Clients :
                         IF At(c, "open") THEN conns[c] = "fresh"
                         ELSE conns[c] = "none" \/ (conns[c] = "stale" /\ Fresh # {})
               PROVE  Right
    BY DEF PresenceAgrees, Calm, Right
  <2>1. ~Underway /\ Attended
    BY DEF Underway, Heeded
  <2>2. CASE Fresh = {}
    <3>1. \A c \in Clients : pc[c] \in {"new", "done"} /\ conns[c] # "stale"
      BY <2>2 DEF At, Fresh
    <3>2. ~Awaited
      BY <3>1 DEF Awaited, At
    <3> QED BY <2>1, <2>2, <3>2 DEF Attended
  <2>3. CASE Fresh # {}
    <3>1. \A c \in Fresh : Up(c)
      BY DEF Fresh, At, Up
    <3> QED BY <2>1, <2>3, <3>1 DEF Attended
  <2> QED BY <2>2, <2>3
<1> QED BY <1>1, <1>2, <1>3, BooksHold, PTL DEF Spec
=============================================================================
