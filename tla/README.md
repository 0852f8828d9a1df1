# A verification of the omnichannel chat backend

TLA+ modules of the core of `chat-smsnet-omnichannel` (a Go service over
MongoDB, Redis and Asynq), TLC configurations that check them on small
instances, and TLAPS proofs. `PROJECT.json` maps every definition to the lines
it models, lists the runs, the hazards and the findings.

## 1. The system

Several API processes and worker processes share MongoDB (documents, updated one
at a time and as a whole) and Redis (locks, presence, pub/sub, the Asynq
queues). There are no transactions. What one request does is a sequence of
separate calls, and everything else may happen between two of them.

| Component | State | Operations | Talks to |
|---|---|---|---|
| Lock (`infra/redis/lock.go`) | one key per resource: token, TTL | Acquire (SET NX PX), release (compare and delete), expiry | routing, inbound, automation |
| Conversation (`domain/conversations`) | the document: status, sector, queue, assignee, closed_at, unread, ... | create, patch, send, note, close, reopen, mark read/unread, edit/delete message, receipts, close inactive | webhooks, SLA, CSAT, realtime, automation |
| Routing (`domain/routing`) | none of its own; conversation, loads, presence | Assign, AutoAssign, Transfer, Enqueue, Run | lock, conversation, presence, queue stats |
| Inbound (`domain/channels`) | `inbound_messages` ledger, protocol counter | Handle | lock, contacts, conversation, messages, webhooks, automation |
| Contacts (`domain/contacts`) | contact documents, channel identities | upsert from inbound, group upsert, CRUD | inbound |
| Webhooks (`domain/webhooks`, `infra/webhooks`) | subscriptions, deliveries, Asynq tasks | emit, deliver, retry, reschedule, dead-letter | everything that changes a conversation |
| SLA (`domain/sla`) | one tracking per conversation | start, first response, resolve, periodic check | conversation, webhooks |
| CSAT (`domain/csat`) | survey responses, tasks csat.send and csat.expire | trigger on close, send, expire, submit | conversation |
| Automation (`domain/automationrules`, `infra/automationrules`) | rules, claims and message budget in Redis, Asynq tasks | emit, match, claim, execute actions, retry | conversation, deals, routing, webhooks |
| Funnel (`domain/deals`, `domain/pipelines`) | deals with product lines, pipelines with stages | create, edit, move, win, lose, delete; stages added, changed, ordered, removed | automation |
| Realtime (`infra/realtime`, `presenter/websocket`) | slots per user, topic tables, send buffers, two goroutines per socket | register, upgrade, subscribe, deliver, resync, remove | all publishers, presence |
| Presence (`domain/presence`, `infra/presence`) | live sockets (ZSET with TTL), the agent's settings, cached effective status | connect, heartbeat, disconnect, grace timer, expire, set status | routing, realtime |
| Accounts (`domain/auth`, `domain/iam`) | users, refresh tokens, emailed links, invitations | login, refresh, logout, signup, verify, forgot, reset, invite, accept, user administration | idempotency |
| Idempotency (`presenter/middleware`) | stored answers per key | replay, run, store | every POST with a key |
| The rest | configuration documents, reports, copilot, MCP, storage | | not modelled, see section 7 |

What is hard here:

* **Interleaving without transactions.** Routing holds a lock per conversation,
  the inbound flow a lock per message id, the conversation service none, and all
  three store whole documents from copies. So do SLA, CSAT, deals, pipelines
  and users.
* **Locks with a TTL.** A holder may die (the lock must go away) or be slow (the
  lock goes away while it works).
* **Repetition.** The gateway repeats messages, webhooks are retried, Asynq puts
  tasks back on shutdown.
* **Partial failure.** Each of a dozen calls of Handle may fail; several errors
  are ignored on purpose.
* **Feedback.** An automation action causes the events that rules react to.
* **Derived state.** The inbox row repeats the last message and counts the
  unread ones; the cached status of an agent repeats what sockets and settings
  say; the clients of the feed repeat what is stored.

What makes each part correct:

* lock: only the token's owner frees it, and nobody waits for it;
* routing: decides on the current document, never takes a conversation away by
  automatic assignment, keeps agents within their capacity, and every operation
  and batch ends;
* inbound: what is answered 200 is stored, once, in one thread per sender, with
  unique protocol numbers, and every repeated message is answered in the end;
* webhooks: one task per delivery, exactly the allowed attempts, nothing after a
  success, every delivery settled;
* desk (conversation service, SLA, CSAT): the row shows the latest message and
  no fewer unread messages than came, alerts agree with the verdict, one survey is
  sent, an accepted answer stays, and a waiting survey has its task;
* automation: an action runs once per event, nothing the rules do makes rules
  run, the budget stops a flood and comes back;
* funnel: status, closing date and value of a deal agree, every deal is in a
  stage of its pipeline;
* realtime: an event that was due becomes known to the client or its connection
  ends; presence: the status follows sockets and settings;
* accounts: a link, an invitation, a refresh token and an idempotency key work
  once, and a reset ends the sessions from before it.

## 2. Modules

| Module | Models | Extends |
|---|---|---|
| `Locker` | `infra/redis/lock.go` as functions on a lock table | |
| `Conversation` | the document and what each operation writes into it | |
| `Routing` | `routing_service.go`, one action per step of `withLock` | `Conversation`, `Locker` |
| `RoutingProofs` | theorems about `Routing` | `Routing`, `TLAPS` |
| `MCRouting` | instance for TLC | `Routing` |
| `Inbound` | `inbound_service.go` and what Handle calls | `Conversation`, `Locker` |
| `InboundProofs` | theorems about `Inbound` | `Inbound`, `TLAPS` |
| `MCInbound` | instance for TLC | `Inbound` |
| `WebhookDelivery` | dispatcher, delivery service and Asynq tasks | |
| `WebhookProofs` | theorems about `WebhookDelivery` | `WebhookDelivery`, `TLAPS` |
| `MCWebhookDelivery` | instance for TLC | `WebhookDelivery` |
| `Sla` | the tracking and what each hook makes of a copy | |
| `Csat` | the response and what each task makes of a copy | |
| `Desk` | the conversation service composed with SLA and CSAT | `Conversation`, `Sla`, `Csat` |
| `DeskProofs` | theorems about `Desk` | `Desk`, `TLAPS` |
| `MCDesk` | instance for TLC | `Desk` |
| `Crm` | deals and pipelines, and the requests on them | |
| `Automation` | rule evaluation, composed with deals and the conversation | `Conversation`, `Crm` |
| `AutomationProofs` | theorems about the rules | `Automation`, `TLAPS` |
| `CrmProofs` | theorems about deals and pipelines, beside rules that move deals; the types of both | `AutomationProofs` |
| `MCAutomation` | instance for TLC | `Automation` |
| `Feed` | abstract: what clients of the realtime feed are promised | |
| `Sockets` | websocket handler, hub and presence; implements `Feed` | (instance of `Feed`) |
| `SocketsProofs` | theorems about `Sockets` and its refinement of `Feed` | `Sockets`, `TLAPS` |
| `MCSockets` | instance for TLC | `Sockets` |
| `Accounts` | auth, account and user services behind the idempotency middleware | |
| `MCAccounts` | instance for TLC | `Accounts` |
| `AccountsProofs` | theorems about requests, tokens and sessions | `Accounts`, `TLAPS` |

**Routing.** `conv` is the collection, `lock` the Redis keys, `online` the
agents whose presence record lets them receive. A worker is a request or job;
`pc` says which call it makes next: `acquire`, `reload`, `decide`, `write`,
`release`. `task` is the operation with its arguments, `doc` the copy reloaded
under the lock, `pick` the agent chosen. `Decide` is the callback of the
operation up to its store: `Accepts` holds the early returns of all four,
`Eligible`, `IsFirst` and `EvaluateAgent` the selection of an agent, `Load` the
count over *all* conversations. `Write` stores the whole document. `batch` is
Run without a conversation: list the queued conversations, route them one by
one, then the new ones. `Fail`, `AcquireError` and `Crash` may happen at every
call; `Expire` is the TTL. `lapsed` remembers whose lock expired under it.
The other services store the same documents without the routing lock: `LoadCopy`
and `Store` are a PATCH, a close, a reopening, a read mark, each action of the
automation rules, the inbound flow and the stores of a message. `Edited` says
what each makes of its copy (a `touch` stores fields routing does not look at,
over whatever stands there). A conversation may also be created with an
assignee. Two histories tell where such a store was: `undercut` has the
operations under which somebody without the lock stored the conversation after
they had reloaded it, `unchecked` the conversations that came to their agent
without a look at its limit. `Kinds` says what each worker may be asked to do.

**Inbound.** A worker is a request; each store it touches is a step: lock,
ledger, contact (find, create), conversation (find open, find last, reopen,
protocol number, create, route), message, conversation again, out-of-hours
notice (loads the conversation anew), ledger, release and answer. `doc` is the
copy it holds throughout. Editors are agents whose Close or reassignment loads
and stores the same document without a lock. `torn` remembers the messages of
which an attempt failed between storing the message and recording its id.

**WebhookDelivery.** `delivery` is the collection, `queue` the tasks waiting for
each delivery. A worker loads, checks the subscription and the rate limit, posts,
saves and enqueues the next attempt itself; `TaskFails` is an error that ends the
task or a dead process (`MaxRetry(0)`: nothing runs it again), `CutOff` a task
still running when the worker server's shutdown gives up waiting, which Asynq
puts back. `lost`, `cut`, `heard`, `again` and `posts` are history for the
properties; `posts` stops at one more than the limit.

**Desk.** One conversation (`conv`), its messages, tracking and responses, the
CSAT tasks and the clock. A worker is a request or job. `Plan` gives the calls
an operation makes after its first read, in the order of the code; each call is
an action (`StoreConv`, `CreateMsg`, `FindTrack`, ...). `run[w]` holds the
copies the worker loaded; `behind` says which of them somebody stored since.
`Fail` is a failed call or a dead process, `Ignore` a failed call whose error
the code drops (SLA hooks, the survey's hook, the enqueuing of its tasks).
`Retry` puts a csat task back until its retries are used up; then it stays
archived and nobody takes it. `FindSurvey` may find no survey. `spoiled`
collects the documents that were stored from a copy that was behind, or left
half done by a failure: the lost updates are real, and the properties say what
holds of every document they have not touched. Its member `queue` says that a
csat task could not be enqueued. `unseen`, `fired` and `answered` are history.

**Crm, Automation.** `req[u]` is the request a user has under way on deals or
pipelines. `overtaken` collects the pipelines on which two operations overlapped
(or that were deleted, which the code allows with deals in them). An evaluation
(`eval[w]`) has a set of rules to run, of which `FirstOf` is next, and goes through
the calls of `Evaluate`: match, hydrate again, claim, budget (INCR, EXPIRE), act.
It emits the events of its actions with their origin and depth. The lock of the
evaluation is left out because its answer is ignored (`evaluator.go:140`): it
orders nothing. `ClaimEnds` is the hour after which a claim is forgotten, and
`lapsed` the firings it happened to. `outage` says that Redis did not answer a
claim or the budget, which both fail open (what was asked may have been done);
`torn`, that an EXPIRE failed, or was not reached or not asked for after an INCR.

**Sockets, Feed.** One agent with its connections on one node. `pc[c]` is where
the handler of a connection is (reserving a slot, upgrading, joining rooms, the
presence calls, pumps, teardown), `pump[c]` its write pump; hub operations are
atomic under the mutex, every Redis call of presence is a step and may fail:
`CallFails` (the handler ignores the errors of Connect and Disconnect), `Lapse`
under a running pump (heartbeats that fail past the TTL), `MiscountsLive` (a prune
that fails). `job` are the recomputations of the status under way;
`RecomputeFails` ends one whose reads or store fail. A limit of 0 connections is
no limit. `Feed` has three variables and knows no
buffers: `Sockets` implements it with `on` mapped to the connections that hold
their slot, and `due` and `known` kept as history. `crossed` says that a
recomputation was overtaken by what it did not see, failed, or its cause got lost,
until one that nothing overtook stores the status.

**Accounts.** One person with one email address. `Steps` lists the database calls
of each handler; `req[w]` is a request with the calls left. `cache` are the
answers stored under idempotency keys, which `Forget` drops after their 24 hours.
A key is used in front of every POST; the middleware is mounted before the
authentication (`app/routes/http/router.go:52`), so that the tenant in its key
is always "anon", and the model has one table of keys. `muddled` collects the keys
and tokens two requests used at the same time, those whose request broke off half
way, and the keys whose lookup or store Redis did not answer, where the code goes on
as if there were no answer. `era` counts the resets of an account, which a
session inherits through its refreshes; `late` marks a session whose login or
refresh was under way during a reset, `unrevoked` an account whose reset did not
revoke: the call failed, which the code ignores (`Ignore`, the reset succeeds), or
was not reached.

Data is abstract: ids are model values, payloads, names, previews, timestamps and
timeline events are left out. Where a query picks "the most recently updated"
document the model may pick any that matches, since `updated_at` is set from the
gateway's timestamp.

## 3. Runs

| Run | Result | What it shows |
|---|---|---|
| `routing_lock` | pass | Operations may outlive the TTL, crash, lose a release or an answer, beside writers that ask for no lock: nobody's lock is deleted by another (`HolderKeepsLock`), operations and batches end (`OperationsEnd`, `BatchesEnd`). |
| `routing` | pass | `DecisionsFresh` and `NoDoubleAssignment` unless `undercut` or `lapsed`, and the conversations an agent has through routing exceed its limit by fewer than there are workers (`OvershootBounded`), not counting the `unchecked` ones. |
| `routing_capacity` | violation | `CapacityRespected` fails: two manual assignments of one agent to two conversations both take its last place. |
| `inbound` | pass | `AckedIsStored`, `StoredOnce` (unless torn), `LedgerPointsToMessage`, `ProtocolsUnique`, `OneNotice`. |
| `inbound_live` | pass | `EventuallyAcked`, through a failure or a crash that leaves the lock behind. |
| `inbound_thread` | violation | `OneThread` fails: two messages of one group make two open conversations of its contact. |
| `inbound_reopened` | violation | `ProtocolNotReopened` fails: the request that opened a conversation stores its copy as queued over an agent's Close. |
| `webhooks` | pass | `OneTask`, `AttemptsAreExact`, `AttemptPending`, `SilentAfterSuccess`, `Settles`. |
| `desk` | pass | The lock-free operations on one conversation, two at a time: `SnapshotCurrent`, `UnreadKept`, `AlertsAgree`, `OneSurvey`, `AnswerKept`, each of documents that are not `spoiled`; `SurveyMovesOn` unless a task could not be enqueued, archived tasks counting as tasks. |
| `automation` | pass | `FiredOnce` over retries and crashes until the claim runs out, `NoFeedback`, `BudgetHolds` (the window comes back unless `torn`), and of the deals that rules and users move: `DealSound` without exception, `StagesKept` unless `overtaken`. |
| `sockets` | pass | `FeedSpec`: hub, pumps and handler implement `Feed`, liveness included; `PresenceAgrees` after failed presence calls too, unless `crossed`. |
| `accounts` | pass | `DoneOnce` unless `muddled`; `SessionsEnd` except sessions that were `late` and accounts left `unrevoked`. |

The three violations are disagreements between the code and its own comments and
docs; `PROJECT.json` quotes them under `findings`.

**Bounds.** Two workers are enough for every race of two operations, which is
what the locks are about. Routing has one conversation where the question is
about its lock and three (two for the violation) where it is about an agent's
load: with a limit of 1 and two workers the load must be able to reach 3 for
`OvershootBounded` to fail. Its `Kinds` differ: in `routing` both workers assign
by hand and automatically, beside a rule that assigns an agent and a store that
changes nothing routing sees (1.55 million states); in `routing_capacity` they
only assign by hand; in `routing_lock` one runs batches while the other transfers,
enqueues, patches, resolves and receives messages (`MaxUnread` = 0 stops the
counter, which nothing there reads). Inbound has two messages of one customer over a
connection with and one without protocol numbers; `MaxContacts` and `MaxConvs`
are what two workers and a failure can create, so that `CreateContact` and
`CreateConversation` are never blocked (deadlock is checked, and a blocked worker
would show as one in `inbound_live`); `MaxFaults` = 1 failure or crash, at any
point. Webhooks have one delivery at a time (deliveries share nothing but the
workers), `MaxAttempts` = 2, so that first, middle and last attempt differ, and
`MaxShutdowns` = 1. Workers are interchangeable and the runs without liveness
use that symmetry.

The four runs over many operations choose a *workload* in their initial state: a
set of operations that meet on one document, with its own bounds on messages,
clock, requests and failures. A workload holds the operations whose effects one
property relates; all of them in one behaviour would be out of TLC's reach.
`desk` has eleven (messages by arrival and by timestamp, one message, the row,
closing and reopening, the tracking against sends, closes and patches, the
survey); its `MaxRetry` is 1 instead of the 5 of `infra/csat/enqueuer.go:42`, so
that one failure and one missing survey archive a task. `automation` has twelve:
rules alone (budget, a claim that runs out, rules that trigger rules, rules
switched off under a task), rules beside users, users alone; one claim may run
out (`maxLapses`); `BudgetMax` is 2 instead of 100, so that three messages reach
the limit, `MaxDepth` and `MaxRetry` are the code's, and three stages let one be
removed while another still ends deals. `sockets` has a buffer of one event, so
that the second one overflows it, two connections against a limit of two, of one
and none, and five workloads of hub, presence and both. `accounts` has six
workloads of three or four requests, two at a time, with room for every token
and account they can create (`MaxTokens`, `MaxAccounts`). The other bounds are
asked where an operation starts, so that none stops half way.

**Fairness.** A started request or task makes its next call unless it crashes
(weak fairness of `Step`): calls have timeouts. Redis drops expired keys (weak
fairness of `Expire`). The gateway repeats a message until it is answered
(strong fairness of `Deliver` while unanswered: a worker is free again and
again, not at every moment); that is the gateway's contract, not the code's. In
`WebhookDelivery` the queue is first in, first out, hence strong fairness of
`Take` per delivery, and a delivery is not over its rate limit for ever (strong
fairness of `Allowed`: the limit is per minute, tries are 30 s apart). Requests,
failures, crashes, presence changes and configuration get none. In `Sockets` the
pumps are goroutines that run (weak fairness of writing a message and of writing
a resync), a read deadline passes (pongWait), and the presence calls before the
pumps start run under a context of 10 s. Peers, publishers and everything else
get none.
`CHECK_DEADLOCK FALSE` in `webhooks`, `desk`, `automation`, `sockets` and
`accounts`: with the requests, events and connections of their bounds used up,
these systems have nothing to do.

## 4. Proofs

Every theorem holds for any number of workers, documents, messages, connections,
rules and failures, from the assumptions the modules name: `EntityAssumption` (a
queue's sector exists, the empty id is no id), and per module the types of its
tables and bounds (`RoutingAssumption`, `InboundAssumption`,
`WebhookAssumption`, `SocketsAssumption`, `AutomationAssumption`,
`CrmAssumption`, `AccountsAssumption`, `DeskAssumption`, `SlaAssumption`), that
the marks of a deleted document and of no document are none (`GoneAssumption`,
`NoneAssumption`), that there are finitely many conversations and workers
(`FinitenessAssumption`), and that the database a behaviour of `Accounts` starts
from is one the program can have (`WorkloadAssumption`: references name
documents, one user of the email per tenant, at most tenant, at most one that
signed up). TLC evaluates all of them. One theorem, `MessagesAreStoredOnce`,
needs an assumption more, `Outlive = FALSE`: requests end within the TTL.
Without it the code does what it excludes.

The proofs follow one pattern. A property says what a reader wants to know and is
seldom inductive; what is missing is what the *workers* know in the middle of
their calls. Each invariant below states that, per place a worker can be at. For
the modules with many small steps, a lemma first sums up what any step does
(`Turn`, `Spend`, `Follow`, `Grow`, `Spares`, `Beside`), and the invariants are
proved from the summary.

**Routing** (`RoutingProofs`): `TypeCorrect`, `LockIsKept`, `DecisionsAreFresh`,
`NoDoubleAssignments` and `OvershootIsBounded`, whether or not operations outlive
the TTL. `HolderKeepsLock` with `TypeOK` is inductive: only Release, which compares
the token, and Expire, which puts the holder into `lapsed`, free a key. By
`MutualExclusion` two workers that have their locks are never inside that of one
conversation; what stores a conversation under such a worker is then a writer
without the lock or a lapsed operation, and both mark it `undercut`
(`ChangesAreMarked`). `Current` adds that an automatic assignment at `write` was
decided on an unassigned copy.

`OvershootBounded` alone is not inductive: what counts is who has already decided.
By `PlacesBounded` the counted conversations of an agent that are not `unchecked`
plus the workers about to store one for it stay below its limit plus the workers.
A decision adds one to the second number only when the load was below the limit,
and then the second is at most the workers; a store of routing moves one from the
second to the first, a store that gives the agent a conversation without asking
puts it among the unchecked.

**Inbound** (`InboundProofs`): `TypeCorrect` needs `Linked` (a conversation's two
halves exist together, and what a worker holds exists).

* `AcksAreStored` and `LedgerIsTrue` from `Kept`: past StoreMessage a worker's
  message is stored where the worker says, and `ok` is set only when the message
  is stored or dropped. No assumption about the TTL: a slow request may store
  twice, but never answers for nothing.
* `ProtocolNumbersAreUnique` from `Numbered`: a number drawn and not yet stored is
  nobody else's, so that a failure in between leaves a gap and nothing more.
* `NoticesAreSentOnce` from `Noticed`: a conversation has at most one worker that
  created it (`Greeter`), and until that one has sent the notice there is none.
* `MessagesAreStoredOnce`, with `~Outlive`: by `Locked` one worker at a time
  handles a message; by `Once` an untorn message is nowhere, or once, put there by
  the worker that has yet to record it, or once, where the ledger says.

**Webhooks** (`WebhookProofs`): `TypeCorrect`, from `Sane` and `Born`.

* `TasksAreSingle` from `Counted`: the set of workers on a delivery is finite and
  changes by one, so that the sum of queued and running tasks can be followed.
* `AttemptsArePending` from `Served`: who takes a task away puts one back,
  settles the record or is counted as lost.
* `AttemptsAreCounted` and `SuccessIsFinal` from `Tracked`: for a delivery no
  shutdown disturbed, the requests sent equal the attempts known at the place
  where its one task is (`OnTrack`), in the queue those in the record.

**Desk** (`DeskProofs`). `DeskInvariant` is the ground: by `DeskOK` every worker
is somewhere in the plan of its operation (`Left`), has loaded what that place
needs (`Shape`), and a copy that is not `behind` differs from its document by
the operation's own change and nothing else (`ConvFresh`, `MsgFresh`,
`RespFresh`, `TrackFresh`). `TypeCorrect`, `UnreadIsKept` and `AnswersAreKept`
follow from it: a store that is not of an old copy applies one known change to
what is there. The others say something about several workers:

* `OneSurveySent` from `OneHolder`: one task or worker at a time has the survey,
  and none was sent while it is still to be sent; a task that comes back after the
  survey was sent finds nothing to do.
* `SurveysMoveOn` from `Moving`: before the survey went out somebody will send it,
  after that somebody will expire it, whatever failed and whoever stored the
  response, as long as every task was queued; a task out of retries stays where it
  is, archived.
* `AlertsDoAgree` from `AlertsInv`. In the middle of a check the property fails: an
  alert can be out and its flag not stored. Either the flag of every alert is
  stored or about to be (`Said`), or some check is bound to store an old copy
  (`AlertsDoomed`): two of them are between alert and store, or a hook came in
  between. Once bound to, it does, and the tracking is spoiled, or it fails or
  goes on without, and the tracking is spoiled as well.
* `SnapshotIsCurrent` from `SnapInv`, of the same form: the row is right, or the
  worker that stored a message has the right row in hand, or some worker is bound
  to spoil it (`RowDoomed`). That a message is the latest by its timestamp whenever
  one is left takes the least element of a set of numbers (`LeastNatural`).

**Sockets** (`SocketsProofs`): `TypeCorrect` from `Books` (slots are counted
through register, failed upgrade and removal, with a limit or without).

* `ImplementsFeed`: the initial states are initial states of `Feed` and every step
  is one of its steps or a stutter, under the mapping of the run. `Ledger` (a
  buffer holds only what is due, a client knows only what was due) makes the
  writing of a buffered message a step of `Feed`.
* `PresenceIsRight` from `Rooted` and `Heeded`: while nothing crossed, a
  connection whose pump runs is listed, a recomputation not overtaken has read
  what is there, and the status is right or something that will have it recomputed
  is under way: a job, a notice, a key that expires, a handler on its way
  (`Awaited`). The attempt to prove an earlier form of `PresenceAgrees`, which
  passed with two connections, failed on the race of `handler.go:338` described in
  section 5; `crossed` now names it.

**Automation** (`AutomationProofs`): `RulesAreNotFed` from `Traced` (an event
that no action caused has an outside cause, and so have the evaluations of it);
`ActionsRunOnce` from `Once` (until its claim runs out, the rule a worker is at
was claimed by nobody else, and the actions that ran are those before the one at
hand); `BudgetIsKept` from `Fused` (at most one worker owes the expiry of a
count, unless it was lost) and `Spared` (messages sent in the window, plus
permissions not used yet, are at most what was counted and allowed).

**Funnel** (`CrmProofs`, over the composed specification of rules and users):

* `DealsAreSound` from `Filed`: the copies that requests and evaluations hold are
  themselves sound, so that storing an old one, which the code does, still leaves
  a sound document.
* `CardsStayInColumns` from `Placed`: a request on a pipeline that was not
  overtaken relies on columns that are there (`Relies`) and takes away none that a
  card is in; `Spares` says that a step outside a pipeline leaves it alone.
* `TypeCorrect`, the type invariant of rules and funnel together, from `Filed` and
  `Proper` (a copy about to be stored is a document, a retried task was made, an
  evaluation that goes on has a rule left). `SumIsNumber` is the one induction over
  data: `RecalcValue` gives a number whatever the lines. The library's induction
  theorems cannot be used, so the least number of lines for which it did not is
  led to a contradiction, by extending and restricting the function that the fold
  unfolds to (`SumStep`).

**Accounts** (`AccountsProofs`). The calls a handler can have left (`Todos`) tell
what its request has done, so the proofs first tabulate them and then say per
call what it does (`Marks`, `Stores`, `Issues` and so on).

* `TypeCorrect` from `Typed`: a request that got as far as reading an account or a
  token names one that is there, and a copy to be stored is not of a deleted user.
* `OnceOnly` from three invariants, each inductive with `Typed`. `KeysOnce`:
  under a key that is not `muddled` there is one request under way or a stored
  answer, never both, and when the answer is forgotten the count of its runs
  starts anew. `EmailOnce`: at most one signup goes on from having found no
  user, and none once a user signed up. `TokensOnce`: one request is to mark a
  token and one is to use it; until then it has no use, and after its use it is
  marked or that request is still to mark it.
* `ResetsEndSessions` from `Eras`: for an account that no reset is changing, or
  did not revoke the sessions of, every session that is not late and every
  request about to issue one is of the era of the account. Requests are in it
  because a refresh carries the era of its token over a reset.

**Only model-checked.** Liveness under fairness is out of the prover's reach:
`OperationsEnd`, `BatchesEnd`, `EventuallyAcked`, `Settles`, and the liveness half
of `FeedSpec`. Every invariant that a passing run checks has a theorem. The three
violations are
counterexamples of small instances and need no proof.

## 5. Findings

1. Capacity is not enforced across conversations (`routing_capacity`): two
   assignments of one agent to two conversations each count the load before the
   other is stored (`routing_service.go:440`).
2. A group, or a customer, can end with two open conversations
   (`inbound_thread`): two messages look for a conversation of the contact before
   either creates one. Its contact is found or created in the same way.
3. The request that opens a protocol conversation can reopen it right after an
   agent closed it (`inbound_reopened`): `routeNew` (`inbound_service.go:709`)
   stores the copy that created the conversation. The update after each message
   (line 624) stores an older copy in the same way.

What the properties exclude, and say so, because the code does it:

* routing's lock protects a conversation from routing only. A PATCH
  (`conversation_service.go:422`), an action of a rule (`automation_actions.go:52`),
  a close, a message or the inbound flow that stores the conversation after a
  routing operation reloaded it is overwritten (`undercut`), an agent it assigned
  included; and a conversation that a creation with an assignee, a PATCH, a rule
  or a reopening gives an agent is checked against no limit (`unchecked`);
* a routing operation that outlives its TTL stores over what was decided since
  (`lapsed` in `Routing`);
* a message whose attempt fails between storing it and recording its id is stored
  again by the repetition (`torn` in `Inbound`);
* two webhook tasks for one delivery, which a shutdown can leave behind, may take
  back each other's count of attempts for ever (`Undisturbed`);
* no operation of the conversation, SLA or CSAT service is protected against
  another that stores the same document meanwhile (`spoiled`): MarkRead can hide
  a message that arrived, CloseInactive can close a conversation that became
  active, the SLA check can undo a recorded response, the expiry of a survey can
  overwrite its answer, a receipt can undo an edit, and two receipts at once can
  take a delivery status back, which `message.go:352` (never regress) and
  `conversation_service.go:1166` (order-tolerant) rule out;
* a survey whose task cannot be enqueued waits for ever (`queue` in `spoiled`), and
  so does one whose task has used up its five retries (`infra/csat/enqueuer.go:42`),
  which `SurveyMovesOn` counts as a task;
* a deal moved into a stage while the stage is removed is left in none
  (`overtaken`), and deleting a whole pipeline never asks for its deals;
* with Redis down a rule can run twice and the budget lets everything through
  (`outage`, the comments say so); a claim is forgotten after an hour, and a retry
  that comes later runs the actions again (`lapsed` in `Automation`,
  `deduper.go:14`); a worker that dies between INCR and EXPIRE, an EXPIRE that
  fails and is ignored (`budget.go:44`) and an INCR whose answer is lost leave a
  budget that never comes back (`torn`); evaluations of one conversation overlap,
  since the answer of their lock is ignored (`evaluator.go:140`), and no property
  says that they do not harm each other;
* two requests that use one refresh token, reset link, invitation or idempotency
  key at the same time both succeed, and two signups at once create two accounts
  of one email (`muddled`): the unique index is per tenant
  (`migrations/0001`); a repetition under an idempotency key whose lookup fails
  (`idempotency.go:81`), or whose first answer Redis did not store, runs again;
* a login or refresh that overlaps a reset leaves a session that the reset does
  not end (`late`), and a reset whose `RevokeAllForUser` fails succeeds and ends no
  session (`unrevoked`, `account_service.go:303`), though lines 265 and 302 say
  that it invalidates them;
* the cached status of an agent stays wrong (`crossed`) after: a Disconnect
  whose DEL meets a new connection (`store.go:120`); a connection whose upgrade
  fails after its slot kept another's grace timer from starting
  (`handler.go:170`); a node that dies after removing the last socket and before
  storing the status; a recomputation one of whose reads, or whose store, fails,
  which is ignored (`presence_service.go:94`); a lost keyspace notification; a
  count taken of sockets that lapse before the store; a recomputation stored
  after a later one; a reconnection while the only socket listed is one that was
  closed and that its write pump, on its last heartbeat, listed again
  (`handler.go:338`): the new socket is not counted as the first, nothing is
  recomputed, and the agent stays offline though connected. The last one came
  out of the proof of `PresenceIsRight`; with two connections, as in the run, it
  does not happen.

Observed while modelling and covered by no property: ChangePassword and an
administrator's password update end no sessions; a stale store of a user can
bring back an old password or undo a disabling; a signup that fails half way
leaves its tenant; the idempotency key includes neither the endpoint nor the tenant
(its comment at line 33 says it does the tenant), so that one tenant's key meets
another's stored answer; conversations
the inbound flow creates get no SLA tracking; a PATCH to resolved and the
automation's resolve call neither SLA nor CSAT; two requests can leave two
default pipelines; changing how a stage ends does not revisit its deals.

## 6. Plan

The modules of the plan are written, and every invariant the runs check is proved.
What could follow is to compose what section 7 leaves apart: the events a store
emits (`Desk`, `Automation`) with their delivery (`WebhookDelivery`, `Sockets`).

## 7. Not modelled

* Configuration: queues, channels and connections, sectors, groups, roles,
  policies, tenants, custom attributes, SLA policies, CSAT surveys. One document
  per request, whose values are constants of the modules.
* Tasks, timeline, products and settings of the CRM: records beside a deal that
  no operation on deals reads back.
* Reports, search, audit, privacy exports, maintenance: read-side queries and
  bulk jobs whose results nothing modelled reads back.
* Copilot, MCP and provider hub: external services with unconstrained answers.
  Storage, e-mail, media, secrets: I/O and cryptography. HTTP presentation,
  OpenAPI tables, seeds and wiring: decoding, encoding and construction.
* Business hours are a function of the clock; its answer is a free choice in
  `Inbound` and the due instants are constants of `Sla`.
* Events and webhooks emitted after a store are not composed with
  `WebhookDelivery` and `Sockets`, which take occurrences as given. Permission
  checks are left out where they only refuse a request.

These parts are most of the repository's lines. They hold little state of their
own and no protocol between two steps; a model of them would restate assignments.
