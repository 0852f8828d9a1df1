----------------------------- MODULE Automation -----------------------------
(***************************************************************************)
(* Automation rules (domain/automationrules, infra/automationrules): the     *)
(* task automationrule.evaluate of a conversation event matches the          *)
(* tenant's rules against the conversation and runs their actions: messages, *)
(* changes of the conversation (conversations/service/automation_actions.go),*)
(* webhooks, and moves of the deals of module Crm, beside the users who work *)
(* on the same conversation, deals and pipelines.                            *)
(*                                                                          *)
(* The guards against a rule feeding itself are modelled as the code has     *)
(* them: the origin and depth an event carries, the claim of a firing        *)
(* before its actions, and the message budget of a conversation.  The lock   *)
(* of the evaluation is not: its answer is ignored, so it orders nothing.    *)
(***************************************************************************)
EXTENDS Conversation, Crm

CONSTANTS Workers,       \* asynq workers, which also change deals
          RuleBook,      \* the rules a tenant may have, by number
          Workloads,     \* rules, user requests and bounds of a behaviour
          BudgetMax,     \* budgetMax, 100 in the code
          MaxDepth,      \* maxDepth
          MaxRetry       \* retries of a task

ASSUME AutomationAssumption ==
    /\ Workers \subseteq Users
    /\ \A l \in Workloads : l.rules \subseteq DOMAIN RuleBook
    /\ BudgetMax \in Nat /\ MaxDepth \in Nat /\ MaxRetry \in Nat

VARIABLES conv,       \* the conversation
          tasks,      \* automationrule.evaluate tasks in the queue
          events,     \* event ids given so far
          enabled,    \* the rules that are enabled
          claims,     \* rule:fired keys
          budget,     \* the autom:budget key: its count and whether it expires
          eval,       \* the evaluation each worker runs
          load,       \* the workload
          faults,
          outside,    \* events that people, customers and integrations caused
          ran,        \* actions run: event, rule, position
          twice,      \* an action ran again for an event whose claim had not run out
          lapsed,     \* firings whose claim ran out
          counted,    \* messages sent on a permission of the current window
          outage,     \* Redis did not answer a claim or the budget
          torn        \* a budget key was left without its expiry

rules == <<tasks, events, enabled, claims, budget, eval, load, faults>>
ghosts == <<outside, ran, twice, lapsed, counted, outage, torn>>
vars == <<crm, conv, rules, ghosts>>

Messaging == {"send_message", "send_attachment", "send_interactive"}

Idle == [at |-> "idle", task |-> None, rules |-> {}, k |-> 0, copy |-> None,
         deals |-> <<>>, late |-> FALSE]

Init ==
    /\ CrmInit
    /\ conv = [status |-> "new", agent |-> None, sector |-> None, queue |-> None,
               closedAt |-> FALSE, priority |-> "normal", tags |-> {}]
    /\ tasks = {} /\ events = 0 /\ claims = {} /\ faults = 0
    /\ load \in Workloads
    /\ enabled = load.rules
    /\ budget = [n |-> 0, expires |-> FALSE]
    /\ eval = [w \in Workers |-> Idle]
    /\ outside = {} /\ ran = {} /\ twice = FALSE /\ lapsed = {}
    /\ counted = 0 /\ outage = FALSE /\ torn = FALSE

-----------------------------------------------------------------------------
(* Events and rules.                                                         *)

\* Mutation of Event: an event of an automation action is not tagged with it.
EventUntagged(id, name, reply, origin, depth) ==
    [id |-> id, name |-> name, reply |-> reply, origin |-> "external", depth |-> depth, tries |-> 0]

\* EmitRuleEvent: a fresh id, and origin and depth from the context.
Event(id, name, reply, origin, depth) ==
    [id |-> id, name |-> name, reply |-> reply, origin |-> origin, depth |-> depth, tries |-> 0]

\* RuleEventForInternal and applicableRuleEvents: an interactive reply is also
\* a message.
RuleEvents(t) ==
    CASE t.name = "message.created" ->
           {"message_created"} \cup IF t.reply THEN {"interactive_reply_received"} ELSE {}
      [] t.name = "conversation.created" -> {"conversation_created"}
      [] t.name = "conversation.resolved" -> {"conversation_resolved"}
      [] t.name = "conversation.updated" -> {"conversation_updated"}
      [] t.name = "conversation.closed" -> {"conversation_closed"}
      [] t.name = "conversation.reopened" -> {"conversation_opened"}
      [] OTHER -> {}

\* Matches: every condition holds; the tags are a list, other fields scalars.
Matches(r, c) ==
    \A cond \in RuleBook[r].conds :
        cond.holds = IF cond.field = "tags" THEN cond.value \in c.tags
                     ELSE c[cond.field] = cond.value

\* The rule that runs first: by priority, then creation, which the rule's number
\* stands for.
FirstOf(rs) ==
    CHOOSE a \in rs : \A b \in rs \ {a} :
        \/ RuleBook[a].priority < RuleBook[b].priority
        \/ RuleBook[a].priority = RuleBook[b].priority /\ a < b

\* What somebody does to the conversation outside the rules.
Happens(name, reply, c) ==
    /\ Cardinality(outside) < load.maxEvents
    /\ conv' = c
    /\ events' = events + 1
    /\ outside' = outside \cup {events + 1}
    /\ tasks' = tasks \cup {Event(events + 1, name, reply, "external", 0)}
    /\ UNCHANGED <<crm, enabled, claims, budget, eval, load, faults, ran, twice, lapsed,
                   counted, outage, torn>>

MessageArrives == \E reply \in BOOLEAN : Happens("message.created", reply, conv)

AgentCloses == ~IsClosed(conv) /\ Happens("conversation.closed", FALSE, Closed(conv))

\* Update to resolved leaves closed_at alone.
AgentResolves ==
    ~IsClosed(conv) /\ Happens("conversation.resolved", FALSE, [conv EXCEPT !.status = "resolved"])

AgentReopens == IsClosed(conv) /\ Happens("conversation.reopened", FALSE, Reopened(conv))

\* RuleService: a rule is created, enabled, disabled or deleted.
ManageRule ==
    /\ load.manage
    /\ \E r \in load.rules : enabled' = IF r \in enabled THEN enabled \ {r} ELSE enabled \cup {r}
    /\ UNCHANGED <<crm, conv, tasks, events, claims, budget, eval, load, faults, ghosts>>

-----------------------------------------------------------------------------
(* Evaluate.                                                                 *)

At(w, step) == eval[w].at = step
To(w, e) == eval' = [eval EXCEPT ![w] = e]
Run(w, step) == To(w, [eval[w] EXCEPT !.at = step])

\* Mutation of NextRule: the loop does not stop after the last rule.
NextRuleBeyond(e) ==
    [Idle EXCEPT !.at = "rule", !.task = e.task, !.rules = e.rules \ {FirstOf(e.rules)}]

\* The next rule, and the next action of the rule at hand.
NextRule(e) ==
    LET rest == e.rules \ {FirstOf(e.rules)}
    IN  IF rest = {} THEN Idle
        ELSE [Idle EXCEPT !.at = "rule", !.task = e.task, !.rules = rest]

NextAction(e) ==
    IF e.k = Len(RuleBook[FirstOf(e.rules)].actions) THEN NextRule(e)
    ELSE [Idle EXCEPT !.at = "act", !.task = e.task, !.rules = e.rules, !.k = e.k + 1]

\* Events of an automation action, chains that are too long and events no
\* enabled rule reacts to are dropped.
Take(w) ==
    \E t \in tasks :
        LET rs == {r \in enabled : RuleBook[r].event \in RuleEvents(t)}
        IN  /\ At(w, "idle")
            /\ tasks' = tasks \ {t}
            /\ To(w, IF t.origin = "automation" \/ t.depth > MaxDepth \/ rs = {} THEN Idle
                     ELSE [Idle EXCEPT !.at = "hydrate", !.task = t, !.rules = rs])
            /\ UNCHANGED <<crm, conv, events, enabled, claims, budget, load, faults, ghosts>>

\* hydrate, twice: when the event is taken up and before the actions run.
Hydrate(w, step, next) ==
    /\ At(w, step)
    /\ LET rs == {r \in eval[w].rules : Matches(r, conv)}
       IN  To(w, IF rs = {} THEN Idle ELSE [eval[w] EXCEPT !.at = next, !.rules = rs])
    /\ UNCHANGED <<crm, conv, tasks, events, enabled, claims, budget, load, faults, ghosts>>

FirstHydrate(w) == Hydrate(w, "hydrate", "rehydrate")
Rehydrate(w) == Hydrate(w, "rehydrate", "rule")

Firing(w) == <<FirstOf(eval[w].rules), eval[w].task.id>>

\* Mutation of Claim: the key is not set.
ClaimNothing(w) ==
    /\ At(w, "rule")
    /\ To(w, IF Firing(w) \in claims THEN NextRule(eval[w])
             ELSE [eval[w] EXCEPT !.at = "act", !.k = 1])
    /\ UNCHANGED <<crm, conv, tasks, events, enabled, claims, budget, load, faults, ghosts>>

\* Deduper.Allow: SETNX of the firing.
Claim(w) ==
    /\ At(w, "rule")
    /\ claims' = claims \cup {Firing(w)}
    /\ To(w, IF Firing(w) \in claims THEN NextRule(eval[w])
             ELSE [eval[w] EXCEPT !.at = "act", !.k = 1])
    /\ UNCHANGED <<crm, conv, tasks, events, enabled, budget, load, faults, ghosts>>

\* dedupWindow, an hour, is over: "the window only needs to outlive the task's
\* retry horizon", which it does not when the workers are away for longer.
ClaimEnds ==
    /\ Cardinality(lapsed) < load.maxLapses
    /\ \E f \in claims : claims' = claims \ {f} /\ lapsed' = lapsed \cup {f}
    /\ UNCHANGED <<crm, conv, tasks, events, enabled, budget, eval, load, faults,
                   outside, ran, twice, counted, outage, torn>>

\* Redis does not answer, whether it did what it was asked or not: the claim and
\* the budget are granted, and a count that starts so gets no expiry.
RedisDown(w) ==
    /\ faults < load.maxFaults
    /\ faults' = faults + 1
    /\ outage' = TRUE
    /\ \/ /\ At(w, "rule") /\ To(w, [eval[w] EXCEPT !.at = "act", !.k = 1])
          /\ claims' \in {claims, claims \cup {Firing(w)}}
          /\ UNCHANGED <<budget, torn>>
       \/ /\ At(w, "incr") /\ Run(w, "load")
          /\ \/ UNCHANGED <<budget, torn>>
             \/ budget' = [budget EXCEPT !.n = @ + 1] /\ torn' = (torn \/ budget.n = 0)
          /\ UNCHANGED claims
    /\ UNCHANGED <<crm, conv, tasks, events, enabled, load, outside, ran, twice, lapsed, counted>>

Action(w) == RuleBook[FirstOf(eval[w].rules)].actions[eval[w].k]

\* Executor.Run: which call comes first.
Act(w) ==
    LET a == Action(w)
        job == <<Firing(w), eval[w].k>>
    IN  /\ At(w, "act")
        /\ ran' = ran \cup {job}
        /\ twice' = (twice \/ (job \in ran /\ Firing(w) \notin lapsed))
        /\ To(w, IF a.type = "send_webhook" THEN NextAction(eval[w])
                 ELSE [eval[w] EXCEPT !.at = IF a.type \in Messaging THEN "incr"
                                             ELSE IF a.type = "move_deal_stage" THEN "deals"
                                             ELSE "load"])
        /\ UNCHANGED <<crm, conv, tasks, events, enabled, claims, budget, load, faults,
                       outside, lapsed, counted, outage, torn>>

\* Mutation of Incr: the check compares the count before the increment.
IncrAfter(w) ==
    LET n == budget.n + 1
    IN  /\ At(w, "incr")
        /\ budget' = [budget EXCEPT !.n = n]
        /\ To(w, IF n = 1 THEN [eval[w] EXCEPT !.at = "expire"]
                 ELSE IF budget.n <= BudgetMax THEN [eval[w] EXCEPT !.at = "load"]
                 ELSE NextAction(eval[w]))
        /\ UNCHANGED <<crm, conv, tasks, events, enabled, claims, load, faults, ghosts>>

\* AllowAutomationMessage: INCR, and EXPIRE on the first of a window.
Incr(w) ==
    LET n == budget.n + 1
    IN  /\ At(w, "incr")
        /\ budget' = [budget EXCEPT !.n = n]
        /\ To(w, IF n = 1 THEN [eval[w] EXCEPT !.at = "expire"]
                 ELSE IF n <= BudgetMax THEN [eval[w] EXCEPT !.at = "load"]
                 ELSE NextAction(eval[w]))
        /\ UNCHANGED <<crm, conv, tasks, events, enabled, claims, load, faults, ghosts>>

\* The error of EXPIRE is ignored.
Expire(w) ==
    /\ At(w, "expire")
    /\ \/ budget' = [budget EXCEPT !.expires = TRUE] /\ UNCHANGED <<faults, torn>>
       \/ /\ faults < load.maxFaults /\ faults' = faults + 1
          /\ torn' = TRUE /\ UNCHANGED budget
    /\ IF BudgetMax = 0 THEN To(w, NextAction(eval[w])) ELSE Run(w, "load")
    /\ UNCHANGED <<crm, conv, tasks, events, enabled, claims, load,
                   outside, ran, twice, lapsed, counted, outage>>

\* The window is over: the key expires.
WindowEnds ==
    /\ budget.expires
    /\ budget' = [n |-> 0, expires |-> FALSE]
    /\ counted' = 0
    /\ eval' = [w \in Workers |->
                  IF eval[w].at \in {"load", "create"} /\ Action(w).type \in Messaging
                  THEN [eval[w] EXCEPT !.late = TRUE] ELSE eval[w]]
    /\ UNCHANGED <<crm, conv, tasks, events, enabled, claims, load, faults,
                   outside, ran, twice, lapsed, outage, torn>>

-----------------------------------------------------------------------------
(* Actions on the conversation.                                              *)

\* automationMutate: the document an action makes of c and the event it
\* reports, or None when it changes nothing, what it refers to is missing or
\* no such action is supported.
Mutated(a, c) ==
    CASE a.type = "assign_agent" ->
           [event |-> IF a.arg \in Agents THEN "conversation.assigned" ELSE None,
            conv |-> [c EXCEPT !.agent = a.arg, !.status = "assigned"]]
      [] a.type = "assign_team" ->
           [event |-> IF a.arg \in Sectors THEN "conversation.updated" ELSE None,
            conv |-> [c EXCEPT !.sector = a.arg, !.status = IF c.agent = None THEN "queued" ELSE @]]
      [] a.type = "remove_assigned_agent" ->
           [event |-> "conversation.updated",
            conv |-> [c EXCEPT !.agent = None, !.status = IF c.sector # None THEN "queued" ELSE @]]
      [] a.type = "remove_assigned_team" ->
           [event |-> "conversation.updated", conv |-> [c EXCEPT !.sector = None]]
      [] a.type = "add_tag" ->
           [event |-> IF a.arg \in c.tags THEN None ELSE "conversation.updated",
            conv |-> [c EXCEPT !.tags = @ \cup {a.arg}]]
      [] a.type = "remove_tag" ->
           [event |-> IF a.arg \in c.tags THEN "conversation.updated" ELSE None,
            conv |-> [c EXCEPT !.tags = @ \ {a.arg}]]
      [] a.type = "change_priority" ->
           [event |-> "conversation.updated", conv |-> [c EXCEPT !.priority = a.arg]]
      [] a.type = "resolve_conversation" ->
           [event |-> IF IsClosed(c) THEN None ELSE "conversation.closed",
            conv |-> [c EXCEPT !.status = "resolved", !.closedAt = TRUE]]
      [] a.type = "open_conversation" ->
           [event |-> IF IsClosed(c) THEN "conversation.reopened" ELSE None,
            conv |-> [c EXCEPT !.status = IF c.agent # None THEN "assigned"
                                          ELSE IF c.sector # None THEN "queued" ELSE "new",
                               !.closedAt = FALSE]]
      [] a.type = "mark_pending" ->
           [event |-> IF c.status = "queued" THEN None ELSE "conversation.updated",
            conv |-> [c EXCEPT !.status = "queued"]]
      [] a.type \in Messaging -> [event |-> "message.created", conv |-> c]
      [] OTHER -> [event |-> None, conv |-> c]

\* The conversation is loaded; a message is created before the conversation
\* that shows it is stored.
Load(w) ==
    LET m == Mutated(Action(w), conv)
    IN  /\ At(w, "load")
        /\ To(w, IF m.event = None THEN NextAction(eval[w])
                 ELSE [eval[w] EXCEPT !.copy = m,
                         !.at = IF m.event = "message.created" THEN "create" ELSE "store"])
        /\ UNCHANGED <<crm, conv, tasks, events, enabled, claims, budget, load, faults, ghosts>>

Create(w) ==
    /\ At(w, "create")
    /\ counted' = IF eval[w].late THEN counted ELSE counted + 1
    /\ Run(w, "store")
    /\ UNCHANGED <<crm, conv, tasks, events, enabled, claims, budget, load, faults,
                   outside, ran, twice, lapsed, outage, torn>>

Store(w) ==
    /\ At(w, "store")
    /\ conv' = eval[w].copy.conv
    /\ events' = events + 1
    /\ tasks' = tasks \cup {Event(events + 1, eval[w].copy.event, FALSE, "automation",
                                  eval[w].task.depth + 1)}
    /\ To(w, NextAction(eval[w]))
    /\ UNCHANGED <<crm, enabled, claims, budget, load, faults, ghosts>>

-----------------------------------------------------------------------------
(* Actions on deals: the worker makes the calls of MoveStage, module Crm.    *)

\* A copy is to be moved: linked to the conversation, in the pipeline of the
\* action and not in its stage.
Movable(d, a) == d # Gone /\ d.linked /\ d.pipe = a.arg.pipe /\ d.stage # a.arg.stage

\* The copies still to be moved after the first i.
Left(ds, i, a) == [j \in DOMAIN ds |-> IF j > i /\ Movable(ds[j], a) THEN ds[j] ELSE Gone]

\* The first copy that is to be moved.
First(ds, i, a) == Movable(ds[i], a) /\ \A j \in DOMAIN ds : j < i => ~Movable(ds[j], a)

\* AutomationMoveDealStage loads every deal linked to the conversation.
FindDeals(w) ==
    LET a == Action(w)
    IN  /\ At(w, "deals")
        /\ \/ /\ \A i \in DOMAIN deals : ~Movable(deals[i], a)
              /\ To(w, NextAction(eval[w])) /\ UNCHANGED req
           \/ \E i \in DOMAIN deals :
                 /\ First(deals, i, a)
                 /\ Goes(w, Request(<<"Enter", "StoreDeal", "NextDeal">>, i, deals[i],
                                    a.arg.pipe, Gone, a.arg.stage))
                 /\ To(w, [eval[w] EXCEPT !.at = "moving", !.deals = Left(deals, i, a)])
        /\ UNCHANGED <<deals, pipes, stageIds, overtaken, conv, tasks, events, enabled, claims,
                       budget, load, faults, ghosts>>

NextDeal(w) ==
    LET ds == eval[w].deals
        a == Action(w)
    IN  /\ Calls(w, "NextDeal")
        /\ \/ /\ \A i \in DOMAIN ds : ~Movable(ds[i], a)
              /\ Goes(w, Gone) /\ UNCHANGED eval
           \/ \E i \in DOMAIN ds :
                 /\ First(ds, i, a)
                 /\ Goes(w, [req[w] EXCEPT !.calls = <<"Enter", "StoreDeal", "NextDeal">>,
                                           !.d = i, !.deal = ds[i]])
                 /\ To(w, [eval[w] EXCEPT !.deals = Left(ds, i, a)])
        /\ UNCHANGED <<deals, pipes, stageIds, overtaken, conv, tasks, events, enabled, claims,
                       budget, load, faults, ghosts>>

\* The action is over, or has failed: the next one runs all the same.
Moved(w) ==
    /\ At(w, "moving") /\ req[w] = Gone
    /\ To(w, NextAction(eval[w]))
    /\ UNCHANGED <<crm, conv, tasks, events, enabled, claims, budget, load, faults, ghosts>>

-----------------------------------------------------------------------------
\* The worker dies, or a read fails before the actions: asynq runs the task
\* again until its retries are used up.
Fail(w) ==
    LET t == eval[w].task
    IN  /\ ~At(w, "idle")
        /\ faults < load.maxFaults
        /\ faults' = faults + 1
        /\ tasks' = IF t.tries < MaxRetry THEN tasks \cup {[t EXCEPT !.tries = @ + 1]} ELSE tasks
        /\ torn' = (torn \/ At(w, "expire"))
        /\ To(w, Idle)
        /\ Goes(w, Gone)
        /\ UNCHANGED <<deals, pipes, stageIds, overtaken, conv, events, enabled, claims, budget, load,
                       outside, ran, twice, lapsed, counted, outage>>

Evaluate(w) ==
    \/ Take(w) \/ FirstHydrate(w) \/ Rehydrate(w) \/ Claim(w) \/ RedisDown(w) \/ Act(w)
    \/ Incr(w) \/ Expire(w) \/ Load(w) \/ Create(w) \/ Store(w)
    \/ FindDeals(w) \/ NextDeal(w) \/ Moved(w) \/ Fail(w)

\* A request of a user, or a call of one under way, of a worker's moves too.
UserWorks ==
    /\ \/ /\ Cardinality({u \in Users \ Workers : req[u] # Gone}) < load.maxUsers
          /\ \E u \in Users \ Workers : Requests(u, load.requests)
       \/ \E u \in Users : Proceed(u)
    /\ UNCHANGED <<conv, rules, ghosts>>

Next ==
    \/ MessageArrives \/ AgentCloses \/ AgentResolves \/ AgentReopens \/ ManageRule
    \/ WindowEnds \/ ClaimEnds
    \/ UserWorks
    \/ \E w \in Workers : Evaluate(w)

Spec == Init /\ [][Next]_vars

-----------------------------------------------------------------------------
\* The documents are well formed, and every evaluation is at a step of its own
\* with the rules it still has to run.
TypeOK ==
    /\ CrmTypeOK
    /\ conv.status \in Statuses
    /\ conv.agent \in Agents \cup {None} /\ conv.sector \in Sectors \cup {None}
    /\ budget.n \in Nat
    /\ enabled \subseteq load.rules
    /\ \A t \in tasks : t.id \in 1..events /\ t.tries \in 0..MaxRetry
    /\ \A w \in Workers :
          eval[w].at # "idle" => eval[w].task.id \in 1..events /\ eval[w].rules # {}

\* "Never re-running a side-effectful action": while Redis answers, an action
\* of a rule runs at most once for an event, however often the task is retried,
\* unless the claim of the firing has run out, after an hour.
FiredOnce == ~outage => ~twice

\* "Automation cannot feed itself": every action that ever ran was caused by
\* somebody outside the rules.
NoFeedback == \A job \in ran : job[1][2] \in outside

\* The budget is a fuse that trips and comes back: while Redis answers, a
\* window lets at most BudgetMax messages through, and a count that was started
\* is going to expire, unless EXPIRE failed, whose error is ignored, was not
\* reached by a worker that died, or was not asked for by one that got no answer
\* to INCR: such a key stays for good.
BudgetHolds ==
    /\ ~outage => counted <= BudgetMax
    /\ budget.n > 0 => budget.expires \/ torn \/ \E w \in Workers : At(w, "expire")
=============================================================================
