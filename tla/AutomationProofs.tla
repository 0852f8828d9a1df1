-------------------------- MODULE AutomationProofs --------------------------
(***************************************************************************)
(* Theorems about Automation for any rules, workers, workloads and bounds:   *)
(* no rule is fed by a rule, no action runs twice for an event while Redis   *)
(* answers, and the budget of messages holds and comes back.                 *)
(***************************************************************************)
EXTENDS Automation, FiniteSetTheorems, TLAPS

-----------------------------------------------------------------------------
(* The evaluations.                                                        *)

\* The record of an evaluation, whatever its fields hold.
Shape(e) == e \in [at : {e.at}, task : {e.task}, rules : {e.rules}, k : {e.k},
                   copy : {e.copy}, deals : {e.deals}, late : {e.late}]

TaskShape(t) == t \in [id : {t.id}, name : {t.name}, reply : {t.reply},
                       origin : {t.origin}, depth : {t.depth}, tries : {t.tries}]

\* Every worker has an evaluation.
Shaped ==
    /\ eval = [w \in Workers |-> eval[w]]
    /\ \A w \in Workers : Shape(eval[w]) /\ eval[w].k \in Nat

Same(e, f) == f.task = e.task /\ f.rules = e.rules

\* The steps at which the actions of a rule run.
Working(e) == e.at \in {"act", "incr", "expire", "load", "create", "store", "deals", "moving"}

\* The evaluation after a rule, and after an action.
LEMMA NextFields ==
    ASSUME NEW e, e.k \in Nat
    PROVE  /\ Shape(Idle) /\ Idle.at = "idle" /\ Idle.k = 0
           /\ LET f == NextRule(e)
              IN  /\ Shape(f) /\ f.k = 0 /\ f.at \in {"idle", "rule"}
                  /\ f.at = "idle" \/ f.task = e.task
           /\ LET f == NextAction(e)
              IN  /\ Shape(f) /\ f.k \in Nat /\ f.at \in {"idle", "rule", "act"}
                  /\ f.at = "idle" \/ f.task = e.task
                  /\ f.at = "act" => Same(e, f) /\ f.k = e.k + 1
<1>1. /\ Shape(Idle) /\ Idle.at = "idle" /\ Idle.k = 0
  BY DEF Idle, Shape
<1>2. LET f == NextRule(e)
      IN  /\ Shape(f) /\ f.k = 0 /\ f.at \in {"idle", "rule"}
          /\ f.at = "idle" \/ f.task = e.task
  BY DEF NextRule, Idle, Shape
<1>3. ASSUME NextAction(e) # NextRule(e)
      PROVE  NextAction(e) = [Idle EXCEPT !.at = "act", !.task = e.task, !.rules = e.rules,
                                          !.k = e.k + 1]
  BY <1>3 DEF NextAction
<1>4. LET f == [Idle EXCEPT !.at = "act", !.task = e.task, !.rules = e.rules, !.k = e.k + 1]
      IN  Shape(f) /\ f.k = e.k + 1 /\ f.at = "act" /\ Same(e, f)
  BY DEF Idle, Shape, Same
<1>5. e.k + 1 \in Nat /\ 0 \in Nat
  OBVIOUS
<1> QED BY <1>1, <1>2, <1>3, <1>4, <1>5 DEF Same

\* To changes one evaluation.
LEMMA ToSteps ==
    ASSUME Shaped, NEW w \in Workers, NEW e, To(w, e)
    PROVE  /\ eval'[w] = e /\ \A v \in Workers \ {w} : eval'[v] = eval[v]
           /\ eval' = [v \in Workers |-> eval'[v]]
BY DEF Shaped, To

\* What a step of a worker does to its evaluation: it leaves the rule, stays at
\* an action, goes on to the next one, or starts the rule it has claimed; and it
\* is about the task it was, or one it takes.
Turn(w) ==
    LET e == eval[w] f == eval'[w]
    IN  /\ \A v \in Workers \ {w} : eval'[v] = eval[v]
        /\ eval' = [v \in Workers |-> eval'[v]]
        /\ Shape(f) /\ f.k \in Nat
        /\ \/ ~Working(f)
           \/ Working(e) /\ Same(e, f) /\ f.k = e.k /\ (f.at = "act" => e.at = "act" /\ ran' = ran)
           \/ Working(e) /\ Same(e, f) /\ f.k = e.k + 1 /\ f.at = "act"
           \/ Claim(w) /\ Firing(w) \notin claims /\ Same(e, f) /\ f.at = "act" /\ f.k = 1
           \/ outage'
        /\ \/ f.at = "idle"
           \/ \E t \in tasks : t.origin # "automation" /\ f.task = t
           \/ e.at # "idle" /\ f.task = e.task

LEMMA TurnSteps ==
    ASSUME Shaped, NEW w \in Workers, Evaluate(w) PROVE Turn(w)
<1> DEFINE e == eval[w]
<1>0. Shape(e) /\ e.k \in Nat
  BY DEF Shaped
<1>1. ASSUME NEW f, To(w, f), Shape(f), f.k \in Nat,
             \/ ~Working(f)
             \/ Working(e) /\ Same(e, f) /\ f.k = e.k /\ (f.at = "act" => e.at = "act" /\ ran' = ran)
             \/ Working(e) /\ Same(e, f) /\ f.k = e.k + 1 /\ f.at = "act"
             \/ Claim(w) /\ Firing(w) \notin claims /\ Same(e, f) /\ f.at = "act" /\ f.k = 1
             \/ outage',
             \/ f.at = "idle"
             \/ \E t \in tasks : t.origin # "automation" /\ f.task = t
             \/ e.at # "idle" /\ f.task = e.task
      PROVE  Turn(w)
  BY <1>1, ToSteps DEF Turn
<1>2. ASSUME To(w, Idle) PROVE Turn(w)
  BY <1>0, <1>1, <1>2, NextFields DEF Working
<1>3. ASSUME To(w, NextRule(e)), e.at # "idle" PROVE Turn(w)
  <2>1. LET f == NextRule(e)
        IN  /\ Shape(f) /\ f.k = 0 /\ f.at \in {"idle", "rule"}
            /\ f.at = "idle" \/ f.task = e.task
    BY <1>0, NextFields
  <2>2. ~Working(NextRule(e)) /\ NextRule(e).k \in Nat
    BY <2>1 DEF Working
  <2> QED BY <1>1, <1>3, <2>1, <2>2
<1>4. ASSUME To(w, NextAction(e)), Working(e) PROVE Turn(w)
  <2>1. LET f == NextAction(e)
        IN  /\ Shape(f) /\ f.k \in Nat /\ f.at \in {"idle", "rule", "act"}
            /\ f.at = "idle" \/ f.task = e.task
            /\ f.at = "act" => Same(e, f) /\ f.k = e.k + 1
    BY <1>0, NextFields
  <2>2. e.at # "idle" /\ (~Working(NextAction(e)) \/ NextAction(e).at = "act")
    BY <1>4, <2>1 DEF Working
  <2> QED BY <1>1, <1>4, <2>1, <2>2
<1>5. ASSUME NEW a, To(w, [e EXCEPT !.at = a]), Working(e), a # "act" PROVE Turn(w)
  <2>1. LET f == [e EXCEPT !.at = a]
        IN  Shape(f) /\ f.at = a /\ Same(e, f) /\ f.k = e.k
    BY <1>0 DEF Shape, Same
  <2>2. e.at # "idle"
    BY <1>5 DEF Working
  <2> QED BY <1>0, <1>1, <1>5, <2>1, <2>2 DEF Same
<1>6. CASE Take(w)
  <2>1. PICK t \in tasks : LET rs == {r \in enabled : RuleBook[r].event \in RuleEvents(t)}
          IN  To(w, IF t.origin = "automation" \/ t.depth > MaxDepth \/ rs = {} THEN Idle
                    ELSE [Idle EXCEPT !.at = "hydrate", !.task = t, !.rules = rs])
    BY <1>6 DEF Take
  <2> DEFINE rs == {r \in enabled : RuleBook[r].event \in RuleEvents(t)}
             f == [Idle EXCEPT !.at = "hydrate", !.task = t, !.rules = rs]
  <2>2. To(w, Idle) \/ (To(w, f) /\ t.origin # "automation")
    BY <2>1
  <2>3. Shape(f) /\ f.k = 0 /\ f.at = "hydrate" /\ f.task = t
    BY DEF Idle, Shape
  <2>4. ~Working(f) /\ f.k \in Nat
    BY <2>3 DEF Working
  <2> QED BY <1>1, <1>2, <2>2, <2>3, <2>4
<1>7. ASSUME NEW s \in {"hydrate", "rehydrate"}, NEW n \in {"rehydrate", "rule"}, Hydrate(w, s, n)
      PROVE  Turn(w)
  <2> DEFINE rs == {r \in e.rules : Matches(r, conv)}
             f == [e EXCEPT !.at = n, !.rules = rs]
  <2>1. To(w, Idle) \/ To(w, f)
    BY <1>7 DEF Hydrate
  <2>2. e.at = s
    BY <1>7 DEF Hydrate, At
  <2>3. Shape(f) /\ f.at = n /\ f.task = e.task /\ f.k = e.k
    BY <1>0 DEF Shape, Same
  <2>4. ~Working(f)
    BY <2>3 DEF Working
  <2> QED BY <1>0, <1>1, <1>2, <2>1, <2>2, <2>3, <2>4
<1>8. CASE FirstHydrate(w) \/ Rehydrate(w)
  BY <1>7, <1>8 DEF FirstHydrate, Rehydrate
<1>9. ASSUME To(w, [e EXCEPT !.at = "act", !.k = 1]), e.at = "rule",
             (Claim(w) /\ Firing(w) \notin claims) \/ outage'
      PROVE  Turn(w)
  <2>1. LET f == [e EXCEPT !.at = "act", !.k = 1]
        IN  Shape(f) /\ f.at = "act" /\ Same(e, f) /\ f.k = 1
    BY <1>0 DEF Shape, Same
  <2>2. 1 \in Nat
    OBVIOUS
  <2> QED BY <1>1, <1>9, <2>1, <2>2 DEF Same
<1>10. CASE Claim(w)
  <2>1. /\ e.at = "rule"
        /\ To(w, IF Firing(w) \in claims THEN NextRule(e) ELSE [e EXCEPT !.at = "act", !.k = 1])
    BY <1>10 DEF Claim, At
  <2> QED BY <1>3, <1>9, <1>10, <2>1
<1>11. CASE RedisDown(w)
  <2>1. /\ outage'
        /\ \/ e.at = "rule" /\ To(w, [e EXCEPT !.at = "act", !.k = 1])
           \/ e.at = "incr" /\ To(w, [e EXCEPT !.at = "load"])
    BY <1>11 DEF RedisDown, At, Run
  <2> QED BY <1>5, <1>9, <2>1 DEF Working
<1>12. CASE Act(w)
  <2>1. /\ e.at = "act"
        /\ \/ To(w, NextAction(e))
           \/ \E a \in {"incr", "deals", "load"} : To(w, [e EXCEPT !.at = a])
    BY <1>12 DEF Act, At
  <2> QED BY <1>4, <1>5, <2>1 DEF Working
<1>13. CASE Incr(w) \/ Expire(w)
  <2>1. /\ e.at \in {"incr", "expire"}
        /\ \/ To(w, NextAction(e))
           \/ \E a \in {"expire", "load"} : To(w, [e EXCEPT !.at = a])
    <3>1. CASE Incr(w)
      BY <3>1 DEF Incr, At
    <3>2. CASE Expire(w)
      BY <3>2 DEF Expire, At, Run
    <3> QED BY <1>13, <3>1, <3>2
  <2> QED BY <1>4, <1>5, <2>1 DEF Working
<1>14. CASE Load(w)
  <2> DEFINE m == Mutated(Action(w), conv)
  <2>1. /\ e.at = "load"
        /\ \/ To(w, NextAction(e))
           \/ \E a \in {"create", "store"} : To(w, [e EXCEPT !.copy = m, !.at = a])
    BY <1>14 DEF Load, At
  <2>2. CASE To(w, NextAction(e))
    BY <1>4, <2>1, <2>2 DEF Working
  <2>3. ASSUME NEW a \in {"create", "store"}, To(w, [e EXCEPT !.copy = m, !.at = a])
        PROVE  Turn(w)
    <3>1. LET f == [e EXCEPT !.copy = m, !.at = a]
          IN  Shape(f) /\ f.at = a /\ Same(e, f) /\ f.k = e.k
      BY <1>0 DEF Shape, Same
    <3>2. Working(e) /\ e.at # "idle"
      BY <2>1 DEF Working
    <3> QED BY <1>0, <1>1, <2>3, <3>1, <3>2 DEF Same
  <2> QED BY <2>1, <2>2, <2>3
<1>15. CASE Create(w) \/ Store(w) \/ Moved(w)
  <2>1. /\ e.at \in {"create", "store", "moving"}
        /\ To(w, NextAction(e)) \/ To(w, [e EXCEPT !.at = "store"])
    BY <1>15 DEF Create, Store, Moved, At, Run
  <2> QED BY <1>4, <1>5, <2>1 DEF Working
<1>16. CASE FindDeals(w)
  <2>1. /\ e.at = "deals"
        /\ \/ To(w, NextAction(e))
           \/ \E ds : To(w, [e EXCEPT !.at = "moving", !.deals = ds])
    BY <1>16 DEF FindDeals, At
  <2>2. CASE To(w, NextAction(e))
    BY <1>4, <2>1, <2>2 DEF Working
  <2>3. ASSUME NEW ds, To(w, [e EXCEPT !.at = "moving", !.deals = ds]) PROVE Turn(w)
    <3>1. LET f == [e EXCEPT !.at = "moving", !.deals = ds]
          IN  Shape(f) /\ f.at = "moving" /\ Same(e, f) /\ f.k = e.k
      BY <1>0 DEF Shape, Same
    <3>2. Working(e) /\ e.at # "idle"
      BY <2>1 DEF Working
    <3> QED BY <1>0, <1>1, <2>3, <3>1, <3>2 DEF Same
  <2> QED BY <2>1, <2>2, <2>3
<1>17. CASE NextDeal(w)
  <2>0. ran' = ran /\ (eval' = eval \/ \E ds : To(w, [e EXCEPT !.deals = ds]))
    BY <1>17 DEF NextDeal, ghosts
  <2>1. CASE eval' = eval
    BY <1>0, <2>0, <2>1 DEF Turn, Same, Shaped
  <2>2. ASSUME NEW ds, To(w, [e EXCEPT !.deals = ds]) PROVE Turn(w)
    <3>1. LET f == [e EXCEPT !.deals = ds]
          IN  Shape(f) /\ f.at = e.at /\ Same(e, f) /\ f.k = e.k
      BY <1>0 DEF Shape, Same
    <3> QED BY <1>0, <1>1, <2>0, <2>2, <3>1 DEF Same, Working
  <2> QED BY <2>0, <2>1, <2>2
<1>18. CASE Fail(w)
  BY <1>2, <1>18 DEF Fail
<1> QED BY <1>6, <1>8, <1>10, <1>11, <1>12, <1>13, <1>14, <1>15, <1>16, <1>17, <1>18 DEF Evaluate

\* The end of a window only tells evaluations that their permission is old.
LEMMA WindowSteps ==
    ASSUME Shaped, WindowEnds, NEW w \in Workers
    PROVE  /\ Shape(eval'[w]) /\ eval'[w].at = eval[w].at /\ Same(eval[w], eval'[w])
           /\ eval'[w].k = eval[w].k
           /\ eval[w].at \in {"load", "create"} /\ Action(w).type \in Messaging => eval'[w].late
<1>0. Shape(eval[w]) /\ eval[w].k \in Nat
  BY DEF Shaped
<1> DEFINE f == [eval[w] EXCEPT !.late = TRUE]
<1>1. Shape(f) /\ f.at = eval[w].at /\ Same(eval[w], f) /\ f.k = eval[w].k /\ f.late
  BY <1>0 DEF Shape, Same
<1>2. eval'[w] = IF eval[w].at \in {"load", "create"} /\ Action(w).type \in Messaging
                 THEN f ELSE eval[w]
  BY DEF WindowEnds
<1> HIDE DEF f
<1> QED BY <1>0, <1>1, <1>2 DEF Same

LEMMA ShapedSteps == Shaped /\ [Next]_vars => Shaped'
<1> SUFFICES ASSUME Shaped, [Next]_vars PROVE Shaped'
  OBVIOUS
<1>1. CASE eval' = eval
  BY <1>1 DEF Shaped
<1>2. CASE WindowEnds
  <2>1. eval' = [w \in Workers |-> eval'[w]]
    BY <1>2 DEF WindowEnds
  <2>2. \A w \in Workers : Shape(eval'[w]) /\ eval'[w].k \in Nat
    BY <1>2, WindowSteps DEF Shaped
  <2> QED BY <2>1, <2>2 DEF Shaped
<1>3. ASSUME NEW w \in Workers, Evaluate(w) PROVE Shaped'
  <2>1. Turn(w)
    BY <1>3, TurnSteps
  <2>2. /\ eval' = [v \in Workers |-> eval'[v]] /\ Shape(eval'[w]) /\ eval'[w].k \in Nat
        /\ \A v \in Workers \ {w} : eval'[v] = eval[v]
    BY <2>1 DEF Turn
  <2> QED BY <2>2 DEF Shaped
<1> QED BY <1>1, <1>2, <1>3 DEF Next, MessageArrives, AgentCloses, AgentResolves,
    AgentReopens, ManageRule, UserWorks, Happens, ClaimEnds, vars, rules

-----------------------------------------------------------------------------
(* Where an evaluation comes from.                                         *)

\* An event that does not come from an action was caused outside the rules, and
\* so was every evaluation under way and every action that ran.
Traced ==
    /\ \A t \in tasks : TaskShape(t) /\ (t.origin # "automation" => t.id \in outside)
    /\ \A w \in Workers : eval[w].at # "idle" =>
          LET t == eval[w].task
          IN  TaskShape(t) /\ t.origin # "automation" /\ t.id \in outside
    /\ NoFeedback

LEMMA EventShape ==
    ASSUME NEW id, NEW name, NEW reply, NEW origin, NEW depth
    PROVE  LET t == Event(id, name, reply, origin, depth)
           IN  TaskShape(t) /\ t.origin = origin /\ t.id = id
BY DEF Event, TaskShape

LEMMA TracedSteps == Shaped /\ Traced /\ [Next]_vars => Traced'
<1> SUFFICES ASSUME Shaped, Traced, [Next]_vars PROVE Traced'
  OBVIOUS
<1>1. ASSUME UNCHANGED <<eval, ran>>, outside \subseteq outside',
             \A t \in tasks' : t \in tasks \/
                 (TaskShape(t) /\ (t.origin # "automation" => t.id \in outside'))
      PROVE  Traced'
  BY <1>1 DEF Traced, NoFeedback
<1>2. ASSUME NEW name, NEW reply, NEW c, Happens(name, reply, c) PROVE Traced'
  <2> DEFINE t == Event(events + 1, name, reply, "external", 0)
  <2>1. /\ outside' = outside \cup {events + 1} /\ tasks' = tasks \cup {t}
        /\ UNCHANGED <<eval, ran>>
    BY <1>2 DEF Happens
  <2>2. TaskShape(t) /\ t.id = events + 1
    BY EventShape
  <2> HIDE DEF t
  <2> QED BY <1>1, <2>1, <2>2
<1>3. CASE MessageArrives \/ AgentCloses \/ AgentResolves \/ AgentReopens
  BY <1>2, <1>3 DEF MessageArrives, AgentCloses, AgentResolves, AgentReopens
<1>4. CASE ManageRule \/ UserWorks \/ ClaimEnds \/ UNCHANGED vars
  <2>1. UNCHANGED <<eval, ran, outside, tasks>>
    BY <1>4 DEF ManageRule, UserWorks, ClaimEnds, vars, rules, ghosts
  <2> QED BY <1>1, <2>1
<1>5. CASE WindowEnds
  <2>1. UNCHANGED <<ran, outside, tasks>>
    BY <1>5 DEF WindowEnds
  <2>2. \A w \in Workers : eval'[w].at = eval[w].at /\ eval'[w].task = eval[w].task
    BY <1>5, WindowSteps DEF Same
  <2> QED BY <2>1, <2>2 DEF Traced, NoFeedback
<1>6. ASSUME NEW w \in Workers, Evaluate(w) PROVE Traced'
  <2>0. Turn(w)
    BY <1>6, TurnSteps
  <2>1. outside' = outside
    BY <1>6 DEF Evaluate, Take, FirstHydrate, Rehydrate, Hydrate, Claim, RedisDown, Act, Incr,
       Expire, Load, Create, Store, FindDeals, NextDeal, Moved, Fail, ghosts
  <2>2. ASSUME NEW v \in Workers, eval'[v].at # "idle"
        PROVE  LET t == eval'[v].task
               IN  TaskShape(t) /\ t.origin # "automation" /\ t.id \in outside
    <3>1. CASE v # w
      <4>1. eval'[v] = eval[v]
        BY <2>0, <3>1 DEF Turn
      <4> QED BY <2>2, <4>1 DEF Traced
    <3>2. CASE v = w
      <4>1. \/ \E t \in tasks : t.origin # "automation" /\ eval'[w].task = t
            \/ eval[w].at # "idle" /\ eval'[w].task = eval[w].task
        BY <2>0, <2>2, <3>2 DEF Turn
      <4> QED BY <3>2, <4>1 DEF Traced
    <3> QED BY <3>1, <3>2
  <2>3. ASSUME NEW t \in tasks'
        PROVE  TaskShape(t) /\ (t.origin # "automation" => t.id \in outside)
    <3>1. CASE t \in tasks
      BY <3>1 DEF Traced
    <3>2. CASE Store(w)
      <4> DEFINE s == Event(events + 1, eval[w].copy.event, FALSE, "automation",
                            eval[w].task.depth + 1)
      <4>1. t \in tasks \/ t = s
        BY <3>2 DEF Store
      <4>2. TaskShape(s) /\ s.origin = "automation"
        BY DEF Event, TaskShape
      <4> QED BY <3>1, <4>1, <4>2
    <3>3. CASE Fail(w)
      <4> DEFINE s == eval[w].task
      <4>1. eval[w].at # "idle" /\ (t \in tasks \/ t = [s EXCEPT !.tries = @ + 1])
        BY <3>3 DEF Fail, At
      <4>2. TaskShape(s) /\ s.id \in outside
        BY <4>1 DEF Traced
      <4>3. TaskShape([s EXCEPT !.tries = @ + 1]) /\ [s EXCEPT !.tries = @ + 1].id = s.id
        BY <4>2 DEF TaskShape
      <4> QED BY <3>1, <4>1, <4>2, <4>3
    <3>4. Store(w) \/ Fail(w) \/ tasks' \subseteq tasks
      BY <1>6 DEF Evaluate, Take, FirstHydrate, Rehydrate, Hydrate, Claim, RedisDown, Act, Incr,
         Expire, Load, Create, FindDeals, NextDeal, Moved
    <3> QED BY <3>1, <3>2, <3>3, <3>4
  <2>4. NoFeedback'
    <3>1. CASE Act(w)
      <4> DEFINE n == <<Firing(w), eval[w].k>>
      <4>1. ran' = ran \cup {n} /\ eval[w].at = "act"
        BY <3>1 DEF Act, At
      <4>2. n[1][2] = eval[w].task.id
        BY DEF Firing
      <4>3. n[1][2] \in outside
        BY <4>1, <4>2 DEF Traced
      <4> HIDE DEF n
      <4> QED BY <2>1, <4>1, <4>3 DEF NoFeedback, Traced
    <3>2. Act(w) \/ ran' = ran
      BY <1>6 DEF Evaluate, Take, FirstHydrate, Rehydrate, Hydrate, Claim, RedisDown, Incr,
         Expire, Load, Create, Store, FindDeals, NextDeal, Moved, Fail, ghosts
    <3> QED BY <2>1, <3>1, <3>2 DEF NoFeedback, Traced
  <2> QED BY <2>1, <2>2, <2>3, <2>4 DEF Traced
<1> QED BY <1>3, <1>4, <1>5, <1>6 DEF Next

\* Shapes and origins hold in every reachable state.
LEMMA TracedHold == Spec => [](Shaped /\ Traced)
<1>1. Init => Shaped /\ Traced
  <2> SUFFICES ASSUME Init PROVE Shaped /\ Traced
    OBVIOUS
  <2>1. eval = [w \in Workers |-> Idle] /\ tasks = {} /\ ran = {}
    BY DEF Init
  <2>2. Shape(Idle) /\ Idle.at = "idle" /\ Idle.k = 0
    BY DEF Idle, Shape
  <2> QED BY <2>1, <2>2 DEF Shaped, Traced, NoFeedback
<1> QED BY <1>1, ShapedSteps, TracedSteps, PTL DEF Spec

\* "Automation cannot feed itself": whatever the rules are, every action that
\* ever ran was caused by an event from outside them (evaluator.go, the origin
\* and depth of an event).
THEOREM RulesAreNotFed == Spec => []NoFeedback
<1>1. Traced => NoFeedback
  BY DEF Traced
<1> QED BY <1>1, TracedHold, PTL

-----------------------------------------------------------------------------
(* Actions run once.                                                       *)

\* The firings that were claimed, and those whose claim has not run out.
Claimed == claims \cup lapsed

\* While Redis answers, the rule a worker is at was claimed, and until its claim
\* runs out by nobody else, and of its actions those before the one at hand
\* have run.
Once ==
    ~outage =>
        /\ ~twice
        /\ \A job \in ran : job[1] \in Claimed /\ job[2] \in Nat
        /\ \A w \in Workers : Working(eval[w]) =>
              /\ Firing(w) \in Claimed
              /\ Firing(w) \notin lapsed =>
                    \A job \in ran : job[1] = Firing(w) =>
                        job[2] <= eval[w].k /\ (eval[w].at = "act" => job[2] < eval[w].k)
        /\ \A v, w \in Workers :
              v # w /\ Working(eval[v]) /\ Working(eval[w]) =>
                  Firing(v) # Firing(w) \/ Firing(w) \in lapsed

LEMMA OnceSteps == Shaped /\ Once /\ [Next]_vars => Once'
<1> DEFINE Runs(w) ==
              /\ Firing(w)' \in Claimed'
              /\ Firing(w)' \notin lapsed' =>
                    \A job \in ran' : job[1] = Firing(w)' =>
                        job[2] <= eval'[w].k /\ (eval'[w].at = "act" => job[2] < eval'[w].k)
           Goal == /\ ~twice'
                   /\ \A job \in ran' : job[1] \in Claimed' /\ job[2] \in Nat
                   /\ \A w \in Workers : Working(eval'[w]) => Runs(w)
                   /\ \A v, w \in Workers :
                         v # w /\ Working(eval'[v]) /\ Working(eval'[w]) =>
                             Firing(v)' # Firing(w)' \/ Firing(w)' \in lapsed'
<1> SUFFICES ASSUME Shaped, Once, [Next]_vars, ~outage' PROVE Goal
  BY DEF Once
<1>0. ~outage
  BY DEF Next, MessageArrives, AgentCloses, AgentResolves, AgentReopens, ManageRule,
     UserWorks, Happens, WindowEnds, ClaimEnds, Evaluate, Take, FirstHydrate, Rehydrate, Hydrate, Claim,
     RedisDown, Act, Incr, Expire, Load, Create, Store, FindDeals, NextDeal, Moved, Fail,
     vars, ghosts
<1>1. /\ ~twice
      /\ \A job \in ran : job[1] \in Claimed /\ job[2] \in Nat
      /\ \A w \in Workers : Working(eval[w]) =>
            /\ Firing(w) \in Claimed
            /\ Firing(w) \notin lapsed =>
                  \A job \in ran : job[1] = Firing(w) =>
                      job[2] <= eval[w].k /\ (eval[w].at = "act" => job[2] < eval[w].k)
      /\ \A v, w \in Workers :
            v # w /\ Working(eval[v]) /\ Working(eval[w]) =>
                Firing(v) # Firing(w) \/ Firing(w) \in lapsed
  BY <1>0 DEF Once
<1>2. ASSUME UNCHANGED <<twice, ran>>, Claimed \subseteq Claimed', lapsed \subseteq lapsed',
             \A w \in Workers : /\ eval'[w].at = eval[w].at /\ eval'[w].k = eval[w].k
                                /\ Same(eval[w], eval'[w])
      PROVE  Goal
  <2>1. \A w \in Workers : Firing(w)' = Firing(w) /\ (Working(eval'[w]) <=> Working(eval[w]))
    BY <1>2 DEF Firing, Same, Working
  <2> QED BY <1>1, <1>2, <2>1
<1>3. ASSUME UNCHANGED <<twice, ran, eval>>, Claimed \subseteq Claimed', lapsed \subseteq lapsed'
      PROVE  Goal
  BY <1>2, <1>3 DEF Same
<1>4. ASSUME NEW w \in Workers, Evaluate(w) PROVE Goal
  <2> DEFINE n == <<Firing(w), eval[w].k>>
  <2>0. Turn(w) /\ eval[w].k \in Nat
    BY <1>4, TurnSteps DEF Shaped
  <2>1. /\ n[1] = Firing(w) /\ n[2] = eval[w].k
    OBVIOUS
  <2>2. /\ \A v \in Workers \ {w} : eval'[v] = eval[v] /\ Firing(v)' = Firing(v)
        /\ Same(eval[w], eval'[w]) => Firing(w)' = Firing(w)
    BY <2>0 DEF Turn, Firing, Same
  <2>a. ~RedisDown(w)
    BY DEF RedisDown
  <2>b. lapsed' = lapsed
    BY <1>4 DEF Evaluate, Take, FirstHydrate, Rehydrate, Hydrate, Claim, RedisDown, Act, Incr,
       Expire, Load, Create, Store, FindDeals, NextDeal, Moved, Fail, ghosts
  <2>3. \/ /\ eval[w].at = "act" /\ ran' = ran \cup {n}
           /\ twice' = (twice \/ (n \in ran /\ Firing(w) \notin lapsed))
        \/ ran' = ran /\ twice' = twice
    BY <1>4 DEF Evaluate, Take, FirstHydrate, Rehydrate, Hydrate, Claim, RedisDown, Act, Incr,
       Expire, Load, Create, Store, FindDeals, NextDeal, Moved, Fail, ghosts, At
  <2>c. /\ \/ Claim(w) /\ claims' = claims \cup {Firing(w)} /\ ran' = ran /\ eval[w].at = "rule"
           \/ claims' = claims
        /\ Claim(w) => claims' = claims \cup {Firing(w)} /\ ran' = ran /\ eval[w].at = "rule"
    BY <1>4, <2>a DEF Evaluate, Take, FirstHydrate, Rehydrate, Hydrate, Claim, Act, Incr,
       Expire, Load, Create, Store, FindDeals, NextDeal, Moved, Fail, ghosts, At
  <2>4. /\ Claim(w) => /\ ran' = ran /\ eval[w].at = "rule"
                       /\ Claimed' = Claimed \cup {Firing(w)}
        /\ Claimed \subseteq Claimed'
    BY <2>b, <2>c DEF Claimed
  <2>d. Firing(w) \notin claims /\ Firing(w) \in Claimed => Firing(w) \in lapsed
    BY DEF Claimed
  <2> HIDE DEF n
  <2>5. ~twice'
    <3>1. eval[w].at = "act" => n \notin ran \/ Firing(w) \in lapsed
      <4> SUFFICES ASSUME eval[w].at = "act", n \in ran, Firing(w) \notin lapsed PROVE FALSE
        OBVIOUS
      <4>1. Working(eval[w])
        BY DEF Working
      <4>2. eval[w].k < eval[w].k
        BY <1>1, <2>1, <4>1
      <4> QED BY <2>0, <4>2
    <3> QED BY <1>1, <2>3, <3>1
  <2>6. \A job \in ran' : job[1] \in Claimed' /\ job[2] \in Nat
    <3>1. eval[w].at = "act" => Firing(w) \in Claimed
      BY <1>1 DEF Working
    <3> QED BY <1>1, <2>0, <2>1, <2>3, <2>4, <3>1
  <2>7. ASSUME NEW v \in Workers \ {w}, Working(eval'[v])
        PROVE  Runs(v) /\ Firing(v) \in Claimed
    <3>1. Working(eval[v]) /\ Firing(v)' = Firing(v) /\ eval'[v] = eval[v]
      BY <2>2, <2>7
    <3>2. eval[w].at = "act" => n[1] # Firing(v) \/ Firing(v) \in lapsed
      BY <1>1, <2>1, <3>1 DEF Working
    <3> QED BY <1>1, <2>3, <2>4, <2>b, <3>1, <3>2
  <2>8. ASSUME Working(eval'[w])
        PROVE  /\ Runs(w)
               /\ \A v \in Workers \ {w} : Working(eval'[v]) =>
                     Firing(v)' # Firing(w)' \/ Firing(w)' \in lapsed'
    <3> DEFINE e == eval[w]
               f == eval'[w]
    <3>1. \/ Working(e) /\ Same(e, f) /\ f.k = e.k /\ (f.at = "act" => e.at = "act" /\ ran' = ran)
          \/ Working(e) /\ Same(e, f) /\ f.k = e.k + 1 /\ f.at = "act"
          \/ Claim(w) /\ Firing(w) \notin claims /\ Same(e, f) /\ f.at = "act" /\ f.k = 1
      BY <2>0, <2>8 DEF Turn
    <3>2. Firing(w)' = Firing(w)
      BY <2>2, <3>1
    <3>3. CASE Working(e)
      <4>1. /\ Firing(w) \in Claimed
            /\ Firing(w) \notin lapsed => \A job \in ran : job[1] = Firing(w) =>
                  job[2] <= e.k /\ (e.at = "act" => job[2] < e.k) /\ job[2] \in Nat
        BY <1>1, <3>3
      <4>2. ~Claim(w)
        BY <2>4, <3>3 DEF Working
      <4>3. Firing(w)' \notin lapsed' =>
               \A job \in ran' : job[1] = Firing(w)' =>
                  job[2] <= f.k /\ (f.at = "act" => job[2] < f.k)
        <5> SUFFICES ASSUME Firing(w) \notin lapsed, NEW job \in ran', job[1] = Firing(w)
                     PROVE  job[2] <= f.k /\ (f.at = "act" => job[2] < f.k)
          BY <2>b, <3>2
        <5>1. job[2] \in Nat /\ job[2] <= e.k /\ (job \in ran /\ e.at = "act" => job[2] < e.k)
          BY <2>0, <2>1, <2>3, <4>1
        <5>2. CASE f.k = e.k /\ (f.at = "act" => e.at = "act" /\ ran' = ran)
          BY <5>1, <5>2
        <5>3. CASE f.k = e.k + 1
          BY <2>0, <5>1, <5>3
        <5> QED BY <3>1, <4>2, <5>2, <5>3
      <4>4. Runs(w)
        BY <2>4, <3>2, <4>1, <4>3
      <4>5. \A v \in Workers \ {w} : Working(eval'[v]) =>
               Firing(v)' # Firing(w)' \/ Firing(w)' \in lapsed'
        BY <1>1, <2>2, <2>b, <3>2, <3>3
      <4> QED BY <4>4, <4>5
    <3>4. CASE ~Working(e)
      <4>1. Claim(w) /\ Firing(w) \notin claims
        BY <3>1, <3>4
      <4>2. Claimed' = Claimed \cup {Firing(w)} /\ ran' = ran
        BY <2>4, <4>1
      <4>3. Runs(w)
        BY <1>1, <2>b, <2>d, <3>2, <4>1, <4>2
      <4>4. \A v \in Workers \ {w} : Working(eval'[v]) =>
               Firing(v)' # Firing(w)' \/ Firing(w)' \in lapsed'
        BY <1>1, <2>2, <2>b, <2>d, <3>2, <4>1
      <4> QED BY <4>3, <4>4
    <3> QED BY <3>3, <3>4
  <2>9. ASSUME NEW u \in Workers, NEW v \in Workers, u # v,
               Working(eval'[u]), Working(eval'[v])
        PROVE  Firing(u)' # Firing(v)' \/ Firing(v)' \in lapsed'
    <3>1. CASE u = w \/ v = w
      BY <2>8, <2>9, <3>1
    <3>2. CASE u # w /\ v # w
      BY <1>1, <2>2, <2>b, <2>9, <3>2
    <3> QED BY <3>1, <3>2
  <2> QED BY <2>5, <2>6, <2>7, <2>8, <2>9
<1>5. CASE WindowEnds
  <2>1. UNCHANGED <<twice, ran, claims, lapsed>>
    BY <1>5 DEF WindowEnds
  <2>2. Claimed' = Claimed
    BY <2>1 DEF Claimed
  <2> QED BY <1>2, <1>5, <2>1, <2>2, WindowSteps
<1>6. CASE ClaimEnds
  <2>1. UNCHANGED <<twice, ran, eval>> /\ Claimed' = Claimed /\ lapsed \subseteq lapsed'
    BY <1>6 DEF ClaimEnds, Claimed
  <2> QED BY <1>3, <2>1
<1>7. CASE ~WindowEnds /\ ~ClaimEnds /\ ~\E w \in Workers : Evaluate(w)
  <2>1. UNCHANGED <<twice, ran, claims, lapsed, eval>>
    BY <1>7 DEF Next, MessageArrives, AgentCloses, AgentResolves, AgentReopens, ManageRule,
       UserWorks, Happens, vars, rules, ghosts
  <2>2. Claimed' = Claimed
    BY <2>1 DEF Claimed
  <2> QED BY <1>3, <2>1, <2>2
<1> QED BY <1>4, <1>5, <1>6, <1>7

\* "Never re-running a side-effectful action": while Redis answers, no action of
\* a rule runs twice for an event, with any number of workers and retries, until
\* the claim of the firing runs out (evaluator.go, the claim of a firing before
\* its actions; deduper.go, its hour).
THEOREM ActionsRunOnce == Spec => []FiredOnce
<1>1. Init => Once
  BY DEF Init, Once, Idle, Working, Claimed
<1>2. Once => FiredOnce
  BY DEF Once, FiredOnce
<1> QED BY <1>1, <1>2, OnceSteps, TracedHold, PTL DEF Spec

-----------------------------------------------------------------------------
(* The budget.                                                             *)

Expirers == {w \in Workers : At(w, "expire")}

\* The workers that have a permission of the current window, or are about to.
Granted ==
    {w \in Workers : /\ eval[w].at \in {"load", "create"} /\ ~eval[w].late
                     /\ Action(w).type \in Messaging}
Pledged == Granted \cup IF BudgetMax = 0 THEN {} ELSE Expirers

\* A count that was started is about to expire; who is to set the expiry is the
\* only one.
Fused ==
    /\ budget \in [n : Nat, expires : BOOLEAN]
    /\ budget.n = 0 => ~budget.expires /\ Expirers = {}
    /\ Expirers # {} => ~budget.expires
    /\ \A v, w \in Expirers : v = w
    /\ budget.n > 0 => budget.expires \/ torn \/ Expirers # {}

\* Messages are created by actions that send one.
Sending == \A w \in Workers : At(w, "create") => Action(w).type \in Messaging

\* What was sent and may still be sent in this window was counted, and allowed.
Spared ==
    /\ counted \in Nat
    /\ IsFiniteSet(Pledged)
    /\ ~outage => /\ counted + Cardinality(Pledged) <= budget.n
                  /\ counted + Cardinality(Pledged) <= BudgetMax

\* Only an action that sends a message makes one.
LEMMA MessageMutations ==
    ASSUME NEW a, NEW c, Mutated(a, c).event = "message.created", Mutated(a, c).event # None
    PROVE  a.type \in Messaging
BY DEF Mutated

\* A worker keeps its action while the task, the rules and the position stay.
LEMMA ActionSteps ==
    ASSUME NEW w \in Workers, Same(eval[w], eval'[w]), eval'[w].k = eval[w].k
    PROVE  Action(w)' = Action(w)
BY DEF Action, Same

\* What a step of a worker does to the budget, to the expiry it may owe, to the
\* permission it may have, and to the messages.
Spend(w) ==
    LET e == eval[w] f == eval'[w]
    IN  \/ /\ Incr(w) /\ e.at = "incr" /\ budget' = [budget EXCEPT !.n = budget.n + 1]
           /\ f.at = "expire" <=> budget.n + 1 = 1
           /\ f.at = "load" => budget.n + 1 <= BudgetMax
           /\ f.at # "create" /\ UNCHANGED <<counted, torn>>
        \/ /\ e.at = "expire" /\ budget' = [budget EXCEPT !.expires = TRUE]
           /\ f.at \notin {"expire", "create"} /\ (f.at = "load" => BudgetMax # 0)
           /\ UNCHANGED <<counted, torn>>
        \/ /\ e.at = "expire" /\ torn' /\ UNCHANGED <<budget, counted>>
           /\ f.at \notin {"expire", "create"} /\ (f.at = "load" => BudgetMax # 0)
        \/ /\ e.at = "incr" /\ f.at = "load" /\ outage'
           /\ budget' = [budget EXCEPT !.n = budget.n + 1]
           /\ torn' = (torn \/ budget.n = 0) /\ UNCHANGED counted
        \/ /\ e.at = "create" /\ f.at = "store" /\ UNCHANGED <<budget, torn>>
           /\ counted' = IF e.late THEN counted ELSE counted + 1
        \/ f.at = "idle" /\ torn' = (torn \/ e.at = "expire") /\ UNCHANGED <<budget, counted>>
        \/ /\ e.at # "expire" /\ f.at # "expire" /\ UNCHANGED <<budget, counted, torn>>
           /\ w \in Granted' => w \in Granted \/ outage'
           /\ f.at = "create" => Action(w)'.type \in Messaging
        \/ /\ f.at = e.at /\ Same(e, f) /\ f.k = e.k /\ f.late = e.late
           /\ UNCHANGED <<budget, counted, torn>>

LEMMA SpendSteps ==
    ASSUME Shaped, NEW w \in Workers, Evaluate(w) PROVE Spend(w)
<1> DEFINE e == eval[w]
<1>0. Shape(e) /\ e.k \in Nat
  BY DEF Shaped
<1>1. ASSUME NEW f, To(w, f) PROVE eval'[w] = f
  BY <1>1, ToSteps
<1>2. ASSUME eval'[w].at \notin {"expire", "load", "create"}, e.at # "expire",
             UNCHANGED <<budget, counted, torn>>
      PROVE  Spend(w)
  BY <1>2 DEF Spend, Granted
<1>3. /\ NextAction(e).at \in {"idle", "rule", "act"} /\ NextRule(e).at \in {"idle", "rule"}
      /\ Idle.at = "idle"
  BY <1>0, NextFields
<1>6. CASE Take(w) \/ FirstHydrate(w) \/ Rehydrate(w) \/ Claim(w) \/ FindDeals(w) \/ Moved(w) \/ Store(w)
  <2>1. UNCHANGED <<budget, counted, torn>> /\ e.at # "expire"
    BY <1>6 DEF Take, FirstHydrate, Rehydrate, Hydrate, Claim, FindDeals, Moved, Store, At, ghosts
  <2>2. eval'[w].at \notin {"expire", "load", "create"}
    <3>1. CASE Take(w)
      <4>1. \E t, rs : To(w, Idle) \/
              To(w, [Idle EXCEPT !.at = "hydrate", !.task = t, !.rules = rs])
        BY <3>1 DEF Take
      <4>2. PICK t, rs : To(w, Idle) \/
              To(w, [Idle EXCEPT !.at = "hydrate", !.task = t, !.rules = rs])
        BY <4>1
      <4>3. [Idle EXCEPT !.at = "hydrate", !.task = t, !.rules = rs].at = "hydrate"
        BY DEF Idle
      <4> QED BY <1>1, <1>3, <4>2, <4>3
    <3>2. CASE FirstHydrate(w) \/ Rehydrate(w)
      <4>1. PICK n \in {"rehydrate", "rule"} :
              \E rs : To(w, Idle) \/ To(w, [e EXCEPT !.at = n, !.rules = rs])
        BY <3>2 DEF FirstHydrate, Rehydrate, Hydrate
      <4>2. PICK rs : To(w, Idle) \/ To(w, [e EXCEPT !.at = n, !.rules = rs])
        BY <4>1
      <4>3. [e EXCEPT !.at = n, !.rules = rs].at = n
        BY <1>0 DEF Shape
      <4> QED BY <1>1, <1>3, <4>2, <4>3
    <3>3. CASE Claim(w)
      <4>1. To(w, NextRule(e)) \/ To(w, [e EXCEPT !.at = "act", !.k = 1])
        BY <3>3 DEF Claim
      <4>2. [e EXCEPT !.at = "act", !.k = 1].at = "act"
        BY <1>0 DEF Shape
      <4> QED BY <1>1, <1>3, <4>1, <4>2
    <3>4. CASE FindDeals(w)
      <4>1. \E ds : To(w, NextAction(e)) \/ To(w, [e EXCEPT !.at = "moving", !.deals = ds])
        BY <3>4 DEF FindDeals
      <4>2. PICK ds : To(w, NextAction(e)) \/ To(w, [e EXCEPT !.at = "moving", !.deals = ds])
        BY <4>1
      <4>3. [e EXCEPT !.at = "moving", !.deals = ds].at = "moving"
        BY <1>0 DEF Shape
      <4> QED BY <1>1, <1>3, <4>2, <4>3
    <3>5. CASE Moved(w) \/ Store(w)
      <4>1. To(w, NextAction(e))
        BY <3>5 DEF Moved, Store
      <4> QED BY <1>1, <1>3, <4>1
    <3> QED BY <1>6, <3>1, <3>2, <3>3, <3>4, <3>5
  <2> QED BY <1>2, <2>1, <2>2
<1>7. CASE RedisDown(w)
  <2>1. /\ outage' /\ UNCHANGED counted
        /\ \/ /\ UNCHANGED <<budget, torn>> /\ e.at \in {"rule", "incr"}
              /\ To(w, [e EXCEPT !.at = "act", !.k = 1]) \/ To(w, [e EXCEPT !.at = "load"])
           \/ /\ e.at = "incr" /\ To(w, [e EXCEPT !.at = "load"])
              /\ budget' = [budget EXCEPT !.n = budget.n + 1] /\ torn' = (torn \/ budget.n = 0)
    BY <1>7 DEF RedisDown, At, Run
  <2>2. [e EXCEPT !.at = "act", !.k = 1].at = "act" /\ [e EXCEPT !.at = "load"].at = "load"
    BY <1>0 DEF Shape
  <2>3. /\ eval'[w].at \in {"act", "load"}
        /\ To(w, [e EXCEPT !.at = "load"]) => eval'[w].at = "load"
    BY <1>1, <2>1, <2>2
  <2> QED BY <2>1, <2>3 DEF Spend
<1>8. CASE Act(w)
  <2>1. /\ UNCHANGED <<budget, counted, torn>> /\ e.at = "act"
        /\ \/ To(w, NextAction(e))
           \/ \E a \in {"incr", "deals"} : To(w, [e EXCEPT !.at = a])
           \/ To(w, [e EXCEPT !.at = "load"]) /\ Action(w).type \notin Messaging
    BY <1>8 DEF Act, At
  <2>2. CASE To(w, NextAction(e))
    BY <1>1, <1>2, <1>3, <2>1, <2>2
  <2>3. ASSUME NEW a \in {"incr", "deals"}, To(w, [e EXCEPT !.at = a]) PROVE Spend(w)
    <3>1. [e EXCEPT !.at = a].at = a
      BY <1>0 DEF Shape
    <3> QED BY <1>1, <1>2, <2>1, <2>3, <3>1
  <2>4. CASE To(w, [e EXCEPT !.at = "load"]) /\ Action(w).type \notin Messaging
    <3>1. LET f == [e EXCEPT !.at = "load"] IN f.at = "load" /\ Same(e, f) /\ f.k = e.k
      BY <1>0 DEF Shape, Same
    <3>2. eval'[w].at = "load" /\ Action(w)' = Action(w)
      BY <1>1, <2>4, <3>1, ActionSteps
    <3>3. w \notin Granted'
      BY <2>4, <3>2 DEF Granted
    <3> QED BY <2>1, <3>2, <3>3 DEF Spend
  <2> QED BY <2>1, <2>2, <2>3, <2>4
<1>9. CASE Incr(w)
  <2>1. /\ e.at = "incr" /\ budget' = [budget EXCEPT !.n = budget.n + 1]
        /\ UNCHANGED <<counted, torn>>
        /\ To(w, IF budget.n + 1 = 1 THEN [e EXCEPT !.at = "expire"]
                 ELSE IF budget.n + 1 <= BudgetMax THEN [e EXCEPT !.at = "load"]
                 ELSE NextAction(e))
    BY <1>9 DEF Incr, At, ghosts
  <2>2. \A a \in {"expire", "load"} : [e EXCEPT !.at = a].at = a
    BY <1>0 DEF Shape
  <2>3. eval'[w] = IF budget.n + 1 = 1 THEN [e EXCEPT !.at = "expire"]
                   ELSE IF budget.n + 1 <= BudgetMax THEN [e EXCEPT !.at = "load"]
                   ELSE NextAction(e)
    BY <1>1, <2>1
  <2>4. /\ eval'[w].at = "expire" <=> budget.n + 1 = 1
        /\ eval'[w].at = "load" => budget.n + 1 <= BudgetMax
        /\ eval'[w].at # "create"
    BY <1>3, <2>2, <2>3
  <2> QED BY <1>9, <2>1, <2>4 DEF Spend
<1>10. CASE Expire(w)
  <2>1. /\ e.at = "expire" /\ UNCHANGED counted
        /\ \/ budget' = [budget EXCEPT !.expires = TRUE] /\ UNCHANGED torn
           \/ torn' /\ UNCHANGED budget
        /\ \/ To(w, NextAction(e))
           \/ BudgetMax # 0 /\ To(w, [e EXCEPT !.at = "load"])
    BY <1>10 DEF Expire, At, Run, ghosts
  <2>2. [e EXCEPT !.at = "load"].at = "load"
    BY <1>0 DEF Shape
  <2>3. eval'[w].at \notin {"expire", "create"} /\ (eval'[w].at = "load" => BudgetMax # 0)
    BY <1>1, <1>3, <2>1, <2>2
  <2> QED BY <2>1, <2>3 DEF Spend
<1>11. CASE Load(w)
  <2> DEFINE m == Mutated(Action(w), conv)
  <2>1. /\ e.at = "load" /\ UNCHANGED <<budget, counted, torn>>
        /\ \/ To(w, NextAction(e))
           \/ To(w, [e EXCEPT !.copy = m, !.at = "store"])
           \/ /\ To(w, [e EXCEPT !.copy = m, !.at = "create"])
              /\ m.event = "message.created" /\ m.event # None
    BY <1>11 DEF Load, At, ghosts
  <2>2. CASE To(w, NextAction(e))
    BY <1>1, <1>2, <1>3, <2>1, <2>2
  <2>3. CASE To(w, [e EXCEPT !.copy = m, !.at = "store"])
    <3>1. [e EXCEPT !.copy = m, !.at = "store"].at = "store"
      BY <1>0 DEF Shape
    <3> QED BY <1>1, <1>2, <2>1, <2>3, <3>1
  <2>4. CASE /\ To(w, [e EXCEPT !.copy = m, !.at = "create"])
             /\ m.event = "message.created" /\ m.event # None
    <3>1. LET f == [e EXCEPT !.copy = m, !.at = "create"]
          IN  f.at = "create" /\ Same(e, f) /\ f.k = e.k /\ f.late = e.late
      BY <1>0 DEF Shape, Same
    <3>2. eval'[w].at = "create" /\ Action(w)' = Action(w) /\ eval'[w].late = eval[w].late
      BY <1>1, <2>4, <3>1, ActionSteps
    <3>3. Action(w).type \in Messaging
      BY <2>4, MessageMutations
    <3>4. w \in Granted' => w \in Granted
      BY <2>1, <3>2 DEF Granted
    <3> QED BY <2>1, <3>2, <3>3, <3>4 DEF Spend
  <2> QED BY <2>1, <2>2, <2>3, <2>4
<1>12. CASE Create(w)
  <2>1. /\ e.at = "create" /\ UNCHANGED <<budget, torn>> /\ To(w, [e EXCEPT !.at = "store"])
        /\ counted' = IF e.late THEN counted ELSE counted + 1
    BY <1>12 DEF Create, At, Run
  <2>2. [e EXCEPT !.at = "store"].at = "store"
    BY <1>0 DEF Shape
  <2> QED BY <1>1, <2>1, <2>2 DEF Spend
<1>13. CASE NextDeal(w)
  <2>0. /\ UNCHANGED <<budget, counted, torn>>
        /\ eval' = eval \/ \E ds : To(w, [e EXCEPT !.deals = ds])
    BY <1>13 DEF NextDeal, ghosts
  <2>1. CASE eval' = eval
    BY <2>0, <2>1 DEF Spend, Same
  <2>2. ASSUME NEW ds, To(w, [e EXCEPT !.deals = ds]) PROVE Spend(w)
    <3>1. LET f == [e EXCEPT !.deals = ds]
          IN  f.at = e.at /\ Same(e, f) /\ f.k = e.k /\ f.late = e.late
      BY <1>0 DEF Shape, Same
    <3> QED BY <1>1, <2>0, <2>2, <3>1 DEF Spend
  <2> QED BY <2>0, <2>1, <2>2
<1>14. CASE Fail(w)
  <2>1. To(w, Idle) /\ torn' = (torn \/ e.at = "expire") /\ UNCHANGED <<budget, counted>>
    BY <1>14 DEF Fail, At
  <2> QED BY <1>1, <1>3, <2>1 DEF Spend
<1> QED BY <1>6, <1>7, <1>8, <1>9, <1>10, <1>11, <1>12, <1>13, <1>14 DEF Evaluate

\* Fewer permissions, and a count that is not smaller, keep the budget.
LEMMA SparedLess ==
    ASSUME Fused, Spared, outage => outage', Pledged' \subseteq Pledged, counted' = counted,
           budget'.n \in Nat, budget.n <= budget'.n
    PROVE  Spared'
<1>1. IsFiniteSet(Pledged) /\ counted \in Nat /\ budget.n \in Nat
  BY DEF Spared, Fused
<1>2. /\ IsFiniteSet(Pledged') /\ Cardinality(Pledged') <= Cardinality(Pledged)
      /\ Cardinality(Pledged) \in Nat /\ Cardinality(Pledged') \in Nat
  BY <1>1, FS_Subset, FS_CardinalityType
<1>3. ASSUME ~outage'
      PROVE  /\ counted + Cardinality(Pledged) <= budget.n
             /\ counted + Cardinality(Pledged) <= BudgetMax
  BY <1>3 DEF Spared
<1>4. ASSUME NEW p \in Nat, NEW q \in Nat, q <= p, NEW n \in Nat, NEW m \in Nat, n <= m,
             NEW x \in Nat, x + p <= n, x + p <= BudgetMax
      PROVE  x + q <= m /\ x + q <= BudgetMax
  BY <1>4, AutomationAssumption
<1>5. ~outage' => /\ counted' + Cardinality(Pledged') <= budget'.n
                  /\ counted' + Cardinality(Pledged') <= BudgetMax
  BY <1>1, <1>2, <1>3, <1>4
<1> QED BY <1>1, <1>2, <1>5 DEF Spared

\* Every step keeps the budget.
LEMMA BudgetSteps ==
    Shaped /\ Fused /\ Sending /\ Spared /\ [Next]_vars => Fused' /\ Sending' /\ Spared'
<1> SUFFICES ASSUME Shaped, Fused, Sending, Spared, [Next]_vars
             PROVE  Fused' /\ Sending' /\ Spared'
  OBVIOUS
<1>a. outage => outage'
  BY DEF Next, MessageArrives, AgentCloses, AgentResolves, AgentReopens, ManageRule,
     UserWorks, Happens, WindowEnds, ClaimEnds, Evaluate, Take, FirstHydrate, Rehydrate, Hydrate, Claim,
     RedisDown, Act, Incr, Expire, Load, Create, Store, FindDeals, NextDeal, Moved, Fail,
     vars, ghosts
<1>b. budget.n \in Nat /\ budget.expires \in BOOLEAN
  BY DEF Fused
<1>1. ASSUME UNCHANGED <<eval, budget, counted, torn>> PROVE Fused' /\ Sending' /\ Spared'
  <2>1. Expirers' = Expirers /\ Pledged' = Pledged
    BY <1>1 DEF Expirers, Pledged, Granted, At, Action
  <2>2. Fused'
    BY <1>1, <2>1 DEF Fused
  <2>3. Sending'
    BY <1>1 DEF Sending, At, Action
  <2>4. Spared'
    BY <1>a, <1>b, <1>1, <2>1, SparedLess
  <2> QED BY <2>2, <2>3, <2>4
<1>2. CASE WindowEnds
  <2>1. /\ budget.expires /\ budget' = [n |-> 0, expires |-> FALSE] /\ counted' = 0
        /\ torn' = torn
    BY <1>2 DEF WindowEnds
  <2>2. Expirers = {}
    BY <2>1 DEF Fused
  <2>3. \A w \in Workers : /\ eval'[w].at = eval[w].at /\ Action(w)' = Action(w)
                           /\ eval[w].at \in {"load", "create"} /\ Action(w).type \in Messaging
                                => eval'[w].late
    BY <1>2, WindowSteps, ActionSteps
  <2>4. Expirers' = {}
    BY <2>2, <2>3 DEF Expirers, At
  <2>5. Granted' = {}
    BY <2>3 DEF Granted
  <2>6. Fused'
    BY <2>1, <2>4 DEF Fused
  <2>7. Sending'
    BY <2>3 DEF Sending, At
  <2>8. Pledged' = {}
    BY <2>4, <2>5 DEF Pledged
  <2>9. /\ IsFiniteSet(Pledged') /\ Cardinality(Pledged') = 0
    BY <2>8, FS_EmptySet
  <2>10. Spared'
    BY <2>1, <2>9, AutomationAssumption DEF Spared
  <2> QED BY <2>6, <2>7, <2>10
<1>3. ASSUME NEW w \in Workers, Evaluate(w) PROVE Fused' /\ Sending' /\ Spared'
  <2> DEFINE e == eval[w]
             f == eval'[w]
  <2>1. \A v \in Workers \ {w} : eval'[v] = eval[v] /\ Action(v)' = Action(v)
    BY <1>3, TurnSteps DEF Turn, Action
  <2>2. /\ \A v \in Workers \ {w} : (v \in Expirers' <=> v \in Expirers)
                                     /\ (v \in Granted' <=> v \in Granted)
        /\ w \in Expirers <=> e.at = "expire"
        /\ w \in Expirers' <=> f.at = "expire"
        /\ w \in Granted => e.at \in {"load", "create"}
        /\ w \in Granted' => f.at \in {"load", "create"}
        /\ Expirers \subseteq Workers /\ Expirers' \subseteq Workers
        /\ Granted \subseteq Workers /\ Granted' \subseteq Workers
    BY <2>1 DEF Expirers, Granted, At
  <2>3. ASSUME f.at = "create" => Action(w)'.type \in Messaging PROVE Sending'
    BY <2>1, <2>3 DEF Sending, At
  <2>4. Pledged' \subseteq Pledged \cup {w}
    BY <2>2 DEF Pledged
  <2>5. CASE /\ Incr(w) /\ e.at = "incr" /\ budget' = [budget EXCEPT !.n = budget.n + 1]
             /\ f.at = "expire" <=> budget.n + 1 = 1
             /\ f.at = "load" => budget.n + 1 <= BudgetMax
             /\ f.at # "create" /\ UNCHANGED <<counted, torn>>
    <3>1. /\ budget' \in [n : Nat, expires : BOOLEAN] /\ budget'.n = budget.n + 1
          /\ budget'.expires = budget.expires
      BY <2>5 DEF Fused
    <3>2. (f.at = "expire" <=> budget.n = 0) /\ budget.n + 1 > 0 /\ budget.n <= budget.n + 1
      BY <1>b, <2>5
    <3>3. w \notin Expirers /\ w \notin Granted
      BY <2>2, <2>5
    <3>4. Fused'
      <4>1. CASE budget.n = 0
        <5>1. Expirers = {} /\ ~budget.expires
          BY <4>1 DEF Fused
        <5>2. Expirers' = {w}
          BY <2>2, <3>2, <4>1, <5>1
        <5> QED BY <3>1, <3>2, <5>1, <5>2 DEF Fused
      <4>2. CASE budget.n # 0
        <5>1. Expirers' = Expirers
          BY <2>2, <3>2, <3>3, <4>2
        <5>2. budget.n > 0
          BY <1>b, <4>2
        <5>3. budget'.n # 0
          BY <1>b, <3>1
        <5> QED BY <2>5, <3>1, <5>1, <5>2, <5>3 DEF Fused
      <4> QED BY <4>1, <4>2
    <3>5. Spared'
      <4>1. CASE w \notin Pledged'
        <5>1. Pledged' \subseteq Pledged
          BY <2>4, <4>1
        <5> QED BY <1>a, <1>b, <2>5, <3>1, <3>2, <5>1, SparedLess
      <4>2. CASE w \in Pledged'
        <5>1. w \notin Pledged
          BY <3>3 DEF Pledged
        <5>2. budget.n + 1 <= BudgetMax
          <6>1. CASE f.at = "expire"
            <7>1. BudgetMax # 0
              BY <2>2, <4>2, <6>1 DEF Pledged
            <7> QED BY <3>2, <6>1, <7>1, AutomationAssumption
          <6>2. CASE f.at # "expire"
            <7>1. f.at = "load"
              BY <2>2, <2>5, <4>2, <6>2 DEF Pledged
            <7> QED BY <2>5, <7>1
          <6> QED BY <6>1, <6>2
        <5>3. IsFiniteSet(Pledged) /\ counted \in Nat
          BY DEF Spared
        <5>4. /\ IsFiniteSet(Pledged \cup {w})
              /\ Cardinality(Pledged \cup {w}) = Cardinality(Pledged) + 1
          BY <5>1, <5>3, FS_AddElement
        <5>5. /\ IsFiniteSet(Pledged')
              /\ Cardinality(Pledged') <= Cardinality(Pledged) + 1
              /\ Cardinality(Pledged') \in Nat /\ Cardinality(Pledged) \in Nat
          BY <2>4, <5>3, <5>4, FS_Subset, FS_CardinalityType
        <5>6. ASSUME NEW p \in Nat, NEW q \in Nat, q <= p + 1, NEW n \in Nat,
                     NEW x \in Nat, x + p <= n, n + 1 <= BudgetMax
              PROVE  x + q <= n + 1 /\ x + q <= BudgetMax
          BY <5>6, AutomationAssumption
        <5>7. ~outage' => counted + Cardinality(Pledged) <= budget.n
          BY <1>a DEF Spared
        <5>8. ~outage' => /\ counted + Cardinality(Pledged') <= budget.n + 1
                          /\ counted + Cardinality(Pledged') <= BudgetMax
          BY <1>b, <5>2, <5>3, <5>5, <5>6, <5>7
        <5> QED BY <2>5, <3>1, <5>3, <5>5, <5>8 DEF Spared
      <4> QED BY <4>1, <4>2
    <3> QED BY <2>3, <2>5, <3>4, <3>5
  <2>6. CASE /\ e.at = "expire" /\ budget' = [budget EXCEPT !.expires = TRUE]
             /\ f.at \notin {"expire", "create"} /\ (f.at = "load" => BudgetMax # 0)
             /\ UNCHANGED <<counted, torn>>
    <3>1. /\ budget' \in [n : Nat, expires : BOOLEAN] /\ budget'.n = budget.n
          /\ budget'.expires
      BY <2>6 DEF Fused
    <3>2. w \in Expirers /\ w \notin Expirers'
      BY <2>2, <2>6
    <3>3. Expirers' = {}
      BY <2>2, <3>2 DEF Fused
    <3>4. budget.n # 0
      BY <3>2 DEF Fused
    <3>5. Fused'
      BY <3>1, <3>3, <3>4 DEF Fused
    <3>6. Pledged' \subseteq Pledged
      BY <2>2, <2>4, <2>6, <3>2 DEF Pledged
    <3>7. budget.n <= budget'.n
      BY <1>b, <3>1
    <3> QED BY <1>a, <2>3, <2>6, <3>1, <3>5, <3>6, <3>7, SparedLess
  <2>12. CASE /\ e.at = "expire" /\ torn' /\ UNCHANGED <<budget, counted>>
              /\ f.at \notin {"expire", "create"} /\ (f.at = "load" => BudgetMax # 0)
    <3>1. w \in Expirers /\ w \notin Expirers'
      BY <2>2, <2>12
    <3>2. Expirers' = {}
      BY <2>2, <3>1 DEF Fused
    <3>3. Fused'
      BY <2>12, <3>1, <3>2 DEF Fused
    <3>4. Pledged' \subseteq Pledged
      BY <2>2, <2>4, <2>12, <3>1 DEF Pledged
    <3> QED BY <1>a, <1>b, <2>3, <2>12, <3>3, <3>4, SparedLess
  <2>13. CASE /\ e.at = "incr" /\ f.at = "load" /\ outage'
              /\ budget' = [budget EXCEPT !.n = budget.n + 1]
              /\ torn' = (torn \/ budget.n = 0) /\ UNCHANGED counted
    <3>1. /\ budget' \in [n : Nat, expires : BOOLEAN] /\ budget'.n = budget.n + 1
          /\ budget'.expires = budget.expires
      BY <2>13 DEF Fused
    <3>2. Expirers' = Expirers
      BY <2>2, <2>13
    <3>3. budget'.n # 0 /\ (budget.n = 0 \/ budget.n > 0)
      BY <1>b, <3>1
    <3>4. Fused'
      BY <2>13, <3>1, <3>2, <3>3 DEF Fused
    <3>5. IsFiniteSet(Pledged) /\ counted \in Nat
      BY DEF Spared
    <3>6. IsFiniteSet(Pledged \cup {w})
      BY <3>5, FS_AddElement
    <3>7. IsFiniteSet(Pledged')
      BY <2>4, <3>6, FS_Subset
    <3>8. Spared'
      BY <2>13, <3>5, <3>7 DEF Spared
    <3> QED BY <2>3, <2>13, <3>4, <3>8
  <2>7. CASE /\ e.at = "create" /\ f.at = "store" /\ UNCHANGED <<budget, torn>>
             /\ counted' = IF e.late THEN counted ELSE counted + 1
    <3>1. Expirers' = Expirers
      BY <2>2, <2>7
    <3>2. Fused'
      BY <2>7, <3>1 DEF Fused
    <3>3. w \notin Pledged' /\ Pledged' \subseteq Pledged \ {w}
      BY <2>2, <2>4, <2>7 DEF Pledged
    <3>4. CASE e.late
      BY <1>a, <1>b, <2>3, <2>7, <3>2, <3>3, <3>4, SparedLess
    <3>5. CASE ~e.late
      <4>1. w \in Pledged
        BY <2>7, <3>5 DEF Pledged, Granted, Sending, At
      <4>2. IsFiniteSet(Pledged) /\ counted \in Nat
        BY DEF Spared
      <4>3. /\ IsFiniteSet(Pledged \ {w})
            /\ Cardinality(Pledged \ {w}) = Cardinality(Pledged) - 1
        BY <4>1, <4>2, FS_RemoveElement
      <4>4. /\ IsFiniteSet(Pledged')
            /\ Cardinality(Pledged') <= Cardinality(Pledged) - 1
            /\ Cardinality(Pledged') \in Nat /\ Cardinality(Pledged) \in Nat
        BY <3>3, <4>2, <4>3, FS_Subset, FS_CardinalityType
      <4>5. ASSUME NEW p \in Nat, NEW q \in Nat, q <= p - 1, NEW n \in Nat,
                   NEW x \in Nat, x + p <= n, x + p <= BudgetMax
            PROVE  x + 1 + q <= n /\ x + 1 + q <= BudgetMax
        BY <4>5, AutomationAssumption
      <4>6. ~outage' => /\ counted + Cardinality(Pledged) <= budget.n
                        /\ counted + Cardinality(Pledged) <= BudgetMax
        BY <1>a DEF Spared
      <4>7. ~outage' => /\ counted + 1 + Cardinality(Pledged') <= budget.n
                        /\ counted + 1 + Cardinality(Pledged') <= BudgetMax
        BY <1>b, <4>2, <4>4, <4>5, <4>6
      <4>8. counted' = counted + 1 /\ counted' \in Nat /\ budget' = budget
        BY <2>7, <3>5, <4>2
      <4>9. Spared'
        BY <4>4, <4>7, <4>8 DEF Spared
      <4> QED BY <2>3, <2>7, <3>2, <4>9
    <3> QED BY <3>4, <3>5
  <2>8. CASE f.at = "idle" /\ torn' = (torn \/ e.at = "expire") /\ UNCHANGED <<budget, counted>>
    <3>1. Expirers' = Expirers \ {w} /\ Pledged' \subseteq Pledged
      BY <2>2, <2>4, <2>8 DEF Pledged
    <3>2. budget.n > 0 => budget.expires \/ torn' \/ Expirers' # {}
      BY <2>2, <2>8, <3>1 DEF Fused
    <3>3. Fused'
      BY <2>8, <3>1, <3>2 DEF Fused
    <3> QED BY <1>a, <1>b, <2>3, <2>8, <3>1, <3>3, SparedLess
  <2>9. CASE /\ e.at # "expire" /\ f.at # "expire" /\ UNCHANGED <<budget, counted, torn>>
             /\ w \in Granted' => w \in Granted \/ outage'
             /\ f.at = "create" => Action(w)'.type \in Messaging
    <3>1. Expirers' = Expirers
      BY <2>2, <2>9
    <3>2. Fused'
      BY <2>9, <3>1 DEF Fused
    <3>3. CASE outage'
      <4>1. IsFiniteSet(Pledged) /\ counted \in Nat
        BY DEF Spared
      <4>2. IsFiniteSet(Pledged \cup {w})
        BY <4>1, FS_AddElement
      <4>3. IsFiniteSet(Pledged')
        BY <2>4, <4>2, FS_Subset
      <4>4. Spared'
        BY <2>9, <3>3, <4>1, <4>3 DEF Spared
      <4> QED BY <2>3, <2>9, <3>2, <4>4
    <3>4. CASE ~outage'
      <4>1. Pledged' \subseteq Pledged
        BY <2>2, <2>9, <3>1, <3>4 DEF Pledged
      <4> QED BY <1>a, <1>b, <2>3, <2>9, <3>2, <4>1, SparedLess
    <3> QED BY <3>3, <3>4
  <2>10. CASE /\ f.at = e.at /\ Same(e, f) /\ f.k = e.k /\ f.late = e.late
              /\ UNCHANGED <<budget, counted, torn>>
    <3>1. Action(w)' = Action(w)
      BY <2>10, ActionSteps
    <3>2. Expirers' = Expirers
      BY <2>2, <2>10
    <3>3. w \in Granted' <=> w \in Granted
      BY <2>10, <3>1 DEF Granted
    <3>4. Pledged' \subseteq Pledged
      BY <2>2, <3>2, <3>3 DEF Pledged
    <3>5. Fused'
      BY <2>10, <3>2 DEF Fused
    <3>6. Sending'
      BY <2>3, <2>10, <3>1 DEF Sending, At
    <3> QED BY <1>a, <1>b, <2>10, <3>4, <3>5, <3>6, SparedLess
  <2>11. Spend(w)
    BY <1>3, SpendSteps
  <2> QED BY <2>5, <2>6, <2>7, <2>8, <2>9, <2>10, <2>11, <2>12, <2>13 DEF Spend
<1>4. CASE ~WindowEnds /\ ~\E w \in Workers : Evaluate(w)
  <2>1. UNCHANGED <<eval, budget, counted, torn>>
    BY <1>4 DEF Next, MessageArrives, AgentCloses, AgentResolves, AgentReopens, ManageRule,
       UserWorks, Happens, ClaimEnds, vars, rules, ghosts
  <2> QED BY <1>1, <2>1
<1> QED BY <1>2, <1>3, <1>4

\* The budget is a fuse that trips and comes back: while Redis answers, a window
\* lets at most BudgetMax messages through however many workers send, and a
\* count that was started is going to expire unless its EXPIRE failed or was never
\* reached (budget.go, AllowAutomationMessage).
THEOREM BudgetIsKept == Spec => []BudgetHolds
<1>1. Init => Fused /\ Sending /\ Spared
  <2> SUFFICES ASSUME Init PROVE Fused /\ Sending /\ Spared
    OBVIOUS
  <2>1. /\ \A w \in Workers : eval[w].at = "idle"
        /\ budget = [n |-> 0, expires |-> FALSE] /\ counted = 0
    BY DEF Init, Idle
  <2>2. Expirers = {} /\ Granted = {}
    BY <2>1 DEF Expirers, Granted, At
  <2>3. Pledged = {}
    BY <2>2 DEF Pledged
  <2>4. IsFiniteSet(Pledged) /\ Cardinality(Pledged) = 0
    BY <2>3, FS_EmptySet
  <2>5. Fused
    BY <2>1, <2>2 DEF Fused
  <2>6. Spared
    BY <2>1, <2>4, AutomationAssumption DEF Spared
  <2> QED BY <2>1, <2>5, <2>6 DEF Sending, At
<1>2. Fused /\ Spared => BudgetHolds
  <2> SUFFICES ASSUME Fused, Spared PROVE BudgetHolds
    OBVIOUS
  <2>1. IsFiniteSet(Pledged) /\ counted \in Nat
    BY DEF Spared
  <2>2. Cardinality(Pledged) \in Nat
    BY <2>1, FS_CardinalityType
  <2>3. ASSUME NEW p \in Nat, NEW x \in Nat, x + p <= BudgetMax PROVE x <= BudgetMax
    BY <2>3, AutomationAssumption
  <2>4. ~outage => counted <= BudgetMax
    BY <2>1, <2>2, <2>3 DEF Spared
  <2>5. budget.n > 0 => budget.expires \/ torn \/ \E w \in Workers : At(w, "expire")
    BY DEF Fused, Expirers
  <2> QED BY <2>4, <2>5 DEF BudgetHolds
<1> QED BY <1>1, <1>2, BudgetSteps, TracedHold, PTL DEF Spec
=============================================================================
