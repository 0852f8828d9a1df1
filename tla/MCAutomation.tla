---------------------------- MODULE MCAutomation ----------------------------
(* An instance of Automation, with Crm, for TLC. *)
EXTENDS Automation, TLC

CONSTANTS w1, w2, u1, u2, a1, s1

NoSectorOf == [q \in Queues |-> None]

Do(type, arg) == [type |-> type, arg |-> arg]
When(field, holds, value) == [field |-> field, holds |-> holds, value |-> value]
Rule(event, priority, conds, actions) ==
    [event |-> event, priority |-> priority, conds |-> conds, actions |-> actions]

MCRuleBook == <<
    Rule("message_created", 1, {}, <<Do("send_message", None)>>),
    Rule("message_created", 0, {When("status", TRUE, "new")},
         <<Do("assign_team", s1), Do("add_tag", "vip")>>),
    Rule("conversation_updated", 0, {When("tags", TRUE, "vip")}, <<Do("mark_pending", None)>>),
    Rule("conversation_closed", 0, {When("tags", FALSE, "vip")},
         <<Do("open_conversation", None), Do("send_attachment", None)>>),
    Rule("conversation_opened", 0, {When("agent", FALSE, a1)},
         <<Do("assign_agent", a1), Do("resolve_conversation", None)>>),
    Rule("conversation_resolved", 0, {},
         <<Do("remove_tag", "vip"), Do("remove_assigned_agent", None), Do("remove_assigned_team", None)>>),
    Rule("interactive_reply_received", 0, {},
         <<Do("move_deal_stage", [pipe |-> 1, stage |-> 2]), Do("send_webhook", None)>>),
    Rule("message_created", 1, {When("priority", TRUE, "normal")}, <<Do("change_priority", "high")>>) >>

Workload(rs, requests, users, evs, flts, lapses, manage) ==
    [rules |-> rs, requests |-> requests, maxUsers |-> users, maxEvents |-> evs, maxFaults |-> flts,
     maxLapses |-> lapses, manage |-> manage]

\* Messages against the budget, and against claims that run out; rules that change what other rules react to;
\* rules that move deals beside users; users on the funnel alone.
MCWorkloads ==
    {Workload({1}, {}, 0, 3, 1, 0, FALSE),
     Workload({1}, {}, 0, 1, 2, 1, FALSE),
     Workload({1, 2, 3}, {}, 0, 1, 1, 0, TRUE),
     Workload({4, 5, 6}, {}, 0, 2, 0, 0, FALSE),
     Workload({2, 8}, {}, 0, 2, 0, 0, FALSE),
     Workload({7}, {"MoveStage", "CreateDeal", "DeleteStage"}, 1, 1, 1, 0, FALSE),
     Workload({7}, {"EditDeal", "DeleteStage", "DeleteDeal"}, 1, 2, 0, 0, FALSE),
     Workload({}, {"MoveStage", "EditDeal", "DeleteDeal", "DeleteStage"}, 2, 0, 0, 0, FALSE),
     Workload({}, {"MoveStage", "DeleteStage", "UpdateStage"}, 2, 0, 0, 0, FALSE),
     Workload({}, {"CreateDeal", "AddStage", "DeleteStage", "ReorderStages"}, 2, 0, 0, 0, FALSE),
     Workload({}, {"CreateDeal", "CreatePipe", "SetDefault", "AddStage"}, 1, 0, 0, 0, FALSE),
     Workload({}, {"CreatePipe", "SetDefault", "DeletePipe"}, 2, 0, 0, 0, FALSE)}

Interchangeable == Permutations(Workers) \cup Permutations(Users \ Workers)
=============================================================================
