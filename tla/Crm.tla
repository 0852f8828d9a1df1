-------------------------------- MODULE Crm ---------------------------------
(***************************************************************************)
(* The sales funnel: pipelines and their stages                              *)
(* (domain/pipelines/service/pipeline_service.go) and the deals that move    *)
(* across them (domain/deals/service/deal_service.go).                       *)
(*                                                                          *)
(* Deals and pipelines are documents of two collections, each stored whole   *)
(* from a copy loaded earlier; no operation takes a lock.  What a request    *)
(* does between its first read and its last store is interleaved with the    *)
(* other requests, and with the automation rules of module Automation.       *)
(***************************************************************************)
EXTENDS Naturals, Sequences, FiniteSets, SequencesExt

CONSTANTS Users,        \* who changes deals and pipelines at the same time
          Gone,         \* no document, no request
          Totals,       \* totals of a product line, and values typed by hand
          MaxDeals, MaxPipes, MaxStages

ASSUME CrmAssumption ==
    /\ Totals \subseteq Nat
    /\ MaxDeals \in Nat /\ MaxPipes \in Nat \ {0} /\ MaxStages \in Nat \ {0, 1}

VARIABLES deals,       \* deals in order of creation, Gone when deleted
          pipes,       \* pipelines in order of creation, Gone when deleted
          stageIds,    \* stage ids given so far
          req,         \* the request each user has under way
          overtaken    \* pipelines whose stages and deals were changed by two
                       \* operations that overlapped, or that were deleted

crm == <<deals, pipes, stageIds, req, overtaken>>

-----------------------------------------------------------------------------
(* The documents.  A stage ends a deal as won, lost, or not at all.          *)

Ends == {"won", "lost"}

Stage == [id : Nat, ends : SUBSET Ends]

Deal == [pipe : Nat, stage : Nat, status : {"open", "won", "lost"}, closed : BOOLEAN,
         value : Nat, items : Seq(Nat), linked : BOOLEAN]

Pipe == [default : BOOLEAN, stages : Seq(Stage)]

\* A pipeline is never taken for one that is not there.
ASSUME GoneAssumption == Gone \notin Pipe

IdsOf(p) == {p.stages[i].id : i \in DOMAIN p.stages}

StageOf(p, id) == p.stages[CHOOSE i \in DOMAIN p.stages : p.stages[i].id = id]

\* Validate: no stage ends both ways, and at most one stage ends each way.
Valid(p) ==
    /\ \A i \in DOMAIN p.stages : p.stages[i].ends # Ends
    /\ \A e \in Ends : Cardinality({i \in DOMAIN p.stages : e \in p.stages[i].ends}) <= 1

\* Mutation of ApplyStage: a deal that is reopened keeps its closing date.
ApplyStageKeepsDate(d, s) ==
    [d EXCEPT !.stage = s.id,
              !.status = IF "won" \in s.ends THEN "won" ELSE IF "lost" \in s.ends THEN "lost" ELSE "open",
              !.closed = @ \/ s.ends # {}]

ApplyStage(d, s) ==
    [d EXCEPT !.stage = s.id,
              !.status = IF "won" \in s.ends THEN "won" ELSE IF "lost" \in s.ends THEN "lost" ELSE "open",
              !.closed = s.ends # {}]

\* RecalcValue
Sum(items) == FoldLeft(+, 0, items)
Recalc(d) == [d EXCEPT !.value = Sum(d.items)]

NewDeal(p, v) == [pipe |-> p, stage |-> 0, status |-> "open", closed |-> FALSE,
                  value |-> v, items |-> <<>>, linked |-> FALSE]

\* MarkLost: into the lost stage when the pipeline has one.
Lost(d, p) ==
    LET ending == {s \in IdsOf(p) : "lost" \in StageOf(p, s).ends}
    IN  IF ending = {} THEN [d EXCEPT !.status = "lost", !.closed = TRUE]
        ELSE ApplyStage(d, StageOf(p, CHOOSE s \in ending : TRUE))

\* Default: the pipeline flagged so, else the first in the list.
Default ==
    LET there == {p \in DOMAIN pipes : pipes[p] # Gone}
    IN  IF \E p \in there : pipes[p].default
        THEN {p \in there : pipes[p].default}
        ELSE there

-----------------------------------------------------------------------------
\* The tenant has one pipeline, with a first stage and a won stage, and a deal
\* made from the conversation.
CrmInit ==
    /\ pipes = <<[default |-> TRUE, stages |-> <<[id |-> 1, ends |-> {}], [id |-> 2, ends |-> {"won"}]>>]>>
    /\ deals = <<[NewDeal(1, 0) EXCEPT !.stage = 1, !.linked = TRUE]>>
    /\ stageIds = 2
    /\ req = [u \in Users |-> Gone]
    /\ overtaken = {}

\* A request that holds copies of deal d and pipeline p and has yet to make
\* `calls'.  `behind' tells that stages or deals of the pipeline changed since.
Request(calls, d, deal, p, pipe, arg) ==
    [calls |-> calls, d |-> d, deal |-> deal, p |-> p, pipe |-> pipe, arg |-> arg, behind |-> FALSE]

Ask(u, r) == req[u] = Gone /\ req' = [req EXCEPT ![u] = r]

Calls(u, call) == req[u] # Gone /\ Head(req[u].calls) = call

Done(r) == IF Len(r.calls) = 1 THEN Gone ELSE [r EXCEPT !.calls = Tail(@)]

\* u's request goes on as r, and every other one that relies on pipeline p
\* falls behind.
Moves(u, r, p) ==
    req' = [v \in Users |->
              IF v = u THEN r
              ELSE IF req[v] # Gone /\ req[v].p = p THEN [req[v] EXCEPT !.behind = TRUE]
              ELSE req[v]]

Goes(u, r) == req' = [req EXCEPT ![u] = r]

Overtake(u) == overtaken' = IF req[u].behind THEN overtaken \cup {req[u].p} ELSE overtaken

-----------------------------------------------------------------------------
(* Deals.                                                                    *)

\* resolvePipelineStage: the pipeline that was named, else the default one; its
\* stage that was named, else its first.
Resolved(p, named) ==
    IF named THEN IdsOf(p) ELSE {Head(p.stages).id}

\* Create, and CreateFromConversation, which names nothing and links at the end.
CreateDeal(u) ==
    \E p \in DOMAIN pipes, v \in Totals, calls \in {<<"Insert">>, <<"Insert", "Link", "StoreDeal">>} :
        /\ pipes[p] # Gone
        /\ pipes[p].stages # <<>>
        /\ Len(deals) < MaxDeals
        /\ Len(calls) = 1 \/ p \in Default
        /\ \E s \in Resolved(pipes[p], Len(calls) = 1) :
              Ask(u, Request(calls, 0, ApplyStage(NewDeal(p, v), StageOf(pipes[p], s)), p, Gone, 0))
        /\ UNCHANGED <<deals, pipes, stageIds, overtaken>>

Insert(u) ==
    /\ Calls(u, "Insert")
    /\ deals' = Append(deals, req[u].deal)
    /\ Moves(u, Done([req[u] EXCEPT !.d = Len(deals) + 1]), req[u].p)
    /\ Overtake(u)
    /\ UNCHANGED <<pipes, stageIds>>

\* LinkConversation, on its own or at the end of CreateFromConversation.
Link(u) ==
    /\ Calls(u, "Link")
    /\ LET d == deals[req[u].d]
       IN  Goes(u, IF d = Gone \/ d.linked THEN Gone
                   ELSE Done([req[u] EXCEPT !.deal = [d EXCEPT !.linked = TRUE]]))
    /\ UNCHANGED <<deals, pipes, stageIds, overtaken>>

\* Update and AssignTo: a value typed by hand is ignored while there are
\* product lines.
Typed(d) == {IF d.items = <<>> THEN [d EXCEPT !.value = v] ELSE d : v \in Totals}

\* AddItem, UpdateItem and RemoveItem.
Changed(items) ==
    {Append(items, t) : t \in Totals}
      \cup UNION {{RemoveAt(items, i)} \cup {[items EXCEPT ![i] = t] : t \in Totals} : i \in DOMAIN items}

Lines(d) == {Recalc([d EXCEPT !.items = items]) : items \in Changed(d.items)}

\* AddTag and RemoveTag change nothing that is kept here.
Edits(d) == {d} \cup Typed(d) \cup Lines(d)

EditDeal(u) ==
    \E i \in DOMAIN deals :
        /\ deals[i] # Gone
        /\ \E d \in Edits(deals[i]) :
              Len(d.items) <= 1 /\ Ask(u, Request(<<"StoreDeal">>, i, d, d.pipe, Gone, 0))
        /\ UNCHANGED <<deals, pipes, stageIds, overtaken>>

\* MoveStage and MarkLost (stage 0) load the deal, then its pipeline.
MoveStage(u) ==
    \E i \in DOMAIN deals, s \in 0..stageIds :
        /\ deals[i] # Gone
        /\ Ask(u, Request(<<"Enter", "StoreDeal">>, i, deals[i], deals[i].pipe, Gone, s))
        /\ UNCHANGED <<deals, pipes, stageIds, overtaken>>

Enter(u) ==
    LET r == req[u] p == pipes[r.p]
    IN  /\ Calls(u, "Enter")
        /\ Goes(u, IF p = Gone \/ (r.arg # 0 /\ r.arg \notin IdsOf(p)) THEN Gone
                   ELSE Done([r EXCEPT !.deal = IF r.arg = 0 THEN Lost(@, p)
                                                ELSE ApplyStage(@, StageOf(p, r.arg))]))
        /\ UNCHANGED <<deals, pipes, stageIds, overtaken>>

\* repo.Update: nothing is stored under a deal that was deleted meanwhile.
StoreDeal(u) ==
    /\ Calls(u, "StoreDeal")
    /\ deals' = [deals EXCEPT ![req[u].d] = IF @ = Gone THEN Gone ELSE req[u].deal]
    /\ Moves(u, IF deals[req[u].d] = Gone THEN Gone ELSE Done(req[u]), req[u].p)
    /\ Overtake(u)
    /\ UNCHANGED <<pipes, stageIds>>

DeleteDeal(u) ==
    \E i \in DOMAIN deals :
        /\ req[u] = Gone /\ deals[i] # Gone
        /\ deals' = [deals EXCEPT ![i] = Gone]
        /\ UNCHANGED <<pipes, stageIds, req, overtaken>>

-----------------------------------------------------------------------------
(* Pipelines.                                                                *)

\* Create, with the stages that were given, counts the tenant's pipelines before
\* it inserts one.
CreatePipe(u) ==
    /\ Len(pipes) < MaxPipes
    /\ \E n \in 0..(MaxStages - stageIds) :
         \E ends \in [1..n -> SUBSET Ends] :
            LET p == [default |-> \A q \in DOMAIN pipes : pipes[q] = Gone,
                      stages |-> [i \in 1..n |-> [id |-> stageIds + i, ends |-> ends[i]]]]
            IN  /\ Valid(p)
                /\ Ask(u, Request(<<"InsertPipe">>, 0, Gone, 0, p, 0))
                /\ stageIds' = stageIds + n
    /\ UNCHANGED <<deals, pipes, overtaken>>

InsertPipe(u) ==
    /\ Calls(u, "InsertPipe")
    /\ pipes' = Append(pipes, req[u].pipe)
    /\ Goes(u, Done(req[u]))
    /\ UNCHANGED <<deals, stageIds, overtaken>>

\* Update with is_default: first the flag of every other pipeline is cleared.
SetDefault(u) ==
    \E p \in DOMAIN pipes, flag \in BOOLEAN :
        /\ pipes[p] # Gone
        /\ Ask(u, Request(IF flag THEN <<"ClearDefault", "StorePipe">> ELSE <<"StorePipe">>,
                          0, Gone, p, [pipes[p] EXCEPT !.default = flag], 0))
        /\ UNCHANGED <<deals, pipes, stageIds, overtaken>>

ClearDefault(u) ==
    /\ Calls(u, "ClearDefault")
    /\ pipes' = [p \in DOMAIN pipes |->
                   IF p = req[u].p \/ pipes[p] = Gone THEN pipes[p]
                   ELSE [pipes[p] EXCEPT !.default = FALSE]]
    /\ Goes(u, Done(req[u]))
    /\ UNCHANGED <<deals, stageIds, overtaken>>

\* Delete takes a pipeline away whatever deals it holds.
DeletePipe(u) ==
    \E p \in DOMAIN pipes :
        /\ req[u] = Gone /\ pipes[p] # Gone
        /\ pipes' = [pipes EXCEPT ![p] = Gone]
        /\ overtaken' = overtaken \cup {p}
        /\ UNCHANGED <<deals, stageIds, req>>

\* mutateStages: AddStage, UpdateStage and ReorderStages.
AddStage(u) ==
    \E p \in DOMAIN pipes, ends \in SUBSET Ends :
        /\ pipes[p] # Gone /\ stageIds < MaxStages
        /\ LET n == [pipes[p] EXCEPT !.stages = Append(@, [id |-> stageIds + 1, ends |-> ends])]
           IN  Valid(n) /\ Ask(u, Request(<<"StorePipe">>, 0, Gone, p, n, 0))
        /\ stageIds' = stageIds + 1
        /\ UNCHANGED <<deals, pipes, overtaken>>

UpdateStage(u) ==
    \E p \in DOMAIN pipes, ends \in SUBSET Ends :
        /\ pipes[p] # Gone
        /\ \E i \in DOMAIN pipes[p].stages :
              LET n == [pipes[p] EXCEPT !.stages[i].ends = ends]
              IN  Valid(n) /\ Ask(u, Request(<<"StorePipe">>, 0, Gone, p, n, 0))
        /\ UNCHANGED <<deals, pipes, stageIds, overtaken>>

ReorderStages(u) ==
    \E p \in DOMAIN pipes :
        /\ pipes[p] # Gone
        /\ \E perm \in SetToSeqs({pipes[p].stages[i] : i \in DOMAIN pipes[p].stages}) :
              Ask(u, Request(<<"StorePipe">>, 0, Gone, p, [pipes[p] EXCEPT !.stages = perm], 0))
        /\ UNCHANGED <<deals, pipes, stageIds, overtaken>>

\* DeleteStage loads the pipeline, asks the deals, and stores it.
DeleteStage(u) ==
    \E p \in DOMAIN pipes :
        /\ pipes[p] # Gone
        /\ \E i \in DOMAIN pipes[p].stages :
              Ask(u, Request(<<"StageHasDeals", "StorePipe">>, 0, Gone, p,
                             [pipes[p] EXCEPT !.stages = RemoveAt(@, i)], pipes[p].stages[i].id))
        /\ UNCHANGED <<deals, pipes, stageIds, overtaken>>

\* Mutation of StageHasDeals: only open deals are counted.
StageHasDealsOpen(u) ==
    /\ Calls(u, "StageHasDeals")
    /\ Goes(u, IF \E i \in DOMAIN deals :
                     /\ deals[i] # Gone /\ deals[i].status = "open"
                     /\ deals[i].pipe = req[u].p /\ deals[i].stage = req[u].arg
               THEN Gone ELSE Done(req[u]))
    /\ UNCHANGED <<deals, pipes, stageIds, overtaken>>

StageHasDeals(u) ==
    /\ Calls(u, "StageHasDeals")
    /\ Goes(u, IF \E i \in DOMAIN deals :
                     deals[i] # Gone /\ deals[i].pipe = req[u].p /\ deals[i].stage = req[u].arg
               THEN Gone ELSE Done(req[u]))
    /\ UNCHANGED <<deals, pipes, stageIds, overtaken>>

StorePipe(u) ==
    /\ Calls(u, "StorePipe")
    /\ pipes' = [pipes EXCEPT ![req[u].p] = IF @ = Gone THEN Gone ELSE req[u].pipe]
    /\ Moves(u, Done(req[u]), req[u].p)
    /\ Overtake(u)
    /\ UNCHANGED <<deals, stageIds>>

\* The requests a user makes, and the calls of a request under way.
Requests(u, names) ==
    \/ "CreateDeal" \in names /\ CreateDeal(u)
    \/ "EditDeal" \in names /\ EditDeal(u)
    \/ "MoveStage" \in names /\ MoveStage(u)
    \/ "DeleteDeal" \in names /\ DeleteDeal(u)
    \/ "CreatePipe" \in names /\ CreatePipe(u)
    \/ "SetDefault" \in names /\ SetDefault(u)
    \/ "DeletePipe" \in names /\ DeletePipe(u)
    \/ "AddStage" \in names /\ AddStage(u)
    \/ "UpdateStage" \in names /\ UpdateStage(u)
    \/ "ReorderStages" \in names /\ ReorderStages(u)
    \/ "DeleteStage" \in names /\ DeleteStage(u)

Proceed(u) ==
    \/ Insert(u) \/ Link(u) \/ Enter(u) \/ StoreDeal(u)
    \/ InsertPipe(u) \/ ClearDefault(u) \/ StageHasDeals(u) \/ StorePipe(u)

-----------------------------------------------------------------------------
CrmTypeOK ==
    /\ \A i \in DOMAIN deals : deals[i] = Gone \/ deals[i] \in Deal
    /\ \A p \in DOMAIN pipes : pipes[p] = Gone \/ pipes[p] \in Pipe

\* A deal is consistent in itself whoever stored it last: it has a closing
\* date exactly while it is won or lost, and with product lines its value is
\* their sum, whatever value was typed by hand.
DealSound ==
    \A i \in DOMAIN deals : deals[i] # Gone =>
        /\ deals[i].closed <=> deals[i].status # "open"
        /\ deals[i].items # <<>> => deals[i].value = Sum(deals[i].items)

\* "The stage still has deals; move them before deleting": every card of the
\* board is in a column of its pipeline, unless operations on the pipeline and
\* its deals overlapped or the whole pipeline was deleted.
StagesKept ==
    \A i \in DOMAIN deals :
        deals[i] # Gone /\ deals[i].pipe \notin overtaken =>
            /\ pipes[deals[i].pipe] # Gone
            /\ deals[i].stage \in IdsOf(pipes[deals[i].pipe])
=============================================================================
