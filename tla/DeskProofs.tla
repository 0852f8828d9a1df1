----------------------------- MODULE DeskProofs -----------------------------
(***************************************************************************)
(* Proofs about Desk: for any workers, workloads and bounds, none of the    *)
(* operations of the conversation service, the SLA checks and the surveys   *)
(* harms a document that no stale store and no failure has spoiled, and no  *)
(* survey waits for a task that is not there.                               *)
(*                                                                          *)
(* All of them rest on one inductive invariant, `DeskOK': the documents are *)
(* well formed, every worker is somewhere in the plan of its operation with *)
(* the copies loaded that it needs there, and a copy that nobody stored     *)
(* since differs from the document by the operation's own change only.      *)
(* `OneHolder', `Moving', `AlertsInv' and `SnapInv' add to it what one      *)
(* survey, its progress, the alerts and the inbox row need.                 *)
(***************************************************************************)
EXTENDS Desk, SequenceTheorems, FiniteSetTheorems, WellFoundedInduction, TLAPS

-----------------------------------------------------------------------------
(* Where a worker may be.                                                  *)

\* What is left of a close when its store is next, without a note and with one.
ClosePlan == <<"StoreConv", "FindTrack", "StoreTrack", "FindResp", "CreateResp", "EnqueueSend">>
NotingPlan == <<"StoreConv", "LoadConv", "CreateMsg", "StoreConv", "FindTrack", "StoreTrack",
                "FindResp", "CreateResp", "EnqueueSend">>

\* The plan of the survey's task.
SurveyPlan == <<"FindSurvey", "LoadConv", "CreateMsg", "StoreConv", "StoreResp", "EnqueueExpire">>

\* The operations by what they load first.
Closes == {"Close", "CloseNoting", "CloseInactive"}
Surveys == {"SendSurvey", "Expire", "Submit"}
OnRow == {"Patch", "Tags", "MarkRead", "MarkUnread", "Reopen"}
OnMessage == {"Edit", "Delete"}

\* Operation o has the calls t left.
Left(o, t) ==
    \/ o \in OnRow \cup OnMessage \cup {"Note", "Inbound"} /\ t = <<"StoreConv">>
    \/ o \in {"Note", "Inbound"} /\ t = <<"CreateMsg", "StoreConv">>
    \/ o \in OnMessage /\ t \in {<<"FindMsg", "StoreMsg", "Refresh", "StoreConv">>,
                                 <<"StoreMsg", "Refresh", "StoreConv">>,
                                 <<"Refresh", "StoreConv">>}
    \/ o = "Receipt" /\ t = <<"StoreMsg">>
    \/ o = "Send" /\ t \in {<<"CreateMsg", "StoreConv", "FindTrack", "StoreTrack">>,
                            <<"StoreConv", "FindTrack", "StoreTrack">>,
                            <<"FindTrack", "StoreTrack">>, <<"StoreTrack">>}
    \/ o \in Closes /\ t \in {ClosePlan,
                              <<"FindTrack", "StoreTrack", "FindResp", "CreateResp", "EnqueueSend">>,
                              <<"StoreTrack", "FindResp", "CreateResp", "EnqueueSend">>,
                              <<"FindResp", "CreateResp", "EnqueueSend">>,
                              <<"CreateResp", "EnqueueSend">>, <<"EnqueueSend">>}
    \/ o = "CloseNoting" /\ t \in {NotingPlan,
                <<"LoadConv", "CreateMsg", "StoreConv", "FindTrack", "StoreTrack",
                  "FindResp", "CreateResp", "EnqueueSend">>,
                <<"CreateMsg", "StoreConv", "FindTrack", "StoreTrack",
                  "FindResp", "CreateResp", "EnqueueSend">>}
    \/ o = "Check" /\ t \in {<<"LoadConv", "Fire", "StoreTrack">>, <<"Fire", "StoreTrack">>,
                             <<"StoreTrack">>}
    \/ o = "SendSurvey" /\ t \in {SurveyPlan,
                                  <<"LoadConv", "CreateMsg", "StoreConv", "StoreResp", "EnqueueExpire">>,
                                  <<"CreateMsg", "StoreConv", "StoreResp", "EnqueueExpire">>,
                                  <<"StoreConv", "StoreResp", "EnqueueExpire">>,
                                  <<"StoreResp", "EnqueueExpire">>, <<"EnqueueExpire">>}
    \/ o = "Submit" /\ t = <<"FindSurvey", "StoreResp">>
    \/ o \in {"Expire", "Submit"} /\ t = <<"StoreResp">>

\* The calls, the next one of a run, and what a run is.
Calls == {"StoreConv", "LoadConv", "CreateMsg", "FindMsg", "StoreMsg", "Refresh", "FindTrack",
          "StoreTrack", "Fire", "FindResp", "CreateResp", "EnqueueSend", "FindSurvey",
          "StoreResp", "EnqueueExpire"}

Call(r) == Head(r.todo)

Runs == [op : Operations \cup {None}, todo : Seq(Calls), conv : Row \cup {None}, id : Nat,
         msg : Messages \cup {None}, track : Tracking \cup {None}, resp : Response \cup {None},
         at : Nat, behind : SUBSET Docs, tries : 0..MaxRetry]

\* The copies an operation has loaded, by how far it is: ms are the messages and
\* rs the responses that are stored.
Shape(r, ms, rs) ==
    /\ r.op \in OnRow \cup OnMessage \cup Closes \cup {"Send", "Note", "Inbound"} => r.conv # None
    /\ r.op = "SendSurvey" /\ Call(r) \notin {"FindSurvey", "LoadConv"} => r.conv # None
    /\ Call(r) \in {"FindSurvey", "LoadConv", "CreateMsg", "FindMsg"} \/ r.todo = NotingPlan =>
          r.msg = None
    /\ r.op \in OnRow \cup {"Close", "CloseInactive"} => r.msg = None
    /\ Call(r) \in {"StoreMsg", "Refresh"} => r.msg # None
    /\ Call(r) = "StoreConv" /\ r.op \in OnMessage \cup {"Send", "Note", "Inbound", "SendSurvey"} =>
          r.msg # None
    /\ r.todo = ClosePlan /\ r.op = "CloseNoting" => r.msg # None
    /\ r.op # "Check" /\ Call(r) \notin {"StoreTrack", "FindResp", "CreateResp", "EnqueueSend"} =>
          r.track = None
    /\ Call(r) = "StoreTrack" \/ r.op = "Check" => r.track # None
    /\ r.resp # None <=> r.op \in Surveys
    /\ r.msg = None => r.behind \cap {"msg", "timeline"} = {}
    /\ r.track = None => "track" \notin r.behind
    /\ r.op \in OnMessage \cup {"Receipt"} => r.id \in DOMAIN ms
    /\ r.op \in Surveys \/ Call(r) = "EnqueueSend" => r.id \in DOMAIN rs

\* A copy of the conversation c that is up to date differs from it by the
\* operation's own change.
ConvFresh(r, c) ==
    r.conv # None /\ "conv" \notin r.behind =>
        /\ r.msg = None \/ Call(r) \in {"StoreMsg", "Refresh"} => r.conv.last = c.last
        /\ r.op = "MarkUnread" => r.conv.unread = 1 /\ c.unread = 0
        /\ r.op = "Inbound" /\ Call(r) = "StoreConv" => r.conv.unread = c.unread + 1
        /\ r.op = "Inbound" /\ Call(r) # "StoreConv" => r.conv.unread = c.unread
        /\ r.op \notin {"MarkRead", "MarkUnread", "Inbound"} => r.conv.unread = c.unread

\* What an edit, a deletion and a receipt make of a message.
Changed(o, m, n) ==
    \/ o = "Edit" /\ n = [m EXCEPT !.edited = TRUE]
    \/ o = "Delete" /\ n = [m EXCEPT !.deleted = TRUE]
    \/ /\ o = "Receipt"
       /\ \E to \in Receipts : n = [m EXCEPT !.delivery = to]

\* So does a copy of a message.  Nobody changes who wrote it and when.
MsgFresh(r, ms) ==
    /\ Call(r) = "StoreMsg" =>
          /\ r.msg.by = ms[r.id].by /\ r.msg.at = ms[r.id].at
          /\ "msg" \notin r.behind => Changed(r.op, ms[r.id], r.msg)
    /\ Call(r) = "Refresh" /\ r.op = "Edit" /\ "msg" \notin r.behind => ms[r.id] = r.msg

\* A response is changed only while it waits.
RespFresh(r, rs) ==
    /\ r.op = "SendSurvey" => r.resp.status = "sent" /\ r.resp.sentAt
    /\ r.op = "Expire" => r.resp.status = "expired"
    /\ r.op = "Submit" => r.resp.status = "responded"
    /\ r.op \in Surveys /\ Call(r) # "EnqueueExpire" /\ "resp" \notin r.behind =>
          rs[r.id].status = "sent"

\* No copy of the tracking t takes back a flag, and none but a resolution
\* without a breach makes it `met'.
TrackFresh(r, t) ==
    /\ r.op = "Check" => r.track.status = "running"
    /\ "track" \notin r.behind =>
          /\ r.op = "Check" /\ Call(r) # "StoreTrack" => r.track = t
          /\ Call(r) = "StoreTrack" =>
                /\ t.warned \subseteq r.track.warned
                /\ t.breached \subseteq r.track.breached
                /\ r.op = "Check" => t.status = "running"
                /\ r.track.status = "met" => t.status = "met" \/ r.track.breached = {}

\* A worker is idle, or its run is all of this.
Good(r, c, ms, t, rs) ==
    \/ r = NoRun
    \/ /\ Left(r.op, r.todo) /\ Shape(r, ms, rs) /\ ConvFresh(r, c) /\ MsgFresh(r, ms)
       /\ RespFresh(r, rs) /\ TrackFresh(r, t)

\* The documents, and what is recorded about them.
StoreOK ==
    /\ conv \in Row
    /\ msgs \in Seq(Messages)
    /\ track \in Tracking
    /\ resps = <<>> \/ \E x \in Response : resps = <<x>>
    /\ tasks \subseteq [kind : {"send", "expire"}, id : DOMAIN resps, tries : 0..(MaxRetry + 1)]
    /\ clock \in Nat
    /\ unseen \in Nat
    /\ answered \subseteq DOMAIN resps
    /\ fired \in [Legs \X Kinds -> 0..2]
    /\ \A i \in DOMAIN msgs : msgs[i].at <= clock

\* The inductive invariant.
DeskOK ==
    /\ StoreOK
    /\ run \in [Workers -> Runs]
    /\ \A w \in Workers : Good(run[w], conv, msgs, track, resps)

USE EntityAssumption, SlaAssumption, NoneAssumption

\* The table of what is left is that of the plans.
LEMMA PlansLeft ==
    ASSUME NEW o \in Operations
    PROVE  Left(o, Plan[o])
BY DEF Operations, Plan, Left, ClosePlan, NotingPlan, SurveyPlan, Closes, OnRow, OnMessage

\* The operations.
LEMMA OperationNames ==
    Operations = OnRow \cup OnMessage \cup Closes \cup Surveys
                   \cup {"Send", "Note", "Inbound", "Receipt", "Check"}
BY DEF Operations, Plan, Closes, OnRow, OnMessage, Surveys

\* With the calls t left, o makes call c next but one.
Moves(o, t, c) == Len(t) # 1 /\ Left(o, Tail(t)) /\ Head(Tail(t)) = c

\* What follows each call.
Follows(o, t) ==
    /\ t \in Seq(Calls) /\ t # <<>>
    /\ o \in OnRow \cup OnMessage \cup Closes \cup Surveys
               \cup {"Send", "Note", "Inbound", "Receipt", "Check"}
    /\ Head(t) = "StoreConv" =>
          \/ o \in OnRow \cup OnMessage \cup {"Note", "Inbound"} /\ Len(t) = 1
          \/ o \in {"Send"} \cup Closes /\ Moves(o, t, "FindTrack") /\ t # NotingPlan
                                        /\ (o \in Closes => t = ClosePlan)
          \/ o = "CloseNoting" /\ t = NotingPlan /\ Moves(o, t, "LoadConv")
          \/ o = "SendSurvey" /\ Moves(o, t, "StoreResp")
    /\ Head(t) = "LoadConv" =>
          \/ o \in {"CloseNoting", "SendSurvey"} /\ Moves(o, t, "CreateMsg")
          \/ o = "Check" /\ Moves(o, t, "Fire")
    /\ Head(t) = "CreateMsg" =>
          /\ o \in {"Send", "Note", "Inbound", "CloseNoting", "SendSurvey"}
          /\ Moves(o, t, "StoreConv")
    /\ Head(t) = "FindMsg" => o \in OnMessage /\ Moves(o, t, "StoreMsg")
    /\ Head(t) = "StoreMsg" => \/ o \in OnMessage /\ Moves(o, t, "Refresh")
                               \/ o = "Receipt" /\ Len(t) = 1
    /\ Head(t) = "Refresh" => o \in OnMessage /\ Moves(o, t, "StoreConv")
    /\ Head(t) = "FindTrack" =>
          /\ o \in {"Send"} \cup Closes /\ Moves(o, t, "StoreTrack")
          /\ \/ o = "Send" /\ Len(Tail(t)) = 1
             \/ o \in Closes /\ Moves(o, Tail(t), "FindResp")
    /\ Head(t) = "StoreTrack" => \/ o \in {"Send", "Check"} /\ Len(t) = 1
                                 \/ o \in Closes /\ Moves(o, t, "FindResp")
    /\ Head(t) = "Fire" => o = "Check" /\ Moves(o, t, "StoreTrack")
    /\ Head(t) = "FindResp" => o \in Closes /\ Moves(o, t, "CreateResp")
    /\ Head(t) = "CreateResp" => o \in Closes /\ Moves(o, t, "EnqueueSend")
    /\ Head(t) = "EnqueueSend" => o \in Closes /\ Len(t) = 1
    /\ Head(t) = "FindSurvey" => \/ o = "SendSurvey" /\ Moves(o, t, "LoadConv")
                                 \/ o = "Submit" /\ Moves(o, t, "StoreResp")
    /\ Head(t) = "StoreResp" => \/ o = "SendSurvey" /\ Moves(o, t, "EnqueueExpire")
                                \/ o \in {"Expire", "Submit"} /\ Len(t) = 1
    /\ Head(t) = "EnqueueExpire" => o = "SendSurvey" /\ Len(t) = 1
    /\ Head(t) \in Calls
    /\ Len(t) # 1 => /\ Tail(t) # NotingPlan
                     /\ Tail(t) = ClosePlan => Head(t) = "CreateMsg"
    /\ t \in {ClosePlan, NotingPlan} => Head(t) = "StoreConv" /\ o \in Closes
    /\ t = NotingPlan => o = "CloseNoting"

\* The calls of a plan follow each other as the table says.
LEMMA LeftFollows ==
    ASSUME NEW o, NEW t, Left(o, t)
    PROVE  Follows(o, t)
<1>1. ASSUME o \in OnRow \cup OnMessage \cup {"Note", "Inbound"}, t = <<"StoreConv">>
      PROVE  Follows(o, t)
  <2>1. /\ Head(<<"StoreConv">>) = "StoreConv"
        /\ Len(<<"StoreConv">>) = 1
        /\ <<"StoreConv">> \in Seq(Calls)
        /\ <<"StoreConv">> # <<>>
    BY DEF Calls
  <2> QED BY <1>1, <2>1 DEF Follows, Calls, ClosePlan, NotingPlan, Closes, OnRow, OnMessage, Surveys
<1>2. ASSUME o \in {"Note", "Inbound"}, t = <<"CreateMsg", "StoreConv">>
      PROVE  Follows(o, t)
  <2>1. /\ Head(<<"CreateMsg", "StoreConv">>) = "CreateMsg"
        /\ Len(<<"CreateMsg", "StoreConv">>) = 2
        /\ <<"CreateMsg", "StoreConv">> \in Seq(Calls)
        /\ <<"CreateMsg", "StoreConv">> # <<>>
        /\ Tail(<<"CreateMsg", "StoreConv">>) = <<"StoreConv">>
        /\ Head(<<"StoreConv">>) = "StoreConv"
        /\ Len(<<"StoreConv">>) = 1
    BY DEF Calls
  <2>2. Left(o, <<"StoreConv">>)
    BY <1>2 DEF Left, Calls, ClosePlan, NotingPlan, Closes, OnRow, OnMessage, Surveys
  <2> QED BY <1>2, <2>1, <2>2 DEF Follows, Moves, Calls, ClosePlan, NotingPlan, Closes, OnRow, OnMessage, Surveys
<1>3. ASSUME o \in OnMessage, t = <<"FindMsg", "StoreMsg", "Refresh", "StoreConv">>
      PROVE  Follows(o, t)
  <2>1. /\ Head(<<"FindMsg", "StoreMsg", "Refresh", "StoreConv">>) = "FindMsg"
        /\ Len(<<"FindMsg", "StoreMsg", "Refresh", "StoreConv">>) = 4
        /\ <<"FindMsg", "StoreMsg", "Refresh", "StoreConv">> \in Seq(Calls)
        /\ <<"FindMsg", "StoreMsg", "Refresh", "StoreConv">> # <<>>
        /\ Tail(<<"FindMsg", "StoreMsg", "Refresh", "StoreConv">>) = <<"StoreMsg", "Refresh", "StoreConv">>
        /\ Head(<<"StoreMsg", "Refresh", "StoreConv">>) = "StoreMsg"
        /\ Len(<<"StoreMsg", "Refresh", "StoreConv">>) = 3
        /\ Tail(<<"StoreMsg", "Refresh", "StoreConv">>) = <<"Refresh", "StoreConv">>
        /\ Head(<<"Refresh", "StoreConv">>) = "Refresh"
    BY DEF Calls
  <2>2. Left(o, <<"StoreMsg", "Refresh", "StoreConv">>)
    BY <1>3 DEF Left, Calls, ClosePlan, NotingPlan, Closes, OnRow, OnMessage, Surveys
  <2>3. Left(o, <<"Refresh", "StoreConv">>)
    BY <1>3 DEF Left, Calls, ClosePlan, NotingPlan, Closes, OnRow, OnMessage, Surveys
  <2> QED BY <1>3, <2>1, <2>2, <2>3 DEF Follows, Moves, Calls, ClosePlan, NotingPlan, Closes, OnRow, OnMessage, Surveys
<1>4. ASSUME o \in OnMessage, t = <<"StoreMsg", "Refresh", "StoreConv">>
      PROVE  Follows(o, t)
  <2>1. /\ Head(<<"StoreMsg", "Refresh", "StoreConv">>) = "StoreMsg"
        /\ Len(<<"StoreMsg", "Refresh", "StoreConv">>) = 3
        /\ <<"StoreMsg", "Refresh", "StoreConv">> \in Seq(Calls)
        /\ <<"StoreMsg", "Refresh", "StoreConv">> # <<>>
        /\ Tail(<<"StoreMsg", "Refresh", "StoreConv">>) = <<"Refresh", "StoreConv">>
        /\ Head(<<"Refresh", "StoreConv">>) = "Refresh"
        /\ Len(<<"Refresh", "StoreConv">>) = 2
        /\ Tail(<<"Refresh", "StoreConv">>) = <<"StoreConv">>
        /\ Head(<<"StoreConv">>) = "StoreConv"
    BY DEF Calls
  <2>2. Left(o, <<"Refresh", "StoreConv">>)
    BY <1>4 DEF Left, Calls, ClosePlan, NotingPlan, Closes, OnRow, OnMessage, Surveys
  <2>3. Left(o, <<"StoreConv">>)
    BY <1>4 DEF Left, Calls, ClosePlan, NotingPlan, Closes, OnRow, OnMessage, Surveys
  <2> QED BY <1>4, <2>1, <2>2, <2>3 DEF Follows, Moves, Calls, ClosePlan, NotingPlan, Closes, OnRow, OnMessage, Surveys
<1>5. ASSUME o \in OnMessage, t = <<"Refresh", "StoreConv">>
      PROVE  Follows(o, t)
  <2>1. /\ Head(<<"Refresh", "StoreConv">>) = "Refresh"
        /\ Len(<<"Refresh", "StoreConv">>) = 2
        /\ <<"Refresh", "StoreConv">> \in Seq(Calls)
        /\ <<"Refresh", "StoreConv">> # <<>>
        /\ Tail(<<"Refresh", "StoreConv">>) = <<"StoreConv">>
        /\ Head(<<"StoreConv">>) = "StoreConv"
        /\ Len(<<"StoreConv">>) = 1
    BY DEF Calls
  <2>2. Left(o, <<"StoreConv">>)
    BY <1>5 DEF Left, Calls, ClosePlan, NotingPlan, Closes, OnRow, OnMessage, Surveys
  <2> QED BY <1>5, <2>1, <2>2 DEF Follows, Moves, Calls, ClosePlan, NotingPlan, Closes, OnRow, OnMessage, Surveys
<1>6. ASSUME o \in {"Receipt"}, t = <<"StoreMsg">>
      PROVE  Follows(o, t)
  <2>1. /\ Head(<<"StoreMsg">>) = "StoreMsg"
        /\ Len(<<"StoreMsg">>) = 1
        /\ <<"StoreMsg">> \in Seq(Calls)
        /\ <<"StoreMsg">> # <<>>
    BY DEF Calls
  <2> QED BY <1>6, <2>1 DEF Follows, Calls, ClosePlan, NotingPlan, Closes, OnRow, OnMessage, Surveys
<1>7. ASSUME o \in {"Send"}, t = <<"CreateMsg", "StoreConv", "FindTrack", "StoreTrack">>
      PROVE  Follows(o, t)
  <2>1. /\ Head(<<"CreateMsg", "StoreConv", "FindTrack", "StoreTrack">>) = "CreateMsg"
        /\ Len(<<"CreateMsg", "StoreConv", "FindTrack", "StoreTrack">>) = 4
        /\ <<"CreateMsg", "StoreConv", "FindTrack", "StoreTrack">> \in Seq(Calls)
        /\ <<"CreateMsg", "StoreConv", "FindTrack", "StoreTrack">> # <<>>
        /\ Tail(<<"CreateMsg", "StoreConv", "FindTrack", "StoreTrack">>) = <<"StoreConv", "FindTrack", "StoreTrack">>
        /\ Head(<<"StoreConv", "FindTrack", "StoreTrack">>) = "StoreConv"
        /\ Len(<<"StoreConv", "FindTrack", "StoreTrack">>) = 3
        /\ Tail(<<"StoreConv", "FindTrack", "StoreTrack">>) = <<"FindTrack", "StoreTrack">>
        /\ Head(<<"FindTrack", "StoreTrack">>) = "FindTrack"
    BY DEF Calls
  <2>2. Left(o, <<"StoreConv", "FindTrack", "StoreTrack">>)
    BY <1>7 DEF Left, Calls, ClosePlan, NotingPlan, Closes, OnRow, OnMessage, Surveys
  <2>3. Left(o, <<"FindTrack", "StoreTrack">>)
    BY <1>7 DEF Left, Calls, ClosePlan, NotingPlan, Closes, OnRow, OnMessage, Surveys
  <2> QED BY <1>7, <2>1, <2>2, <2>3 DEF Follows, Moves, Calls, ClosePlan, NotingPlan, Closes, OnRow, OnMessage, Surveys
<1>8. ASSUME o \in {"Send"}, t = <<"StoreConv", "FindTrack", "StoreTrack">>
      PROVE  Follows(o, t)
  <2>1. /\ Head(<<"StoreConv", "FindTrack", "StoreTrack">>) = "StoreConv"
        /\ Len(<<"StoreConv", "FindTrack", "StoreTrack">>) = 3
        /\ <<"StoreConv", "FindTrack", "StoreTrack">> \in Seq(Calls)
        /\ <<"StoreConv", "FindTrack", "StoreTrack">> # <<>>
        /\ Tail(<<"StoreConv", "FindTrack", "StoreTrack">>) = <<"FindTrack", "StoreTrack">>
        /\ Head(<<"FindTrack", "StoreTrack">>) = "FindTrack"
        /\ Len(<<"FindTrack", "StoreTrack">>) = 2
        /\ Tail(<<"FindTrack", "StoreTrack">>) = <<"StoreTrack">>
        /\ Head(<<"StoreTrack">>) = "StoreTrack"
    BY DEF Calls
  <2>2. Left(o, <<"FindTrack", "StoreTrack">>)
    BY <1>8 DEF Left, Calls, ClosePlan, NotingPlan, Closes, OnRow, OnMessage, Surveys
  <2>3. Left(o, <<"StoreTrack">>)
    BY <1>8 DEF Left, Calls, ClosePlan, NotingPlan, Closes, OnRow, OnMessage, Surveys
  <2> QED BY <1>8, <2>1, <2>2, <2>3 DEF Follows, Moves, Calls, ClosePlan, NotingPlan, Closes, OnRow, OnMessage, Surveys
<1>9. ASSUME o \in {"Send"}, t = <<"FindTrack", "StoreTrack">>
      PROVE  Follows(o, t)
  <2>1. /\ Head(<<"FindTrack", "StoreTrack">>) = "FindTrack"
        /\ Len(<<"FindTrack", "StoreTrack">>) = 2
        /\ <<"FindTrack", "StoreTrack">> \in Seq(Calls)
        /\ <<"FindTrack", "StoreTrack">> # <<>>
        /\ Tail(<<"FindTrack", "StoreTrack">>) = <<"StoreTrack">>
        /\ Head(<<"StoreTrack">>) = "StoreTrack"
        /\ Len(<<"StoreTrack">>) = 1
    BY DEF Calls
  <2>2. Left(o, <<"StoreTrack">>)
    BY <1>9 DEF Left, Calls, ClosePlan, NotingPlan, Closes, OnRow, OnMessage, Surveys
  <2> QED BY <1>9, <2>1, <2>2 DEF Follows, Moves, Calls, ClosePlan, NotingPlan, Closes, OnRow, OnMessage, Surveys
<1>10. ASSUME o \in {"Send"}, t = <<"StoreTrack">>
      PROVE  Follows(o, t)
  <2>1. /\ Head(<<"StoreTrack">>) = "StoreTrack"
        /\ Len(<<"StoreTrack">>) = 1
        /\ <<"StoreTrack">> \in Seq(Calls)
        /\ <<"StoreTrack">> # <<>>
    BY DEF Calls
  <2> QED BY <1>10, <2>1 DEF Follows, Calls, ClosePlan, NotingPlan, Closes, OnRow, OnMessage, Surveys
<1>11. ASSUME o \in Closes, t = <<"StoreConv", "FindTrack", "StoreTrack", "FindResp", "CreateResp", "EnqueueSend">>
      PROVE  Follows(o, t)
  <2>1. /\ Head(<<"StoreConv", "FindTrack", "StoreTrack", "FindResp", "CreateResp", "EnqueueSend">>) = "StoreConv"
        /\ Len(<<"StoreConv", "FindTrack", "StoreTrack", "FindResp", "CreateResp", "EnqueueSend">>) = 6
        /\ <<"StoreConv", "FindTrack", "StoreTrack", "FindResp", "CreateResp", "EnqueueSend">> \in Seq(Calls)
        /\ <<"StoreConv", "FindTrack", "StoreTrack", "FindResp", "CreateResp", "EnqueueSend">> # <<>>
        /\ Tail(<<"StoreConv", "FindTrack", "StoreTrack", "FindResp", "CreateResp", "EnqueueSend">>) = <<"FindTrack", "StoreTrack", "FindResp", "CreateResp", "EnqueueSend">>
        /\ Head(<<"FindTrack", "StoreTrack", "FindResp", "CreateResp", "EnqueueSend">>) = "FindTrack"
        /\ Len(<<"FindTrack", "StoreTrack", "FindResp", "CreateResp", "EnqueueSend">>) = 5
        /\ Tail(<<"FindTrack", "StoreTrack", "FindResp", "CreateResp", "EnqueueSend">>) = <<"StoreTrack", "FindResp", "CreateResp", "EnqueueSend">>
        /\ Head(<<"StoreTrack", "FindResp", "CreateResp", "EnqueueSend">>) = "StoreTrack"
    BY DEF Calls
  <2>2. Left(o, <<"FindTrack", "StoreTrack", "FindResp", "CreateResp", "EnqueueSend">>)
    BY <1>11 DEF Left, Calls, ClosePlan, NotingPlan, Closes, OnRow, OnMessage, Surveys
  <2>3. Left(o, <<"StoreTrack", "FindResp", "CreateResp", "EnqueueSend">>)
    BY <1>11 DEF Left, Calls, ClosePlan, NotingPlan, Closes, OnRow, OnMessage, Surveys
  <2> QED BY <1>11, <2>1, <2>2, <2>3 DEF Follows, Moves, Calls, ClosePlan, NotingPlan, Closes, OnRow, OnMessage, Surveys
<1>12. ASSUME o \in Closes, t = <<"FindTrack", "StoreTrack", "FindResp", "CreateResp", "EnqueueSend">>
      PROVE  Follows(o, t)
  <2>1. /\ Head(<<"FindTrack", "StoreTrack", "FindResp", "CreateResp", "EnqueueSend">>) = "FindTrack"
        /\ Len(<<"FindTrack", "StoreTrack", "FindResp", "CreateResp", "EnqueueSend">>) = 5
        /\ <<"FindTrack", "StoreTrack", "FindResp", "CreateResp", "EnqueueSend">> \in Seq(Calls)
        /\ <<"FindTrack", "StoreTrack", "FindResp", "CreateResp", "EnqueueSend">> # <<>>
        /\ Tail(<<"FindTrack", "StoreTrack", "FindResp", "CreateResp", "EnqueueSend">>) = <<"StoreTrack", "FindResp", "CreateResp", "EnqueueSend">>
        /\ Head(<<"StoreTrack", "FindResp", "CreateResp", "EnqueueSend">>) = "StoreTrack"
        /\ Len(<<"StoreTrack", "FindResp", "CreateResp", "EnqueueSend">>) = 4
        /\ Tail(<<"StoreTrack", "FindResp", "CreateResp", "EnqueueSend">>) = <<"FindResp", "CreateResp", "EnqueueSend">>
        /\ Head(<<"FindResp", "CreateResp", "EnqueueSend">>) = "FindResp"
    BY DEF Calls
  <2>2. Left(o, <<"StoreTrack", "FindResp", "CreateResp", "EnqueueSend">>)
    BY <1>12 DEF Left, Calls, ClosePlan, NotingPlan, Closes, OnRow, OnMessage, Surveys
  <2>3. Left(o, <<"FindResp", "CreateResp", "EnqueueSend">>)
    BY <1>12 DEF Left, Calls, ClosePlan, NotingPlan, Closes, OnRow, OnMessage, Surveys
  <2> QED BY <1>12, <2>1, <2>2, <2>3 DEF Follows, Moves, Calls, ClosePlan, NotingPlan, Closes, OnRow, OnMessage, Surveys
<1>13. ASSUME o \in Closes, t = <<"StoreTrack", "FindResp", "CreateResp", "EnqueueSend">>
      PROVE  Follows(o, t)
  <2>1. /\ Head(<<"StoreTrack", "FindResp", "CreateResp", "EnqueueSend">>) = "StoreTrack"
        /\ Len(<<"StoreTrack", "FindResp", "CreateResp", "EnqueueSend">>) = 4
        /\ <<"StoreTrack", "FindResp", "CreateResp", "EnqueueSend">> \in Seq(Calls)
        /\ <<"StoreTrack", "FindResp", "CreateResp", "EnqueueSend">> # <<>>
        /\ Tail(<<"StoreTrack", "FindResp", "CreateResp", "EnqueueSend">>) = <<"FindResp", "CreateResp", "EnqueueSend">>
        /\ Head(<<"FindResp", "CreateResp", "EnqueueSend">>) = "FindResp"
        /\ Len(<<"FindResp", "CreateResp", "EnqueueSend">>) = 3
        /\ Tail(<<"FindResp", "CreateResp", "EnqueueSend">>) = <<"CreateResp", "EnqueueSend">>
        /\ Head(<<"CreateResp", "EnqueueSend">>) = "CreateResp"
    BY DEF Calls
  <2>2. Left(o, <<"FindResp", "CreateResp", "EnqueueSend">>)
    BY <1>13 DEF Left, Calls, ClosePlan, NotingPlan, Closes, OnRow, OnMessage, Surveys
  <2>3. Left(o, <<"CreateResp", "EnqueueSend">>)
    BY <1>13 DEF Left, Calls, ClosePlan, NotingPlan, Closes, OnRow, OnMessage, Surveys
  <2> QED BY <1>13, <2>1, <2>2, <2>3 DEF Follows, Moves, Calls, ClosePlan, NotingPlan, Closes, OnRow, OnMessage, Surveys
<1>14. ASSUME o \in Closes, t = <<"FindResp", "CreateResp", "EnqueueSend">>
      PROVE  Follows(o, t)
  <2>1. /\ Head(<<"FindResp", "CreateResp", "EnqueueSend">>) = "FindResp"
        /\ Len(<<"FindResp", "CreateResp", "EnqueueSend">>) = 3
        /\ <<"FindResp", "CreateResp", "EnqueueSend">> \in Seq(Calls)
        /\ <<"FindResp", "CreateResp", "EnqueueSend">> # <<>>
        /\ Tail(<<"FindResp", "CreateResp", "EnqueueSend">>) = <<"CreateResp", "EnqueueSend">>
        /\ Head(<<"CreateResp", "EnqueueSend">>) = "CreateResp"
        /\ Len(<<"CreateResp", "EnqueueSend">>) = 2
        /\ Tail(<<"CreateResp", "EnqueueSend">>) = <<"EnqueueSend">>
        /\ Head(<<"EnqueueSend">>) = "EnqueueSend"
    BY DEF Calls
  <2>2. Left(o, <<"CreateResp", "EnqueueSend">>)
    BY <1>14 DEF Left, Calls, ClosePlan, NotingPlan, Closes, OnRow, OnMessage, Surveys
  <2>3. Left(o, <<"EnqueueSend">>)
    BY <1>14 DEF Left, Calls, ClosePlan, NotingPlan, Closes, OnRow, OnMessage, Surveys
  <2> QED BY <1>14, <2>1, <2>2, <2>3 DEF Follows, Moves, Calls, ClosePlan, NotingPlan, Closes, OnRow, OnMessage, Surveys
<1>15. ASSUME o \in Closes, t = <<"CreateResp", "EnqueueSend">>
      PROVE  Follows(o, t)
  <2>1. /\ Head(<<"CreateResp", "EnqueueSend">>) = "CreateResp"
        /\ Len(<<"CreateResp", "EnqueueSend">>) = 2
        /\ <<"CreateResp", "EnqueueSend">> \in Seq(Calls)
        /\ <<"CreateResp", "EnqueueSend">> # <<>>
        /\ Tail(<<"CreateResp", "EnqueueSend">>) = <<"EnqueueSend">>
        /\ Head(<<"EnqueueSend">>) = "EnqueueSend"
        /\ Len(<<"EnqueueSend">>) = 1
    BY DEF Calls
  <2>2. Left(o, <<"EnqueueSend">>)
    BY <1>15 DEF Left, Calls, ClosePlan, NotingPlan, Closes, OnRow, OnMessage, Surveys
  <2> QED BY <1>15, <2>1, <2>2 DEF Follows, Moves, Calls, ClosePlan, NotingPlan, Closes, OnRow, OnMessage, Surveys
<1>16. ASSUME o \in Closes, t = <<"EnqueueSend">>
      PROVE  Follows(o, t)
  <2>1. /\ Head(<<"EnqueueSend">>) = "EnqueueSend"
        /\ Len(<<"EnqueueSend">>) = 1
        /\ <<"EnqueueSend">> \in Seq(Calls)
        /\ <<"EnqueueSend">> # <<>>
    BY DEF Calls
  <2> QED BY <1>16, <2>1 DEF Follows, Calls, ClosePlan, NotingPlan, Closes, OnRow, OnMessage, Surveys
<1>17. ASSUME o \in {"CloseNoting"}, t = <<"StoreConv", "LoadConv", "CreateMsg", "StoreConv", "FindTrack", "StoreTrack", "FindResp", "CreateResp", "EnqueueSend">>
      PROVE  Follows(o, t)
  <2>1. /\ Head(<<"StoreConv", "LoadConv", "CreateMsg", "StoreConv", "FindTrack", "StoreTrack", "FindResp", "CreateResp", "EnqueueSend">>) = "StoreConv"
        /\ Len(<<"StoreConv", "LoadConv", "CreateMsg", "StoreConv", "FindTrack", "StoreTrack", "FindResp", "CreateResp", "EnqueueSend">>) = 9
        /\ <<"StoreConv", "LoadConv", "CreateMsg", "StoreConv", "FindTrack", "StoreTrack", "FindResp", "CreateResp", "EnqueueSend">> \in Seq(Calls)
        /\ <<"StoreConv", "LoadConv", "CreateMsg", "StoreConv", "FindTrack", "StoreTrack", "FindResp", "CreateResp", "EnqueueSend">> # <<>>
        /\ Tail(<<"StoreConv", "LoadConv", "CreateMsg", "StoreConv", "FindTrack", "StoreTrack", "FindResp", "CreateResp", "EnqueueSend">>) = <<"LoadConv", "CreateMsg", "StoreConv", "FindTrack", "StoreTrack", "FindResp", "CreateResp", "EnqueueSend">>
        /\ Head(<<"LoadConv", "CreateMsg", "StoreConv", "FindTrack", "StoreTrack", "FindResp", "CreateResp", "EnqueueSend">>) = "LoadConv"
        /\ Len(<<"LoadConv", "CreateMsg", "StoreConv", "FindTrack", "StoreTrack", "FindResp", "CreateResp", "EnqueueSend">>) = 8
        /\ Tail(<<"LoadConv", "CreateMsg", "StoreConv", "FindTrack", "StoreTrack", "FindResp", "CreateResp", "EnqueueSend">>) = <<"CreateMsg", "StoreConv", "FindTrack", "StoreTrack", "FindResp", "CreateResp", "EnqueueSend">>
        /\ Head(<<"CreateMsg", "StoreConv", "FindTrack", "StoreTrack", "FindResp", "CreateResp", "EnqueueSend">>) = "CreateMsg"
    BY DEF Calls
  <2>2. Left(o, <<"LoadConv", "CreateMsg", "StoreConv", "FindTrack", "StoreTrack", "FindResp", "CreateResp", "EnqueueSend">>)
    BY <1>17 DEF Left, Calls, ClosePlan, NotingPlan, Closes, OnRow, OnMessage, Surveys
  <2>3. Left(o, <<"CreateMsg", "StoreConv", "FindTrack", "StoreTrack", "FindResp", "CreateResp", "EnqueueSend">>)
    BY <1>17 DEF Left, Calls, ClosePlan, NotingPlan, Closes, OnRow, OnMessage, Surveys
  <2> QED BY <1>17, <2>1, <2>2, <2>3 DEF Follows, Moves, Calls, ClosePlan, NotingPlan, Closes, OnRow, OnMessage, Surveys
<1>18. ASSUME o \in {"CloseNoting"}, t = <<"LoadConv", "CreateMsg", "StoreConv", "FindTrack", "StoreTrack", "FindResp", "CreateResp", "EnqueueSend">>
      PROVE  Follows(o, t)
  <2>1. /\ Head(<<"LoadConv", "CreateMsg", "StoreConv", "FindTrack", "StoreTrack", "FindResp", "CreateResp", "EnqueueSend">>) = "LoadConv"
        /\ Len(<<"LoadConv", "CreateMsg", "StoreConv", "FindTrack", "StoreTrack", "FindResp", "CreateResp", "EnqueueSend">>) = 8
        /\ <<"LoadConv", "CreateMsg", "StoreConv", "FindTrack", "StoreTrack", "FindResp", "CreateResp", "EnqueueSend">> \in Seq(Calls)
        /\ <<"LoadConv", "CreateMsg", "StoreConv", "FindTrack", "StoreTrack", "FindResp", "CreateResp", "EnqueueSend">> # <<>>
        /\ Tail(<<"LoadConv", "CreateMsg", "StoreConv", "FindTrack", "StoreTrack", "FindResp", "CreateResp", "EnqueueSend">>) = <<"CreateMsg", "StoreConv", "FindTrack", "StoreTrack", "FindResp", "CreateResp", "EnqueueSend">>
        /\ Head(<<"CreateMsg", "StoreConv", "FindTrack", "StoreTrack", "FindResp", "CreateResp", "EnqueueSend">>) = "CreateMsg"
        /\ Len(<<"CreateMsg", "StoreConv", "FindTrack", "StoreTrack", "FindResp", "CreateResp", "EnqueueSend">>) = 7
        /\ Tail(<<"CreateMsg", "StoreConv", "FindTrack", "StoreTrack", "FindResp", "CreateResp", "EnqueueSend">>) = <<"StoreConv", "FindTrack", "StoreTrack", "FindResp", "CreateResp", "EnqueueSend">>
        /\ Head(<<"StoreConv", "FindTrack", "StoreTrack", "FindResp", "CreateResp", "EnqueueSend">>) = "StoreConv"
    BY DEF Calls
  <2>2. Left(o, <<"CreateMsg", "StoreConv", "FindTrack", "StoreTrack", "FindResp", "CreateResp", "EnqueueSend">>)
    BY <1>18 DEF Left, Calls, ClosePlan, NotingPlan, Closes, OnRow, OnMessage, Surveys
  <2>3. Left(o, <<"StoreConv", "FindTrack", "StoreTrack", "FindResp", "CreateResp", "EnqueueSend">>)
    BY <1>18 DEF Left, Calls, ClosePlan, NotingPlan, Closes, OnRow, OnMessage, Surveys
  <2> QED BY <1>18, <2>1, <2>2, <2>3 DEF Follows, Moves, Calls, ClosePlan, NotingPlan, Closes, OnRow, OnMessage, Surveys
<1>19. ASSUME o \in {"CloseNoting"}, t = <<"CreateMsg", "StoreConv", "FindTrack", "StoreTrack", "FindResp", "CreateResp", "EnqueueSend">>
      PROVE  Follows(o, t)
  <2>1. /\ Head(<<"CreateMsg", "StoreConv", "FindTrack", "StoreTrack", "FindResp", "CreateResp", "EnqueueSend">>) = "CreateMsg"
        /\ Len(<<"CreateMsg", "StoreConv", "FindTrack", "StoreTrack", "FindResp", "CreateResp", "EnqueueSend">>) = 7
        /\ <<"CreateMsg", "StoreConv", "FindTrack", "StoreTrack", "FindResp", "CreateResp", "EnqueueSend">> \in Seq(Calls)
        /\ <<"CreateMsg", "StoreConv", "FindTrack", "StoreTrack", "FindResp", "CreateResp", "EnqueueSend">> # <<>>
        /\ Tail(<<"CreateMsg", "StoreConv", "FindTrack", "StoreTrack", "FindResp", "CreateResp", "EnqueueSend">>) = <<"StoreConv", "FindTrack", "StoreTrack", "FindResp", "CreateResp", "EnqueueSend">>
        /\ Head(<<"StoreConv", "FindTrack", "StoreTrack", "FindResp", "CreateResp", "EnqueueSend">>) = "StoreConv"
        /\ Len(<<"StoreConv", "FindTrack", "StoreTrack", "FindResp", "CreateResp", "EnqueueSend">>) = 6
        /\ Tail(<<"StoreConv", "FindTrack", "StoreTrack", "FindResp", "CreateResp", "EnqueueSend">>) = <<"FindTrack", "StoreTrack", "FindResp", "CreateResp", "EnqueueSend">>
        /\ Head(<<"FindTrack", "StoreTrack", "FindResp", "CreateResp", "EnqueueSend">>) = "FindTrack"
    BY DEF Calls
  <2>2. Left(o, <<"StoreConv", "FindTrack", "StoreTrack", "FindResp", "CreateResp", "EnqueueSend">>)
    BY <1>19 DEF Left, Calls, ClosePlan, NotingPlan, Closes, OnRow, OnMessage, Surveys
  <2>3. Left(o, <<"FindTrack", "StoreTrack", "FindResp", "CreateResp", "EnqueueSend">>)
    BY <1>19 DEF Left, Calls, ClosePlan, NotingPlan, Closes, OnRow, OnMessage, Surveys
  <2> QED BY <1>19, <2>1, <2>2, <2>3 DEF Follows, Moves, Calls, ClosePlan, NotingPlan, Closes, OnRow, OnMessage, Surveys
<1>20. ASSUME o \in {"Check"}, t = <<"LoadConv", "Fire", "StoreTrack">>
      PROVE  Follows(o, t)
  <2>1. /\ Head(<<"LoadConv", "Fire", "StoreTrack">>) = "LoadConv"
        /\ Len(<<"LoadConv", "Fire", "StoreTrack">>) = 3
        /\ <<"LoadConv", "Fire", "StoreTrack">> \in Seq(Calls)
        /\ <<"LoadConv", "Fire", "StoreTrack">> # <<>>
        /\ Tail(<<"LoadConv", "Fire", "StoreTrack">>) = <<"Fire", "StoreTrack">>
        /\ Head(<<"Fire", "StoreTrack">>) = "Fire"
        /\ Len(<<"Fire", "StoreTrack">>) = 2
        /\ Tail(<<"Fire", "StoreTrack">>) = <<"StoreTrack">>
        /\ Head(<<"StoreTrack">>) = "StoreTrack"
    BY DEF Calls
  <2>2. Left(o, <<"Fire", "StoreTrack">>)
    BY <1>20 DEF Left, Calls, ClosePlan, NotingPlan, Closes, OnRow, OnMessage, Surveys
  <2>3. Left(o, <<"StoreTrack">>)
    BY <1>20 DEF Left, Calls, ClosePlan, NotingPlan, Closes, OnRow, OnMessage, Surveys
  <2> QED BY <1>20, <2>1, <2>2, <2>3 DEF Follows, Moves, Calls, ClosePlan, NotingPlan, Closes, OnRow, OnMessage, Surveys
<1>21. ASSUME o \in {"Check"}, t = <<"Fire", "StoreTrack">>
      PROVE  Follows(o, t)
  <2>1. /\ Head(<<"Fire", "StoreTrack">>) = "Fire"
        /\ Len(<<"Fire", "StoreTrack">>) = 2
        /\ <<"Fire", "StoreTrack">> \in Seq(Calls)
        /\ <<"Fire", "StoreTrack">> # <<>>
        /\ Tail(<<"Fire", "StoreTrack">>) = <<"StoreTrack">>
        /\ Head(<<"StoreTrack">>) = "StoreTrack"
        /\ Len(<<"StoreTrack">>) = 1
    BY DEF Calls
  <2>2. Left(o, <<"StoreTrack">>)
    BY <1>21 DEF Left, Calls, ClosePlan, NotingPlan, Closes, OnRow, OnMessage, Surveys
  <2> QED BY <1>21, <2>1, <2>2 DEF Follows, Moves, Calls, ClosePlan, NotingPlan, Closes, OnRow, OnMessage, Surveys
<1>22. ASSUME o \in {"Check"}, t = <<"StoreTrack">>
      PROVE  Follows(o, t)
  <2>1. /\ Head(<<"StoreTrack">>) = "StoreTrack"
        /\ Len(<<"StoreTrack">>) = 1
        /\ <<"StoreTrack">> \in Seq(Calls)
        /\ <<"StoreTrack">> # <<>>
    BY DEF Calls
  <2> QED BY <1>22, <2>1 DEF Follows, Calls, ClosePlan, NotingPlan, Closes, OnRow, OnMessage, Surveys
<1>23. ASSUME o \in {"SendSurvey"}, t = <<"LoadConv", "CreateMsg", "StoreConv", "StoreResp", "EnqueueExpire">>
      PROVE  Follows(o, t)
  <2>1. /\ Head(<<"LoadConv", "CreateMsg", "StoreConv", "StoreResp", "EnqueueExpire">>) = "LoadConv"
        /\ Len(<<"LoadConv", "CreateMsg", "StoreConv", "StoreResp", "EnqueueExpire">>) = 5
        /\ <<"LoadConv", "CreateMsg", "StoreConv", "StoreResp", "EnqueueExpire">> \in Seq(Calls)
        /\ <<"LoadConv", "CreateMsg", "StoreConv", "StoreResp", "EnqueueExpire">> # <<>>
        /\ Tail(<<"LoadConv", "CreateMsg", "StoreConv", "StoreResp", "EnqueueExpire">>) = <<"CreateMsg", "StoreConv", "StoreResp", "EnqueueExpire">>
        /\ Head(<<"CreateMsg", "StoreConv", "StoreResp", "EnqueueExpire">>) = "CreateMsg"
        /\ Len(<<"CreateMsg", "StoreConv", "StoreResp", "EnqueueExpire">>) = 4
        /\ Tail(<<"CreateMsg", "StoreConv", "StoreResp", "EnqueueExpire">>) = <<"StoreConv", "StoreResp", "EnqueueExpire">>
        /\ Head(<<"StoreConv", "StoreResp", "EnqueueExpire">>) = "StoreConv"
    BY DEF Calls
  <2>2. Left(o, <<"CreateMsg", "StoreConv", "StoreResp", "EnqueueExpire">>)
    BY <1>23 DEF Left, Calls, ClosePlan, NotingPlan, Closes, OnRow, OnMessage, Surveys
  <2>3. Left(o, <<"StoreConv", "StoreResp", "EnqueueExpire">>)
    BY <1>23 DEF Left, Calls, ClosePlan, NotingPlan, Closes, OnRow, OnMessage, Surveys
  <2> QED BY <1>23, <2>1, <2>2, <2>3 DEF Follows, Moves, Calls, ClosePlan, NotingPlan, Closes, OnRow, OnMessage, Surveys
<1>24. ASSUME o \in {"SendSurvey"}, t = <<"CreateMsg", "StoreConv", "StoreResp", "EnqueueExpire">>
      PROVE  Follows(o, t)
  <2>1. /\ Head(<<"CreateMsg", "StoreConv", "StoreResp", "EnqueueExpire">>) = "CreateMsg"
        /\ Len(<<"CreateMsg", "StoreConv", "StoreResp", "EnqueueExpire">>) = 4
        /\ <<"CreateMsg", "StoreConv", "StoreResp", "EnqueueExpire">> \in Seq(Calls)
        /\ <<"CreateMsg", "StoreConv", "StoreResp", "EnqueueExpire">> # <<>>
        /\ Tail(<<"CreateMsg", "StoreConv", "StoreResp", "EnqueueExpire">>) = <<"StoreConv", "StoreResp", "EnqueueExpire">>
        /\ Head(<<"StoreConv", "StoreResp", "EnqueueExpire">>) = "StoreConv"
        /\ Len(<<"StoreConv", "StoreResp", "EnqueueExpire">>) = 3
        /\ Tail(<<"StoreConv", "StoreResp", "EnqueueExpire">>) = <<"StoreResp", "EnqueueExpire">>
        /\ Head(<<"StoreResp", "EnqueueExpire">>) = "StoreResp"
    BY DEF Calls
  <2>2. Left(o, <<"StoreConv", "StoreResp", "EnqueueExpire">>)
    BY <1>24 DEF Left, Calls, ClosePlan, NotingPlan, Closes, OnRow, OnMessage, Surveys
  <2>3. Left(o, <<"StoreResp", "EnqueueExpire">>)
    BY <1>24 DEF Left, Calls, ClosePlan, NotingPlan, Closes, OnRow, OnMessage, Surveys
  <2> QED BY <1>24, <2>1, <2>2, <2>3 DEF Follows, Moves, Calls, ClosePlan, NotingPlan, Closes, OnRow, OnMessage, Surveys
<1>25. ASSUME o \in {"SendSurvey"}, t = <<"StoreConv", "StoreResp", "EnqueueExpire">>
      PROVE  Follows(o, t)
  <2>1. /\ Head(<<"StoreConv", "StoreResp", "EnqueueExpire">>) = "StoreConv"
        /\ Len(<<"StoreConv", "StoreResp", "EnqueueExpire">>) = 3
        /\ <<"StoreConv", "StoreResp", "EnqueueExpire">> \in Seq(Calls)
        /\ <<"StoreConv", "StoreResp", "EnqueueExpire">> # <<>>
        /\ Tail(<<"StoreConv", "StoreResp", "EnqueueExpire">>) = <<"StoreResp", "EnqueueExpire">>
        /\ Head(<<"StoreResp", "EnqueueExpire">>) = "StoreResp"
        /\ Len(<<"StoreResp", "EnqueueExpire">>) = 2
        /\ Tail(<<"StoreResp", "EnqueueExpire">>) = <<"EnqueueExpire">>
        /\ Head(<<"EnqueueExpire">>) = "EnqueueExpire"
    BY DEF Calls
  <2>2. Left(o, <<"StoreResp", "EnqueueExpire">>)
    BY <1>25 DEF Left, Calls, ClosePlan, NotingPlan, Closes, OnRow, OnMessage, Surveys
  <2>3. Left(o, <<"EnqueueExpire">>)
    BY <1>25 DEF Left, Calls, ClosePlan, NotingPlan, Closes, OnRow, OnMessage, Surveys
  <2> QED BY <1>25, <2>1, <2>2, <2>3 DEF Follows, Moves, Calls, ClosePlan, NotingPlan, Closes, OnRow, OnMessage, Surveys
<1>26. ASSUME o \in {"SendSurvey"}, t = <<"StoreResp", "EnqueueExpire">>
      PROVE  Follows(o, t)
  <2>1. /\ Head(<<"StoreResp", "EnqueueExpire">>) = "StoreResp"
        /\ Len(<<"StoreResp", "EnqueueExpire">>) = 2
        /\ <<"StoreResp", "EnqueueExpire">> \in Seq(Calls)
        /\ <<"StoreResp", "EnqueueExpire">> # <<>>
        /\ Tail(<<"StoreResp", "EnqueueExpire">>) = <<"EnqueueExpire">>
        /\ Head(<<"EnqueueExpire">>) = "EnqueueExpire"
        /\ Len(<<"EnqueueExpire">>) = 1
    BY DEF Calls
  <2>2. Left(o, <<"EnqueueExpire">>)
    BY <1>26 DEF Left, Calls, ClosePlan, NotingPlan, Closes, OnRow, OnMessage, Surveys
  <2> QED BY <1>26, <2>1, <2>2 DEF Follows, Moves, Calls, ClosePlan, NotingPlan, Closes, OnRow, OnMessage, Surveys
<1>27. ASSUME o \in {"SendSurvey"}, t = <<"EnqueueExpire">>
      PROVE  Follows(o, t)
  <2>1. /\ Head(<<"EnqueueExpire">>) = "EnqueueExpire"
        /\ Len(<<"EnqueueExpire">>) = 1
        /\ <<"EnqueueExpire">> \in Seq(Calls)
        /\ <<"EnqueueExpire">> # <<>>
    BY DEF Calls
  <2> QED BY <1>27, <2>1 DEF Follows, Calls, ClosePlan, NotingPlan, Closes, OnRow, OnMessage, Surveys
<1>28. ASSUME o \in {"Expire", "Submit"}, t = <<"StoreResp">>
      PROVE  Follows(o, t)
  <2>1. /\ Head(<<"StoreResp">>) = "StoreResp"
        /\ Len(<<"StoreResp">>) = 1
        /\ <<"StoreResp">> \in Seq(Calls)
        /\ <<"StoreResp">> # <<>>
    BY DEF Calls
  <2> QED BY <1>28, <2>1 DEF Follows, Calls, ClosePlan, NotingPlan, Closes, OnRow, OnMessage, Surveys
<1>29. ASSUME o \in {"SendSurvey"}, t = <<"FindSurvey", "LoadConv", "CreateMsg", "StoreConv", "StoreResp", "EnqueueExpire">>
      PROVE  Follows(o, t)
  <2>1. /\ Head(<<"FindSurvey", "LoadConv", "CreateMsg", "StoreConv", "StoreResp", "EnqueueExpire">>) = "FindSurvey"
        /\ Len(<<"FindSurvey", "LoadConv", "CreateMsg", "StoreConv", "StoreResp", "EnqueueExpire">>) = 6
        /\ <<"FindSurvey", "LoadConv", "CreateMsg", "StoreConv", "StoreResp", "EnqueueExpire">> \in Seq(Calls)
        /\ <<"FindSurvey", "LoadConv", "CreateMsg", "StoreConv", "StoreResp", "EnqueueExpire">> # <<>>
        /\ Tail(<<"FindSurvey", "LoadConv", "CreateMsg", "StoreConv", "StoreResp", "EnqueueExpire">>) = <<"LoadConv", "CreateMsg", "StoreConv", "StoreResp", "EnqueueExpire">>
        /\ Head(<<"LoadConv", "CreateMsg", "StoreConv", "StoreResp", "EnqueueExpire">>) = "LoadConv"
        /\ Len(<<"LoadConv", "CreateMsg", "StoreConv", "StoreResp", "EnqueueExpire">>) = 5
        /\ Tail(<<"LoadConv", "CreateMsg", "StoreConv", "StoreResp", "EnqueueExpire">>) = <<"CreateMsg", "StoreConv", "StoreResp", "EnqueueExpire">>
        /\ Head(<<"CreateMsg", "StoreConv", "StoreResp", "EnqueueExpire">>) = "CreateMsg"
    BY DEF Calls
  <2>2. Left(o, <<"LoadConv", "CreateMsg", "StoreConv", "StoreResp", "EnqueueExpire">>)
    BY <1>29 DEF Left, Calls, ClosePlan, NotingPlan, Closes, OnRow, OnMessage, Surveys
  <2>3. Left(o, <<"CreateMsg", "StoreConv", "StoreResp", "EnqueueExpire">>)
    BY <1>29 DEF Left, Calls, ClosePlan, NotingPlan, Closes, OnRow, OnMessage, Surveys
  <2> QED BY <1>29, <2>1, <2>2, <2>3 DEF Follows, Moves, Calls, ClosePlan, NotingPlan, Closes, OnRow, OnMessage, Surveys
<1>30. ASSUME o \in {"Submit"}, t = <<"FindSurvey", "StoreResp">>
      PROVE  Follows(o, t)
  <2>1. /\ Head(<<"FindSurvey", "StoreResp">>) = "FindSurvey"
        /\ Len(<<"FindSurvey", "StoreResp">>) = 2
        /\ <<"FindSurvey", "StoreResp">> \in Seq(Calls)
        /\ <<"FindSurvey", "StoreResp">> # <<>>
        /\ Tail(<<"FindSurvey", "StoreResp">>) = <<"StoreResp">>
        /\ Head(<<"StoreResp">>) = "StoreResp"
        /\ Len(<<"StoreResp">>) = 1
    BY DEF Calls
  <2>2. Left(o, <<"StoreResp">>)
    BY <1>30 DEF Left, Calls, ClosePlan, NotingPlan, Closes, OnRow, OnMessage, Surveys
  <2> QED BY <1>30, <2>1, <2>2 DEF Follows, Moves, Calls, ClosePlan, NotingPlan, Closes, OnRow, OnMessage, Surveys
<1> QED BY <1>1, <1>2, <1>3, <1>4, <1>5, <1>6, <1>7, <1>8, <1>9, <1>10, <1>11, <1>12, <1>13, <1>14, <1>15, <1>16, <1>17, <1>18, <1>19, <1>20, <1>21, <1>22, <1>23, <1>24, <1>25, <1>26, <1>27, <1>28,
          <1>29, <1>30 DEF Left, ClosePlan, NotingPlan, SurveyPlan

-----------------------------------------------------------------------------
(* One step of a run.                                                      *)

\* q is r but for the calls left and the copies that are out of date.
Kept(q, r) ==
    /\ q.op = r.op /\ q.conv = r.conv /\ q.id = r.id /\ q.msg = r.msg
    /\ q.track = r.track /\ q.resp = r.resp /\ q.at = r.at /\ q.tries = r.tries

\* A run that has made its last call is over.
LEMMA AfterEnds ==
    ASSUME NEW r, Len(r.todo) = 1
    PROVE  After(r) = NoRun
BY DEF After

\* Any other goes on to the next one.
LEMMA AfterMoves ==
    ASSUME NEW r \in Runs, NEW c, r.todo \in Seq(Calls), r.todo # <<>>, Moves(r.op, r.todo, c)
    PROVE  /\ After(r) \in Runs /\ Kept(After(r), r) /\ After(r).behind = r.behind
           /\ After(r).todo = Tail(r.todo)
           /\ Left(After(r).op, After(r).todo) /\ Call(After(r)) = c
<1>1. After(r) = [r EXCEPT !.todo = Tail(r.todo)]
  BY DEF After, Moves
<1>2. Tail(r.todo) \in Seq(Calls)
  BY HeadTailProperties
<1>3. After(r).op = r.op /\ After(r).todo = Tail(r.todo)
  BY <1>1 DEF Runs
<1> QED BY <1>1, <1>2, <1>3 DEF Runs, Kept, Moves, Call

\* The idle run.
LEMMA NoRunType ==
    /\ NoRun \in Runs
    /\ NoRun.op = None /\ NoRun.conv = None /\ NoRun.msg = None /\ NoRun.track = None
    /\ NoRun.resp = None /\ NoRun.behind = {} /\ NoRun.id = 0
BY DeskAssumption DEF NoRun, Runs

\* A busy run is somewhere in its plan.
LEMMA BusyRun ==
    ASSUME DeskOK, NEW w \in Workers, run[w] # NoRun
    PROVE  /\ run[w] \in Runs
           /\ Left(run[w].op, run[w].todo) /\ Follows(run[w].op, run[w].todo)
           /\ Shape(run[w], msgs, resps) /\ ConvFresh(run[w], conv) /\ MsgFresh(run[w], msgs)
           /\ RespFresh(run[w], resps) /\ TrackFresh(run[w], track)
           /\ run[w].op # None /\ run[w].op \in Operations
<1>1. run[w] \in Runs /\ Good(run[w], conv, msgs, track, resps)
  BY DEF DeskOK
<1>2. Left(run[w].op, run[w].todo)
  BY <1>1 DEF Good
<1>3. Follows(run[w].op, run[w].todo)
  BY <1>2, LeftFollows
<1>4. run[w].op \in Operations
  BY <1>3, OperationNames DEF Follows
<1> QED BY <1>1, <1>2, <1>3, <1>4, NoneAssumption DEF Good

\* What a run is that has gone one call on from r.
GoesTo(q, r, c) ==
    /\ q \in Runs /\ Kept(q, r) /\ q.behind = r.behind /\ q.todo = Tail(r.todo)
    /\ Left(q.op, q.todo) /\ Call(q) = c

\* At the call c, with a copy r of the run that may have changed: the run ends,
\* or it goes on to the call that follows.
LEMMA GoesOn ==
    ASSUME DeskOK, NEW w \in Workers, run[w] # NoRun,
           NEW r \in Runs, r.op = run[w].op, r.todo = run[w].todo
    PROVE  /\ Len(r.todo) = 1 => After(r) = NoRun
           /\ \A c : Moves(r.op, r.todo, c) => GoesTo(After(r), r, c)
<1>1. Follows(r.op, r.todo)
  BY BusyRun
<1>2. r.todo \in Seq(Calls) /\ r.todo # <<>>
  BY <1>1 DEF Follows
<1>3. ASSUME NEW c, Moves(r.op, r.todo, c)
      PROVE  GoesTo(After(r), r, c)
  BY <1>2, <1>3, AfterMoves DEF GoesTo
<1> QED BY <1>3, AfterEnds

\* Only one worker's run changes.
LEMMA OneRun ==
    ASSUME DeskOK, NEW w \in Workers, NEW q, run' = [run EXCEPT ![w] = q]
    PROVE  /\ run'[w] = q
           /\ \A v \in Workers \ {w} : run'[v] = run[v]
           /\ q \in Runs => run' \in [Workers -> Runs]
BY DEF DeskOK

\* A run that goes on with unchanged documents keeps the facts about its copies
\* that do not depend on where it is.
LEMMA GoodRun ==
    ASSUME NEW q, NEW c, NEW ms, NEW t, NEW rs, Left(q.op, q.todo), Shape(q, ms, rs),
           ConvFresh(q, c), MsgFresh(q, ms), RespFresh(q, rs), TrackFresh(q, t)
    PROVE  Good(q, c, ms, t, rs)
BY DEF Good

-----------------------------------------------------------------------------
(* What a store does to the runs of the others.                            *)

\* q is r, with a copy more out of date.
Marked(q, r, d) == q = [r EXCEPT !.behind = @ \cup {d}]

\* Marking leaves the rest of the run.
LEMMA MarkedRun ==
    ASSUME NEW r \in Runs, NEW d \in Docs, NEW q, Marked(q, r, d)
    PROVE  /\ q \in Runs /\ Kept(q, r) /\ q.todo = r.todo /\ q.behind = r.behind \cup {d}
           /\ Call(q) = Call(r)
BY DEF Marked, Runs, Kept, Call

\* The conversation was stored.
LEMMA OthersConv ==
    ASSUME NEW r \in Runs, NEW q, NEW c, NEW d, NEW ms, NEW t, NEW rs, Good(r, c, ms, t, rs),
           q = IF r.conv # None THEN [r EXCEPT !.behind = @ \cup {"conv"}] ELSE r
    PROVE  q \in Runs /\ Good(q, d, ms, t, rs)
<1>1. CASE r.conv = None
  <2>1. q = r
    BY <1>1
  <2> QED BY <1>1, <2>1 DEF Good, ConvFresh
<1>2. CASE r.conv # None
  <2>1. /\ q \in Runs /\ Kept(q, r) /\ q.todo = r.todo /\ q.behind = r.behind \cup {"conv"}
        /\ Call(q) = Call(r)
    BY <1>2, MarkedRun DEF Marked, Docs
  <2>2. r # NoRun
    BY <1>2, NoRunType
  <2>3. Left(r.op, r.todo) /\ Shape(r, ms, rs) /\ MsgFresh(r, ms) /\ RespFresh(r, rs) /\ TrackFresh(r, t)
    BY <2>2 DEF Good
  <2>4. Left(q.op, q.todo) /\ Shape(q, ms, rs)
    BY <2>1, <2>3 DEF Kept, Shape
  <2>5. ConvFresh(q, d)
    BY <2>1 DEF ConvFresh
  <2>6. MsgFresh(q, ms) /\ RespFresh(q, rs) /\ TrackFresh(q, t)
    BY <2>1, <2>3 DEF Kept, MsgFresh, RespFresh, TrackFresh
  <2> QED BY <2>1, <2>4, <2>5, <2>6, GoodRun
<1> QED BY <1>1, <1>2

\* The tracking was stored.
LEMMA OthersTrack ==
    ASSUME NEW r \in Runs, NEW q, NEW c, NEW d, NEW ms, NEW t, NEW rs, Good(r, c, ms, t, rs),
           q = IF r.track # None THEN [r EXCEPT !.behind = @ \cup {"track"}] ELSE r
    PROVE  q \in Runs /\ Good(q, c, ms, d, rs)
<1>1. CASE r.track = None
  <2>1. q = r
    BY <1>1
  <2>2. ASSUME r # NoRun
        PROVE  TrackFresh(r, d)
    BY <1>1, <2>2 DEF Good, Shape, TrackFresh
  <2> QED BY <2>1, <2>2 DEF Good
<1>2. CASE r.track # None
  <2>1. /\ q \in Runs /\ Kept(q, r) /\ q.todo = r.todo /\ q.behind = r.behind \cup {"track"}
        /\ Call(q) = Call(r)
    BY <1>2, MarkedRun DEF Marked, Docs
  <2>2. r # NoRun
    BY <1>2, NoRunType
  <2>3. Left(r.op, r.todo) /\ Shape(r, ms, rs) /\ MsgFresh(r, ms) /\ RespFresh(r, rs)
        /\ TrackFresh(r, t) /\ ConvFresh(r, c)
    BY <2>2 DEF Good
  <2>4. Left(q.op, q.todo) /\ Shape(q, ms, rs)
    BY <1>2, <2>1, <2>3 DEF Kept, Shape
  <2>5. TrackFresh(q, d)
    BY <2>1, <2>3 DEF TrackFresh, Kept
  <2>6. MsgFresh(q, ms) /\ RespFresh(q, rs) /\ ConvFresh(q, c)
    BY <2>1, <2>3 DEF Kept, MsgFresh, RespFresh, ConvFresh
  <2> QED BY <2>1, <2>4, <2>5, <2>6, GoodRun
<1> QED BY <1>1, <1>2

\* A response was stored; the same responses exist.
LEMMA OthersResp ==
    ASSUME NEW r \in Runs, NEW q, NEW c, NEW ms, NEW t, NEW rs, NEW ss, Good(r, c, ms, t, rs),
           DOMAIN ss = DOMAIN rs,
           q = IF r.resp # None THEN [r EXCEPT !.behind = @ \cup {"resp"}] ELSE r
    PROVE  q \in Runs /\ Good(q, c, ms, t, ss)
<1>1. CASE r.resp = None
  <2>1. q = r
    BY <1>1
  <2>2. ASSUME r # NoRun
        PROVE  RespFresh(r, ss) /\ Shape(r, ms, ss)
    BY <1>1, <2>2 DEF Good, Shape, RespFresh, Surveys
  <2> QED BY <2>1, <2>2 DEF Good
<1>2. CASE r.resp # None
  <2>1. /\ q \in Runs /\ Kept(q, r) /\ q.todo = r.todo /\ q.behind = r.behind \cup {"resp"}
        /\ Call(q) = Call(r)
    BY <1>2, MarkedRun DEF Marked, Docs
  <2>2. r # NoRun
    BY <1>2, NoRunType
  <2>3. Left(r.op, r.todo) /\ Shape(r, ms, rs) /\ MsgFresh(r, ms) /\ RespFresh(r, rs)
        /\ TrackFresh(r, t) /\ ConvFresh(r, c)
    BY <2>2 DEF Good
  <2>4. Left(q.op, q.todo) /\ Shape(q, ms, ss)
    BY <2>1, <2>3 DEF Kept, Shape
  <2>5. RespFresh(q, ss)
    BY <2>1, <2>3 DEF RespFresh, Kept
  <2>6. MsgFresh(q, ms) /\ TrackFresh(q, t) /\ ConvFresh(q, c)
    BY <2>1, <2>3 DEF Kept, MsgFresh, TrackFresh, ConvFresh
  <2> QED BY <2>1, <2>4, <2>5, <2>6, GoodRun
<1> QED BY <1>1, <1>2

\* The first response was created.
LEMMA OthersFirstResp ==
    ASSUME NEW r \in Runs, NEW c, NEW ms, NEW t, NEW ss, Good(r, c, ms, t, <<>>)
    PROVE  Good(r, c, ms, t, ss)
<1>1. CASE r = NoRun
  BY <1>1 DEF Good
<1>2. CASE r # NoRun
  <2>1. Left(r.op, r.todo) /\ Shape(r, ms, <<>>) /\ MsgFresh(r, ms) /\ RespFresh(r, <<>>)
        /\ TrackFresh(r, t) /\ ConvFresh(r, c)
    BY <1>2 DEF Good
  <2>2. r.op \notin Surveys /\ Call(r) # "EnqueueSend"
    BY <2>1 DEF Shape
  <2>3. Shape(r, ms, ss) /\ RespFresh(r, ss)
    BY <2>1, <2>2 DEF Shape, RespFresh, Surveys
  <2> QED BY <2>1, <2>3 DEF Good
<1> QED BY <1>1, <1>2

\* A message was added, by a worker whose copies of messages are older.
LEMMA OthersAppend ==
    ASSUME NEW r \in Runs, NEW q, NEW c, NEW ms \in Seq(Messages), NEW m \in Messages, NEW t, NEW rs,
           Good(r, c, ms, t, rs),
           q = IF r.msg # None THEN [r EXCEPT !.behind = @ \cup {"timeline"}] ELSE r
    PROVE  q \in Runs /\ Good(q, c, Append(ms, m), t, rs)
<1> DEFINE ns == Append(ms, m)
<1>0. DOMAIN ms \subseteq DOMAIN ns /\ \A i \in DOMAIN ms : ns[i] = ms[i]
  <2>1. DOMAIN ms = 1..Len(ms) /\ Len(ms) \in Nat
    OBVIOUS
  <2>2. DOMAIN ns = 1..(Len(ms) + 1) /\ \A i \in 1..Len(ms) : ns[i] = ms[i]
    BY AppendProperties
  <2> QED BY <2>1, <2>2
<1> HIDE DEF ns
<1>1. ASSUME r # NoRun, NEW p, Kept(p, r), p.todo = r.todo, Call(p) = Call(r),
             p.behind \in {r.behind, r.behind \cup {"timeline"}},
             r.msg = None => p.behind = r.behind
      PROVE  Good(p, c, ns, t, rs)
  <2>1. Left(r.op, r.todo) /\ Shape(r, ms, rs) /\ MsgFresh(r, ms) /\ RespFresh(r, rs)
        /\ TrackFresh(r, t) /\ ConvFresh(r, c)
    BY <1>1 DEF Good
  <2>2. Left(p.op, p.todo) /\ Shape(p, ns, rs)
    BY <1>0, <1>1, <2>1 DEF Kept, Shape
  <2>3. Follows(r.op, r.todo)
    BY <2>1, LeftFollows
  <2>4. Call(r) \in {"StoreMsg", "Refresh"} => r.id \in DOMAIN ms
    BY <2>1, <2>3 DEF Follows, Shape, Call
  <2>5. MsgFresh(p, ns)
    BY <1>0, <1>1, <2>1, <2>4 DEF MsgFresh, Kept
  <2>6. RespFresh(p, rs) /\ TrackFresh(p, t) /\ ConvFresh(p, c)
    BY <1>1, <2>1 DEF Kept, RespFresh, TrackFresh, ConvFresh
  <2> QED BY <2>2, <2>5, <2>6, GoodRun
<1>2. CASE r.msg = None
  <2>1. q = r /\ Kept(r, r)
    BY <1>2 DEF Kept
  <2> QED BY <1>1, <1>2, <2>1 DEF Good, ns
<1>3. CASE r.msg # None
  <2>1. /\ q \in Runs /\ Kept(q, r) /\ q.todo = r.todo /\ q.behind = r.behind \cup {"timeline"}
        /\ Call(q) = Call(r)
    BY <1>3, MarkedRun DEF Marked, Docs
  <2>2. r # NoRun
    BY <1>3, NoRunType
  <2> QED BY <1>1, <1>3, <2>1, <2>2 DEF ns
<1> QED BY <1>2, <1>3

\* What the others hold of message id is out of date.
MsgMarked(q, r, id) ==
    q = IF r.msg = None THEN r
        ELSE [r EXCEPT !.behind = @ \cup {IF r.id = id THEN "msg" ELSE "timeline"}]

\* A message was stored: its text, delivery and deletion, never who wrote it
\* and when.
LEMMA OthersMsg ==
    ASSUME NEW r \in Runs, NEW q, NEW c, NEW ms, NEW ns, NEW t, NEW rs, NEW id,
           Good(r, c, ms, t, rs),
           DOMAIN ns = DOMAIN ms, \A i \in DOMAIN ms \ {id} : ns[i] = ms[i],
           \A i \in DOMAIN ms : ns[i].by = ms[i].by /\ ns[i].at = ms[i].at,
           MsgMarked(q, r, id)
    PROVE  q \in Runs /\ Good(q, c, ns, t, rs)
<1>2. CASE r.msg = None
  <2>1. q = r
    BY <1>2 DEF MsgMarked
  <2>2. CASE r = NoRun
    BY <2>1, <2>2 DEF Good
  <2>3. CASE r # NoRun
    <3>1. Left(r.op, r.todo) /\ Shape(r, ms, rs) /\ MsgFresh(r, ms) /\ RespFresh(r, rs)
          /\ TrackFresh(r, t) /\ ConvFresh(r, c)
      BY <2>3 DEF Good
    <3>2. Shape(r, ns, rs)
      BY <3>1 DEF Shape
    <3>3. MsgFresh(r, ns)
      BY <1>2, <3>1 DEF Shape, MsgFresh
    <3> QED BY <2>1, <3>1, <3>2, <3>3, GoodRun
  <2> QED BY <2>2, <2>3
<1>3. CASE r.msg # None
  <2> DEFINE d == IF r.id = id THEN "msg" ELSE "timeline"
  <2>0. d \in Docs /\ Marked(q, r, d)
    BY <1>3 DEF Docs, Marked, MsgMarked
  <2>1. /\ q \in Runs /\ Kept(q, r) /\ q.todo = r.todo /\ q.behind = r.behind \cup {d}
        /\ Call(q) = Call(r)
    BY <2>0, MarkedRun
  <2>2. r # NoRun
    BY <1>3, NoRunType
  <2>3. Left(r.op, r.todo) /\ Shape(r, ms, rs) /\ MsgFresh(r, ms) /\ RespFresh(r, rs)
        /\ TrackFresh(r, t) /\ ConvFresh(r, c)
    BY <2>2 DEF Good
  <2>4. Left(q.op, q.todo) /\ Shape(q, ns, rs)
    BY <1>3, <2>1, <2>3 DEF Kept, Shape
  <2>5. Follows(r.op, r.todo)
    BY <2>3, LeftFollows
  <2>6. Call(r) \in {"StoreMsg", "Refresh"} => r.id \in DOMAIN ms
    BY <2>3, <2>5 DEF Follows, Shape, Call
  <2>7. MsgFresh(q, ns)
    <3>1. CASE r.id = id
      BY <2>1, <2>3, <2>6, <3>1 DEF MsgFresh, Kept
    <3>2. CASE r.id # id
      BY <2>1, <2>3, <2>6, <3>2 DEF MsgFresh, Kept
    <3> QED BY <3>1, <3>2
  <2>8. RespFresh(q, rs) /\ TrackFresh(q, t) /\ ConvFresh(q, c)
    BY <2>1, <2>3 DEF Kept, RespFresh, TrackFresh, ConvFresh
  <2> QED BY <2>1, <2>4, <2>7, <2>8, GoodRun
<1> QED BY <1>2, <1>3

-----------------------------------------------------------------------------
(* How a run begins.                                                       *)

\* The first call of each operation.
LEMMA PlanHeads ==
    ASSUME NEW o \in Operations
    PROVE  /\ o \in OnRow \cup Closes => Head(Plan[o]) = "StoreConv"
           /\ o \in {"Send", "Note", "Inbound"} => Head(Plan[o]) = "CreateMsg"
           /\ o \in OnMessage => Head(Plan[o]) = "FindMsg"
           /\ o = "Receipt" => Head(Plan[o]) = "StoreMsg"
           /\ o = "Check" => Head(Plan[o]) = "LoadConv"
           /\ o \in {"SendSurvey", "Submit"} => Head(Plan[o]) = "FindSurvey"
           /\ o = "Expire" => Head(Plan[o]) = "StoreResp"
           /\ o = "CloseNoting" => Plan[o] # ClosePlan
           /\ o # "CloseNoting" => Plan[o] # NotingPlan
           /\ Plan[o] \in Seq(Calls)
<1>1. /\ Plan["CloseNoting"] = NotingPlan
      /\ NotingPlan # ClosePlan
  BY DEF Plan, NotingPlan, ClosePlan
<1>2. Left(o, Plan[o])
  BY PlansLeft
<1>3. Follows(o, Plan[o])
  BY <1>2, LeftFollows
<1>4. o # "CloseNoting" => Plan[o] # NotingPlan
  BY <1>3 DEF Follows
<1>5. /\ o \in OnRow \cup Closes => Head(Plan[o]) = "StoreConv"
      /\ o \in {"Send", "Note", "Inbound"} => Head(Plan[o]) = "CreateMsg"
      /\ o \in OnMessage => Head(Plan[o]) = "FindMsg"
      /\ o = "Receipt" => Head(Plan[o]) = "StoreMsg"
      /\ o = "Check" => Head(Plan[o]) = "LoadConv"
      /\ o \in {"SendSurvey", "Submit"} => Head(Plan[o]) = "FindSurvey"
      /\ o = "Expire" => Head(Plan[o]) = "StoreResp"
  BY DEF Plan, OnRow, Closes, OnMessage
<1> QED BY <1>1, <1>3, <1>4, <1>5 DEF Follows

\* q is the run of an operation o that has just begun.
IsNew(q, o, c, i, m, t, s) ==
    /\ q.op = o /\ q.todo = Plan[o] /\ q.conv = c /\ q.id = i /\ q.msg = m /\ q.track = t
    /\ q.resp = s /\ q.at = clock /\ q.behind = {}

\* The copies an operation begins with, against the documents they are of.
Starts(o, c, i, m, t, s) ==
    \/ /\ o \in OnRow \cup Closes \cup {"Send", "Note", "Inbound"}
       /\ c \in Row /\ c.last = conv.last
       /\ o = "MarkUnread" => c.unread = 1 /\ conv.unread = 0
       /\ o \notin {"MarkRead", "MarkUnread"} => c.unread = conv.unread
       /\ i = 0 /\ m = None /\ t = None /\ s = None
    \/ /\ o \in OnMessage
       /\ c = conv /\ i \in DOMAIN msgs
       /\ m = None /\ t = None /\ s = None
    \/ /\ o = "Receipt"
       /\ i \in DOMAIN msgs /\ m \in Messages
       /\ m.by = msgs[i].by /\ m.at = msgs[i].at /\ Changed(o, msgs[i], m)
       /\ c = None /\ t = None /\ s = None
    \/ /\ o = "Check"
       /\ t = track /\ track.status = "running"
       /\ c = None /\ i = 0 /\ m = None /\ s = None
    \/ /\ o \in Surveys
       /\ i \in DOMAIN resps /\ resps[i].status = "sent" /\ s \in Response
       /\ o = "SendSurvey" => s.status = "sent" /\ s.sentAt
       /\ o = "Expire" => s.status = "expired"
       /\ o = "Submit" => s.status = "responded"
       /\ c = None /\ m = None /\ t = None

\* Worker w has begun the operation o.
Begun(w, o, c, i, m, t, s) ==
    /\ run[w] = NoRun
    /\ Starts(o, c, i, m, t, s)
    /\ \E q \in Runs : IsNew(q, o, c, i, m, t, s) /\ run' = [run EXCEPT ![w] = q]
    /\ UNCHANGED <<conv, msgs, track, resps, env, history>>

\* The documents have their types.
LEMMA StoreTypes ==
    ASSUME StoreOK
    PROVE  /\ conv \in Row /\ conv # None /\ clock \in Nat
           /\ \A i \in DOMAIN msgs : msgs[i] \in Messages /\ i \in Nat \ {0}
           /\ DOMAIN msgs = 1..Len(msgs) /\ Len(msgs) \in Nat
           /\ track \in Tracking /\ track # None
           /\ \A i \in DOMAIN resps : resps[i] \in Response /\ i = 1
           /\ resps # <<>> => DOMAIN resps = {1}
           /\ resps = <<>> => DOMAIN resps = {}
<1>1. conv \in Row /\ track \in Tracking /\ clock \in Nat /\ msgs \in Seq(Messages)
  BY DEF StoreOK
<1>2. DOMAIN msgs = 1..Len(msgs) /\ Len(msgs) \in Nat /\ \A i \in 1..Len(msgs) : msgs[i] \in Messages
  BY <1>1
<1>3. CASE resps = <<>>
  BY <1>1, <1>2, <1>3, NoneAssumption
<1>4. CASE \E x \in Response : resps = <<x>>
  <2>1. PICK x \in Response : resps = <<x>>
    BY <1>4
  <2>2. DOMAIN resps = {1} /\ resps[1] = x
    BY <2>1
  <2>3. DOMAIN <<>> = {}
    OBVIOUS
  <2> QED BY <1>1, <1>2, <2>1, <2>2, <2>3, NoneAssumption
<1> QED BY <1>3, <1>4 DEF StoreOK

\* A run that has begun has good copies.
LEMMA BegunGood ==
    ASSUME StoreOK, NEW q, NEW o, NEW c, NEW i, NEW m, NEW t, NEW s,
           IsNew(q, o, c, i, m, t, s), Starts(o, c, i, m, t, s)
    PROVE  Good(q, conv, msgs, track, resps)
<1>1. /\ q.op = o /\ q.todo = Plan[o] /\ q.conv = c /\ q.id = i /\ q.msg = m /\ q.track = t
      /\ q.resp = s /\ q.at = clock /\ q.behind = {} /\ Call(q) = Head(Plan[o])
  BY DEF IsNew, Call
<1>2. o \in Operations
  BY OperationNames DEF Starts
<1>5. Left(q.op, q.todo)
  BY <1>1, <1>2, PlansLeft
<1>6. Shape(q, msgs, resps)
  BY <1>1, <1>2, PlanHeads, StoreTypes, NoneAssumption DEF Starts, Shape, OnRow, Closes, OnMessage, Surveys
<1>7. ConvFresh(q, conv)
  BY <1>1, <1>2, PlanHeads DEF Starts, ConvFresh, OnRow, Closes, OnMessage, Surveys
<1>8. MsgFresh(q, msgs)
  BY <1>1, <1>2, PlanHeads DEF Starts, MsgFresh, OnRow, Closes, OnMessage, Surveys
<1>9. RespFresh(q, resps)
  BY <1>1, <1>2, PlanHeads DEF Starts, RespFresh, OnRow, Closes, OnMessage, Surveys
<1>10. TrackFresh(q, track)
  BY <1>1, <1>2, PlanHeads DEF Starts, TrackFresh, OnRow, Closes, OnMessage, Surveys
<1> QED BY <1>5, <1>6, <1>7, <1>8, <1>9, <1>10, GoodRun

\* The run Begin makes of the copies r.
LEMMA BeginRun ==
    ASSUME StoreOK, NEW w, NEW o \in Operations, NEW r \in Runs, r.behind = {}, Begin(w, o, r)
    PROVE  /\ run[w] = NoRun /\ UNCHANGED <<env, history>>
           /\ \E q \in Runs : /\ IsNew(q, o, r.conv, r.id, r.msg, r.track, r.resp)
                             /\ run' = [run EXCEPT ![w] = q]
<1> DEFINE q == [r EXCEPT !.op = o, !.todo = Plan[o], !.at = clock]
<1>1. Plan[o] \in Seq(Calls) /\ clock \in Nat
  BY PlanHeads, StoreTypes
<1>2. q \in Runs
  BY <1>1 DEF Runs
<1>3. IsNew(q, o, r.conv, r.id, r.msg, r.track, r.resp)
  BY DEF Runs, IsNew
<1>4. run' = [run EXCEPT ![w] = q] /\ run[w] = NoRun /\ UNCHANGED <<env, history>>
  BY DEF Begin, Idle
<1> QED BY <1>2, <1>3, <1>4

\* It has begun.
LEMMA BeginBegun ==
    ASSUME StoreOK, NEW w, NEW o, NEW c, NEW i, NEW m, NEW t, NEW s, NEW r \in Runs, r.behind = {},
           r.conv = c, r.id = i, r.msg = m, r.track = t, r.resp = s,
           Begin(w, o, r), Starts(o, c, i, m, t, s), UNCHANGED <<conv, msgs, track, resps>>
    PROVE  Begun(w, o, c, i, m, t, s)
<1>1. o \in Operations
  BY OperationNames DEF Starts
<1> QED BY <1>1, BeginRun DEF Begun, env, history

\* An operation on the conversation has begun with a copy c.
LEMMA OnConvBegun ==
    ASSUME StoreOK, NEW w, NEW o \in OnRow \cup Closes \cup {"Send", "Note", "Inbound"},
           NEW c \in Row, c.last = conv.last,
           o = "MarkUnread" => c.unread = 1 /\ conv.unread = 0,
           o \notin {"MarkRead", "MarkUnread"} => c.unread = conv.unread,
           OnConv(w, o, c)
    PROVE  Begun(w, o, c, 0, None, None, None) /\ tasks' = tasks
<1> DEFINE r == [NoRun EXCEPT !.conv = c]
<1>1. /\ r \in Runs /\ r.behind = {} /\ r.conv = c /\ r.id = 0 /\ r.msg = None
      /\ r.track = None /\ r.resp = None
  BY NoRunType DEF Runs
<1>2. Begin(w, o, r) /\ UNCHANGED <<conv, msgs, track, resps, tasks>>
  BY DEF OnConv, store
<1>3. Starts(o, c, 0, None, None, None)
  BY DEF Starts
<1> HIDE DEF r
<1> QED BY <1>1, <1>2, <1>3, BeginBegun

\* The operations on the conversation.
LEMMA ConvBegins ==
    ASSUME StoreOK, NEW w \in Workers,
           \/ Patch(w) \/ Tags(w) \/ MarkRead(w) \/ MarkUnread(w) \/ Reopen(w) \/ Close(w)
           \/ CloseInactive(w) \/ SendMessage(w) \/ AddInternalNote(w) \/ Inbound(w)
    PROVE  /\ \E o, c : /\ o \in OnRow \cup Closes \cup {"Send", "Note", "Inbound"}
                        /\ Begun(w, o, c, 0, None, None, None)
           /\ tasks' = tasks
<1> DEFINE Goal == /\ \E o, c : /\ o \in OnRow \cup Closes \cup {"Send", "Note", "Inbound"}
                                /\ Begun(w, o, c, 0, None, None, None)
                   /\ tasks' = tasks
<1>1. ASSUME NEW o \in OnRow \cup Closes \cup {"Send", "Note", "Inbound"}, NEW c,
             Begun(w, o, c, 0, None, None, None), tasks' = tasks
      PROVE  Goal
  BY <1>1
<1> HIDE DEF Goal
<1>2. conv \in Row
  BY DEF StoreOK
<1>3. CASE Patch(w)
  <2>1. PICK z \in PatchTo : OnConv(w, "Patch", [conv EXCEPT !.status = z])
    BY <1>3 DEF Patch
  <2> DEFINE c == [conv EXCEPT !.status = z]
  <2>2. z \in Statuses
    BY DeskAssumption
  <2>3. c \in Row /\ c.last = conv.last /\ c.unread = conv.unread
    BY <1>2, <2>2 DEF Row
  <2>4. OnConv(w, "Patch", c) /\ "Patch" \in OnRow
    BY <2>1 DEF OnRow
  <2> HIDE DEF c
  <2>5. Begun(w, "Patch", c, 0, None, None, None) /\ tasks' = tasks
    BY <2>3, <2>4, OnConvBegun
  <2> QED BY <1>1, <2>4, <2>5
<1>4. CASE Tags(w)
  <2>1. OnConv(w, "Tags", conv) /\ "Tags" \in OnRow
    BY <1>4 DEF Tags, OnRow
  <2>2. Begun(w, "Tags", conv, 0, None, None, None) /\ tasks' = tasks
    BY <1>2, <2>1, OnConvBegun
  <2> QED BY <1>1, <2>1, <2>2
<1>5. CASE MarkRead(w)
  <2> DEFINE c == [conv EXCEPT !.unread = 0, !.read = TRUE]
  <2>1. c \in Row /\ c.last = conv.last
    BY <1>2 DEF Row
  <2>2. OnConv(w, "MarkRead", c) /\ "MarkRead" \in OnRow
    BY <1>5 DEF MarkRead, OnRow
  <2> HIDE DEF c
  <2>3. Begun(w, "MarkRead", c, 0, None, None, None) /\ tasks' = tasks
    BY <2>1, <2>2, OnConvBegun
  <2> QED BY <1>1, <2>2, <2>3
<1>6. CASE MarkUnread(w)
  <2> DEFINE c == [conv EXCEPT !.unread = 1]
  <2>1. c \in Row /\ c.last = conv.last /\ c.unread = 1
    BY <1>2 DEF Row
  <2>2. OnConv(w, "MarkUnread", c) /\ "MarkUnread" \in OnRow /\ conv.unread = 0
    BY <1>6 DEF MarkUnread, OnRow
  <2> HIDE DEF c
  <2>3. Begun(w, "MarkUnread", c, 0, None, None, None) /\ tasks' = tasks
    BY <2>1, <2>2, OnConvBegun
  <2> QED BY <1>1, <2>2, <2>3
<1>7. CASE Reopen(w)
  <2>1. Reopened(conv) \in Row /\ Reopened(conv).last = conv.last /\ Reopened(conv).unread = conv.unread
    BY <1>2 DEF Row, Reopened, Statuses
  <2>2. OnConv(w, "Reopen", Reopened(conv)) /\ "Reopen" \in OnRow
    BY <1>7 DEF Reopen, OnRow
  <2>3. Begun(w, "Reopen", Reopened(conv), 0, None, None, None) /\ tasks' = tasks
    BY <2>1, <2>2, OnConvBegun
  <2> QED BY <1>1, <2>2, <2>3
<1>8. Closed(conv) \in Row /\ Closed(conv).last = conv.last /\ Closed(conv).unread = conv.unread
  BY <1>2 DEF Row, Closed, Statuses, ClosedStatuses
<1>9. CASE Close(w) \/ CloseInactive(w)
  <2>1. PICK o \in Closes : OnConv(w, o, Closed(conv))
    BY <1>9 DEF Close, CloseInactive, Closes
  <2>2. Begun(w, o, Closed(conv), 0, None, None, None) /\ tasks' = tasks
    BY <1>8, <2>1, OnConvBegun DEF Closes
  <2> QED BY <1>1, <2>2
<1>11. CASE SendMessage(w) \/ AddInternalNote(w) \/ Inbound(w)
  <2>1. PICK o \in {"Send", "Note", "Inbound"} : OnConv(w, o, conv)
    BY <1>11 DEF SendMessage, AddInternalNote, Inbound
  <2>2. Begun(w, o, conv, 0, None, None, None) /\ tasks' = tasks
    BY <1>2, <2>1, OnConvBegun
  <2> QED BY <1>1, <2>2
<1> QED BY <1>3, <1>4, <1>5, <1>6, <1>7, <1>9, <1>11 DEF Goal

\* Edits, deletions, receipts and checks.
LEMMA MsgBegins ==
    ASSUME StoreOK, NEW w \in Workers,
           EditMessage(w) \/ DeleteMessage(w) \/ ApplyDeliveryReceipt(w) \/ RunCheck(w)
    PROVE  /\ \E o, c, i, m, t : /\ o \in OnMessage \cup {"Receipt", "Check"}
                                 /\ Begun(w, o, c, i, m, t, None)
           /\ tasks' = tasks
<1>1. CASE EditMessage(w)
  <2>1. PICK i \in DOMAIN msgs :
            Begin(w, "Edit", [NoRun EXCEPT !.conv = conv, !.id = i]) /\ UNCHANGED store
    BY <1>1 DEF EditMessage
  <2>2. Starts("Edit", conv, i, None, None, None)
    BY DEF Starts, OnMessage
  <2> DEFINE r == [NoRun EXCEPT !.conv = conv, !.id = i]
  <2>3. /\ r \in Runs /\ r.behind = {} /\ r.conv = conv /\ r.id = i /\ r.msg = None
        /\ r.track = None /\ r.resp = None
    BY NoRunType, StoreTypes DEF Runs
  <2>4. Begin(w, "Edit", r) /\ UNCHANGED <<conv, msgs, track, resps, tasks>>
    BY <2>1 DEF store
  <2> HIDE DEF r
  <2>5. Begun(w, "Edit", conv, i, None, None, None) /\ tasks' = tasks
    BY <2>2, <2>3, <2>4, BeginBegun
  <2> QED BY <2>5 DEF OnMessage
<1>2. CASE DeleteMessage(w)
  <2>1. PICK i \in DOMAIN msgs :
            Begin(w, "Delete", [NoRun EXCEPT !.conv = conv, !.id = i]) /\ UNCHANGED store
    BY <1>2 DEF DeleteMessage
  <2>2. Starts("Delete", conv, i, None, None, None)
    BY DEF Starts, OnMessage
  <2> DEFINE r == [NoRun EXCEPT !.conv = conv, !.id = i]
  <2>3. /\ r \in Runs /\ r.behind = {} /\ r.conv = conv /\ r.id = i /\ r.msg = None
        /\ r.track = None /\ r.resp = None
    BY NoRunType, StoreTypes DEF Runs
  <2>4. Begin(w, "Delete", r) /\ UNCHANGED <<conv, msgs, track, resps, tasks>>
    BY <2>1 DEF store
  <2> HIDE DEF r
  <2>5. Begun(w, "Delete", conv, i, None, None, None) /\ tasks' = tasks
    BY <2>2, <2>3, <2>4, BeginBegun
  <2> QED BY <2>5 DEF OnMessage
<1>3. CASE ApplyDeliveryReceipt(w)
  <2>1. PICK i \in DOMAIN msgs, to \in Receipts :
            /\ msgs[i].delivery # "none" /\ DeliveryAdvances(msgs[i].delivery, to)
            /\ Begin(w, "Receipt", [NoRun EXCEPT !.id = i, !.msg = [msgs[i] EXCEPT !.delivery = to]])
            /\ UNCHANGED store
    BY <1>3 DEF ApplyDeliveryReceipt
  <2> DEFINE m == [msgs[i] EXCEPT !.delivery = to]
  <2>2. msgs[i] \in Messages
    BY StoreTypes
  <2>3. to \in {"delivered", "read", "failed"}
    BY DeskAssumption
  <2>4. m \in Messages /\ m.by = msgs[i].by /\ m.at = msgs[i].at
    BY <2>2, <2>3 DEF Messages
  <2>6. Changed("Receipt", msgs[i], m)
    BY DEF Changed
  <2> DEFINE r == [NoRun EXCEPT !.id = i, !.msg = m]
  <2>7. Begin(w, "Receipt", r) /\ UNCHANGED <<conv, msgs, track, resps, tasks>>
    BY <2>1 DEF store
  <2> HIDE DEF m
  <2>71. /\ r \in Runs /\ r.behind = {} /\ r.conv = None /\ r.id = i /\ r.msg = m
         /\ r.track = None /\ r.resp = None
    BY <2>4, NoRunType, StoreTypes DEF Runs
  <2> HIDE DEF r
  <2>8. Starts("Receipt", None, i, m, None, None)
    BY <2>4, <2>6 DEF Starts
  <2>9. Begun(w, "Receipt", None, i, m, None, None) /\ tasks' = tasks
    BY <2>7, <2>71, <2>8, BeginBegun
  <2> QED BY <2>9
<1>4. CASE RunCheck(w)
  <2>1. Starts("Check", None, 0, None, track, None)
    BY <1>4 DEF Starts, RunCheck
  <2> DEFINE r == [NoRun EXCEPT !.track = track]
  <2>3. /\ r \in Runs /\ r.behind = {} /\ r.conv = None /\ r.id = 0 /\ r.msg = None
        /\ r.track = track /\ r.resp = None
    BY NoRunType, StoreTypes DEF Runs
  <2>4. Begin(w, "Check", r) /\ UNCHANGED <<conv, msgs, track, resps, tasks>>
    BY <1>4 DEF RunCheck, store
  <2> HIDE DEF r
  <2>2. Begun(w, "Check", None, 0, None, track, None) /\ tasks' = tasks
    BY <2>1, <2>3, <2>4, BeginBegun
  <2> QED BY <2>2
<1> QED BY <1>1, <1>2, <1>3, <1>4

\* The survey's tasks, taken or found void, and the customer's answer.
LEMMA SurveyBegins ==
    ASSUME StoreOK, NEW w \in Workers, SendSurvey(w) \/ Expire(w) \/ SubmitByToken(w)
    PROVE  \/ \E k \in tasks :
                 /\ tasks' = tasks \ {k}
                 /\ \/ \E s : /\ k.kind = "send" /\ ~resps[k.id].sentAt
                              /\ Begun(w, "SendSurvey", None, k.id, None, None, s)
                    \/ \E s : /\ k.kind = "expire"
                              /\ Begun(w, "Expire", None, k.id, None, None, s)
                    \/ /\ k.kind = "send" => resps[k.id].status # "sent" \/ resps[k.id].sentAt
                       /\ k.kind = "expire" => resps[k.id].status # "sent"
                       /\ UNCHANGED <<conv, msgs, track, resps, run, env, history>>
           \/ /\ tasks' = tasks
              /\ \E i, s : Begun(w, "Submit", None, i, None, None, s)
<1>1. CASE SendSurvey(w)
  <2>1. PICK k \in tasks :
           k.kind = "send" /\ TakeTask(w, k, "SendSurvey", Sendable(resps[k.id]), Sent(resps[k.id]))
    BY <1>1 DEF SendSurvey
  <2>2. k.id \in DOMAIN resps /\ k.tries \in 0..(MaxRetry + 1)
    BY DEF StoreOK
  <2>21. k.tries \in 0..MaxRetry
    BY <2>1, <2>2, DeskAssumption DEF TakeTask
  <2>3. resps[k.id] \in Response
    BY <2>2, StoreTypes
  <2> DEFINE s == Sent(resps[k.id])
  <2>4. /\ s \in Response /\ s.status = resps[k.id].status /\ s.sentAt
    BY <2>3 DEF Response, Sent
  <2>5. CASE Sendable(resps[k.id])
    <3> DEFINE r == [NoRun EXCEPT !.id = k.id, !.resp = s, !.tries = k.tries]
    <3>1. /\ Begin(w, "SendSurvey", r)
          /\ UNCHANGED <<conv, msgs, track, resps>> /\ tasks' = tasks \ {k}
      BY <2>1, <2>5 DEF TakeTask
    <3>2. resps[k.id].status = "sent" /\ ~resps[k.id].sentAt
      BY <2>5 DEF Sendable
    <3> HIDE DEF s
    <3>6. k.id \in Nat /\ s \in Response
      BY <2>2, <2>4, StoreTypes
    <3>5. /\ r \in Runs /\ r.behind = {} /\ r.conv = None /\ r.id = k.id /\ r.msg = None
          /\ r.track = None /\ r.resp = s
      BY <2>21, <3>6, NoRunType DEF Runs
    <3> HIDE DEF r
    <3>3. Starts("SendSurvey", None, k.id, None, None, s)
      BY <2>2, <2>4, <3>2 DEF Starts, Surveys
    <3>4. Begun(w, "SendSurvey", None, k.id, None, None, s)
      BY <3>1, <3>3, <3>5, BeginBegun
    <3> QED BY <2>1, <3>1, <3>2, <3>4
  <2>6. CASE ~Sendable(resps[k.id])
    <3>1. UNCHANGED <<conv, msgs, track, resps, run, env, history>> /\ tasks' = tasks \ {k}
      BY <2>1, <2>6 DEF TakeTask
    <3> QED BY <2>1, <2>6, <3>1 DEF Sendable
  <2> QED BY <2>5, <2>6
<1>2. CASE Expire(w)
  <2>1. PICK k \in tasks :
           k.kind = "expire" /\ TakeTask(w, k, "Expire", Expirable(resps[k.id]), Expired(resps[k.id]))
    BY <1>2 DEF Expire
  <2>2. k.id \in DOMAIN resps /\ k.tries \in 0..(MaxRetry + 1)
    BY DEF StoreOK
  <2>21. k.tries \in 0..MaxRetry
    BY <2>1, <2>2, DeskAssumption DEF TakeTask
  <2>3. resps[k.id] \in Response
    BY <2>2, StoreTypes
  <2> DEFINE s == Expired(resps[k.id])
  <2>4. s \in Response /\ s.status = "expired"
    BY <2>3 DEF Response, Expired
  <2>5. CASE Expirable(resps[k.id])
    <3> DEFINE r == [NoRun EXCEPT !.id = k.id, !.resp = s, !.tries = k.tries]
    <3>1. /\ Begin(w, "Expire", r)
          /\ UNCHANGED <<conv, msgs, track, resps>> /\ tasks' = tasks \ {k}
      BY <2>1, <2>5 DEF TakeTask
    <3>2. resps[k.id].status = "sent"
      BY <2>5 DEF Expirable
    <3> HIDE DEF s
    <3>6. k.id \in Nat /\ s \in Response
      BY <2>2, <2>4, StoreTypes
    <3>5. /\ r \in Runs /\ r.behind = {} /\ r.conv = None /\ r.id = k.id /\ r.msg = None
          /\ r.track = None /\ r.resp = s
      BY <2>21, <3>6, NoRunType DEF Runs
    <3> HIDE DEF r
    <3>3. Starts("Expire", None, k.id, None, None, s)
      BY <2>2, <2>4, <3>2 DEF Starts, Surveys
    <3>4. Begun(w, "Expire", None, k.id, None, None, s)
      BY <3>1, <3>3, <3>5, BeginBegun
    <3> QED BY <2>1, <3>1, <3>4
  <2>6. CASE ~Expirable(resps[k.id])
    <3>1. UNCHANGED <<conv, msgs, track, resps, run, env, history>> /\ tasks' = tasks \ {k}
      BY <2>1, <2>6 DEF TakeTask
    <3> QED BY <2>1, <2>6, <3>1 DEF Expirable
  <2> QED BY <2>5, <2>6
<1>3. CASE SubmitByToken(w)
  <2>1. PICK i \in DOMAIN resps :
           /\ Answerable(resps[i])
           /\ Begin(w, "Submit", [NoRun EXCEPT !.id = i, !.resp = Answered(resps[i])])
           /\ UNCHANGED store
    BY <1>3 DEF SubmitByToken
  <2>2. resps[i] \in Response
    BY StoreTypes
  <2> DEFINE s == Answered(resps[i])
  <2>3. s \in Response /\ s.status = "responded"
    BY <2>2 DEF Response, Answered
  <2>4. resps[i].status = "sent"
    BY <2>1 DEF Answerable
  <2> DEFINE r == [NoRun EXCEPT !.id = i, !.resp = s]
  <2>5. Begin(w, "Submit", r) /\ UNCHANGED <<conv, msgs, track, resps, tasks>>
    BY <2>1 DEF store
  <2> HIDE DEF s
  <2>52. i \in Nat /\ s \in Response
    BY <2>3, StoreTypes
  <2>51. /\ r \in Runs /\ r.behind = {} /\ r.conv = None /\ r.id = i /\ r.msg = None
         /\ r.track = None /\ r.resp = s
    BY <2>52, NoRunType DEF Runs
  <2> HIDE DEF r
  <2>6. Starts("Submit", None, i, None, None, s)
    BY <2>3, <2>4 DEF Starts, Surveys
  <2>7. Begun(w, "Submit", None, i, None, None, s) /\ tasks' = tasks
    BY <2>5, <2>51, <2>6, BeginBegun
  <2> QED BY <2>7
<1> QED BY <1>1, <1>2, <1>3

-----------------------------------------------------------------------------
(* What each call keeps.                                                   *)

\* The next call of a busy run.
LEMMA AtCall ==
    ASSUME NEW w, NEW c, At(w, c)
    PROVE  run[w] # NoRun /\ Call(run[w]) = c
BY DEF At, Idle, Call

\* What a run is that has gone one call on from a copy r of the run of w.
OwnMove(q, r, c) ==
    /\ q \in Runs /\ Kept(q, r) /\ q.behind = r.behind
    /\ Left(q.op, q.todo) /\ Call(q) = c /\ q.todo # NotingPlan
    /\ q.todo = ClosePlan => Call(r) = "CreateMsg"

\* The run of a worker after a call that its plan alone determines.
LEMMA OwnMoves ==
    ASSUME DeskOK, NEW w \in Workers, run[w] # NoRun,
           NEW r \in Runs, r.op = run[w].op, r.todo = run[w].todo,
           NEW c, Moves(r.op, r.todo, c)
    PROVE  OwnMove(After(r), r, c)
<1>1. GoesTo(After(r), r, c)
  BY GoesOn
<1>2. Follows(r.op, r.todo)
  BY BusyRun
<1>3. Len(r.todo) # 1
  BY DEF Moves
<1>4. /\ Tail(r.todo) # NotingPlan
      /\ Tail(r.todo) = ClosePlan => Call(r) = "CreateMsg"
  BY <1>2, <1>3 DEF Follows, Call
<1> QED BY <1>1, <1>4 DEF GoesTo, OwnMove

\* One worker goes on and the documents stay.
LEMMA OwnStep ==
    ASSUME DeskOK, NEW w \in Workers, NEW q \in Runs, Good(q, conv, msgs, track, resps),
           run' = [run EXCEPT ![w] = q], UNCHANGED <<conv, msgs, track, resps>>
    PROVE  /\ run' \in [Workers -> Runs]
           /\ \A v \in Workers : Good(run[v], conv, msgs, track, resps)'
<1>1. /\ run'[w] = q /\ run' \in [Workers -> Runs]
      /\ \A v \in Workers \ {w} : run'[v] = run[v]
  BY OneRun
<1>2. ASSUME NEW v \in Workers
      PROVE  Good(run'[v], conv, msgs, track, resps)
  BY <1>1 DEF DeskOK
<1>3. ASSUME NEW v \in Workers
      PROVE  Good(run[v], conv, msgs, track, resps)'
  BY <1>2
<1> QED BY <1>1, <1>3

\* The idle run is good whatever is stored.
LEMMA IdleGood == \A c, ms, t, rs : Good(NoRun, c, ms, t, rs)
BY DEF Good

\* Nothing that is stored or recorded changes but that tasks are taken.
LEMMA StoreStays ==
    ASSUME StoreOK, UNCHANGED <<conv, msgs, track, resps, clock, unseen, answered, fired>>,
           tasks' \subseteq tasks
    PROVE  StoreOK'
BY DEF StoreOK

\* A worker gives up.
LEMMA ReturnStep ==
    ASSUME DeskOK, NEW w \in Workers, Return(w), UNCHANGED <<conv, msgs, track, resps>>
    PROVE  /\ run' \in [Workers -> Runs]
           /\ \A v \in Workers : Good(run[v], conv, msgs, track, resps)'
BY OwnStep, IdleGood, NoRunType DEF Return

\* LoadConv brings the copy of the conversation up to date.
LEMMA LoadConvKeeps ==
    ASSUME DeskOK, NEW w \in Workers, LoadConv(w)
    PROVE  DeskOK'
<1> DEFINE r == [run[w] EXCEPT !.conv = conv, !.behind = @ \ {"conv"}]
<1> DEFINE q == After(r)
<1>0. StoreOK
  BY DEF DeskOK
<1>1. run[w] # NoRun /\ Call(run[w]) = "LoadConv"
  BY AtCall DEF LoadConv
<1>2. /\ run[w] \in Runs
      /\ Follows(run[w].op, run[w].todo)
      /\ Shape(run[w], msgs, resps) /\ RespFresh(run[w], resps) /\ TrackFresh(run[w], track)
  BY <1>1, BusyRun
<1>3. /\ r \in Runs /\ r.op = run[w].op /\ r.todo = run[w].todo /\ r.conv = conv
      /\ r.id = run[w].id /\ r.msg = run[w].msg /\ r.track = run[w].track
      /\ r.resp = run[w].resp /\ r.behind = run[w].behind \ {"conv"} /\ Call(r) = "LoadConv"
  BY <1>0, <1>1, <1>2, StoreTypes DEF Runs, Call
<1>4. run' = [run EXCEPT ![w] = q] /\ UNCHANGED <<store, env, history>>
  BY DEF LoadConv, Advance
<1> HIDE DEF r
<1>5. \/ r.op \in {"CloseNoting", "SendSurvey"} /\ Moves(r.op, r.todo, "CreateMsg")
      \/ r.op = "Check" /\ Moves(r.op, r.todo, "Fire")
  BY <1>1, <1>2, <1>3 DEF Follows, Call
<1>6. PICK c \in {"CreateMsg", "Fire"} : OwnMove(q, r, c) /\ (r.op = "Check" <=> c = "Fire")
  BY <1>1, <1>3, <1>5, OwnMoves
<1> HIDE DEF q
<1>7. Shape(q, msgs, resps)
  BY <1>0, <1>1, <1>2, <1>3, <1>5, <1>6, StoreTypes
  DEF OwnMove, Kept, Shape, OnRow, Closes, OnMessage, Surveys
<1>8. ConvFresh(q, conv) /\ MsgFresh(q, msgs)
  BY <1>1, <1>2, <1>3, <1>5, <1>6 DEF OwnMove, Kept, ConvFresh, MsgFresh
<1>9. RespFresh(q, resps) /\ TrackFresh(q, track)
  BY <1>1, <1>2, <1>3, <1>5, <1>6 DEF OwnMove, Kept, RespFresh, TrackFresh, Surveys
<1>10. q \in Runs /\ Good(q, conv, msgs, track, resps)
  BY <1>6, <1>7, <1>8, <1>9, GoodRun DEF OwnMove
<1>11. StoreOK'
  BY <1>0, <1>4, StoreStays DEF store, env, history
<1> QED BY <1>4, <1>10, <1>11, OwnStep DEF DeskOK, store

\* FindMsg loads the message and changes the copy.
LEMMA FindMsgKeeps ==
    ASSUME DeskOK, NEW w \in Workers, FindMsg(w)
    PROVE  DeskOK'
<1> DEFINE m == msgs[run[w].id]
<1>0. StoreOK
  BY DEF DeskOK
<1>1. run[w] # NoRun /\ Call(run[w]) = "FindMsg"
  BY AtCall DEF FindMsg
<1>2. /\ run[w] \in Runs
      /\ Follows(run[w].op, run[w].todo)
      /\ Shape(run[w], msgs, resps) /\ RespFresh(run[w], resps) /\ TrackFresh(run[w], track)
      /\ ConvFresh(run[w], conv)
  BY <1>1, BusyRun
<1>3. run[w].op \in OnMessage /\ Moves(run[w].op, run[w].todo, "StoreMsg")
  BY <1>1, <1>2 DEF Follows, Call
<1>4. run[w].id \in DOMAIN msgs /\ m \in Messages /\ run[w].msg = None
  BY <1>0, <1>1, <1>2, <1>3, StoreTypes DEF Shape
<1>5. UNCHANGED <<store, env, history>>
  BY DEF FindMsg
<1>6. StoreOK'
  BY <1>0, <1>5, StoreStays DEF store, env, history
<1>7. CASE Return(w)
  BY <1>5, <1>6, <1>7, ReturnStep DEF DeskOK, store
<1>8. ASSUME NEW n \in Messages, n.by = m.by, n.at = m.at, Changed(run[w].op, m, n),
             Advance(w, [run[w] EXCEPT !.msg = n])
      PROVE  DeskOK'
  <2> DEFINE r == [run[w] EXCEPT !.msg = n]
  <2> DEFINE q == After(r)
  <2>1. /\ r \in Runs /\ r.op = run[w].op /\ r.todo = run[w].todo /\ r.conv = run[w].conv
        /\ r.id = run[w].id /\ r.msg = n /\ r.track = run[w].track
        /\ r.resp = run[w].resp /\ r.behind = run[w].behind /\ Call(r) = "FindMsg"
    BY <1>1, <1>2 DEF Runs, Call
  <2>2. run' = [run EXCEPT ![w] = q]
    BY <1>8 DEF Advance
  <2> HIDE DEF r, m
  <2>3. OwnMove(q, r, "StoreMsg")
    BY <1>1, <1>3, <2>1, OwnMoves
  <2> HIDE DEF q
  <2>4. n # None
    BY NoneAssumption
  <2>5. Shape(q, msgs, resps)
    BY <1>1, <1>2, <1>3, <1>4, <2>1, <2>3, <2>4
    DEF OwnMove, Kept, Shape, OnRow, Closes, OnMessage, Surveys
  <2>6. ConvFresh(q, conv)
    BY <1>1, <1>2, <1>3, <1>4, <2>1, <2>3 DEF OwnMove, Kept, ConvFresh, OnMessage
  <2>7. MsgFresh(q, msgs)
    BY <1>8, <2>1, <2>3 DEF OwnMove, Kept, MsgFresh, m
  <2>8. RespFresh(q, resps) /\ TrackFresh(q, track)
    BY <1>3, <2>1, <2>3 DEF OwnMove, Kept, RespFresh, TrackFresh, Surveys, OnMessage
  <2>9. q \in Runs /\ Good(q, conv, msgs, track, resps)
    BY <2>3, <2>5, <2>6, <2>7, <2>8, GoodRun DEF OwnMove
  <2> QED BY <1>5, <1>6, <2>2, <2>9, OwnStep DEF DeskOK, store
<1>9. CASE run[w].op = "Edit" /\ Advance(w, [run[w] EXCEPT !.msg = [m EXCEPT !.edited = TRUE]])
  <2>1. /\ [m EXCEPT !.edited = TRUE] \in Messages
        /\ [m EXCEPT !.edited = TRUE].by = m.by /\ [m EXCEPT !.edited = TRUE].at = m.at
    BY <1>4 DEF Messages
  <2>2. Changed(run[w].op, m, [m EXCEPT !.edited = TRUE])
    BY <1>9 DEF Changed
  <2> QED BY <1>8, <1>9, <2>1, <2>2
<1>10. CASE run[w].op = "Delete" /\ Advance(w, [run[w] EXCEPT !.msg = [m EXCEPT !.deleted = TRUE]])
  <2>1. /\ [m EXCEPT !.deleted = TRUE] \in Messages
        /\ [m EXCEPT !.deleted = TRUE].by = m.by /\ [m EXCEPT !.deleted = TRUE].at = m.at
    BY <1>4 DEF Messages
  <2>2. Changed(run[w].op, m, [m EXCEPT !.deleted = TRUE])
    BY <1>10 DEF Changed
  <2> QED BY <1>8, <1>10, <2>1, <2>2
<1> QED BY <1>7, <1>9, <1>10 DEF FindMsg

\* Refresh changes the snapshot in the copy.
LEMMA RefreshKeeps ==
    ASSUME DeskOK, NEW w \in Workers, Refresh(w)
    PROVE  DeskOK'
<1>0. StoreOK
  BY DEF DeskOK
<1>1. run[w] # NoRun /\ Call(run[w]) = "Refresh"
  BY AtCall DEF Refresh
<1>2. /\ run[w] \in Runs
      /\ Follows(run[w].op, run[w].todo)
      /\ Shape(run[w], msgs, resps) /\ RespFresh(run[w], resps) /\ TrackFresh(run[w], track)
      /\ ConvFresh(run[w], conv)
  BY <1>1, BusyRun
<1>3. run[w].op \in OnMessage /\ Moves(run[w].op, run[w].todo, "StoreConv")
  BY <1>1, <1>2 DEF Follows, Call
<1>4. /\ run[w].id \in DOMAIN msgs /\ run[w].msg \in Messages /\ run[w].conv \in Row
      /\ run[w].msg # None /\ run[w].conv # None /\ run[w].id \in Nat
  BY <1>1, <1>2, <1>3 DEF Shape, Runs
<1>5. UNCHANGED <<store, env, fired, answered, unseen>>
  BY DEF Refresh
<1>6. StoreOK'
  BY <1>0, <1>5, StoreStays DEF store, env
<1>7. CASE Return(w)
  BY <1>5, <1>6, <1>7, ReturnStep DEF DeskOK, store
<1>8. ASSUME NEW r \in Runs, r.op = run[w].op, r.todo = run[w].todo, r.conv # None,
             r.conv.unread = run[w].conv.unread, r.id = run[w].id, r.msg = run[w].msg,
             r.track = run[w].track, r.resp = run[w].resp, r.behind = run[w].behind,
             Advance(w, r)
      PROVE  DeskOK'
  <2> DEFINE q == After(r)
  <2>2. run' = [run EXCEPT ![w] = q]
    BY <1>8 DEF Advance
  <2>3. OwnMove(q, r, "StoreConv") /\ Call(r) = "Refresh"
    BY <1>1, <1>3, <1>8, OwnMoves DEF Call
  <2> HIDE DEF q
  <2>5. Shape(q, msgs, resps)
    BY <1>1, <1>2, <1>3, <1>4, <1>8, <2>3
    DEF OwnMove, Kept, Shape, OnRow, Closes, OnMessage, Surveys
  <2>6. ConvFresh(q, conv)
    BY <1>1, <1>2, <1>3, <1>4, <1>8, <2>3 DEF OwnMove, Kept, ConvFresh, OnMessage
  <2>7. MsgFresh(q, msgs)
    BY <2>3 DEF OwnMove, MsgFresh
  <2>8. RespFresh(q, resps) /\ TrackFresh(q, track)
    BY <1>3, <1>8, <2>3 DEF OwnMove, Kept, RespFresh, TrackFresh, Surveys, OnMessage
  <2>9. q \in Runs /\ Good(q, conv, msgs, track, resps)
    BY <2>3, <2>5, <2>6, <2>7, <2>8, GoodRun DEF OwnMove
  <2> QED BY <1>5, <1>6, <2>2, <2>9, OwnStep DEF DeskOK, store
<1>9. ASSUME NEW s \in [id : Nat, edited : BOOLEAN], NEW r, r = [run[w] EXCEPT !.conv.last = s]
      PROVE  /\ r \in Runs /\ r.op = run[w].op /\ r.todo = run[w].todo /\ r.conv # None
             /\ r.conv \in Row /\ r.conv.unread = run[w].conv.unread /\ r.id = run[w].id /\ r.msg = run[w].msg
             /\ r.track = run[w].track /\ r.resp = run[w].resp /\ r.behind = run[w].behind
  <2> DEFINE c == [run[w].conv EXCEPT !.last = s]
  <2>1. c \in Row /\ c.unread = run[w].conv.unread
    BY <1>4 DEF Row
  <2>2. r = [run[w] EXCEPT !.conv = c]
    BY <1>9
  <2> HIDE DEF c
  <2>3. c # None
    BY <2>1, NoneAssumption
  <2>4. r \in Runs /\ r.conv = c
    BY <1>2, <2>1, <2>2 DEF Runs
  <2> QED BY <1>2, <2>1, <2>2, <2>3, <2>4 DEF Runs
<1>10. CASE Advance(w, [run[w] EXCEPT !.conv.last = Snapshot(run[w].id, run[w].msg)])
  <2>1. Snapshot(run[w].id, run[w].msg) \in [id : Nat, edited : BOOLEAN]
    BY <1>4 DEF Snapshot, Messages
  <2> QED BY <1>8, <1>9, <1>10, <2>1
<1>11. CASE Advance(w, [run[w] EXCEPT !.conv.last = NoSnapshot])
  <2>1. NoSnapshot \in [id : Nat, edited : BOOLEAN]
    BY DEF NoSnapshot
  <2> QED BY <1>8, <1>9, <1>11, <2>1
<1>12. ASSUME NEW i \in Latest(msgs),
              Advance(w, [run[w] EXCEPT !.conv.last = Snapshot(i, msgs[i]), !.conv.lastAt = msgs[i].at])
       PROVE  DeskOK'
  <2>1. i \in Nat /\ msgs[i] \in Messages
    BY <1>0, StoreTypes DEF Latest, Shown
  <2>2. Snapshot(i, msgs[i]) \in [id : Nat, edited : BOOLEAN] /\ msgs[i].at \in Nat
    BY <2>1 DEF Snapshot, Messages
  <2> DEFINE p == [run[w] EXCEPT !.conv.last = Snapshot(i, msgs[i])]
  <2>3. /\ p \in Runs /\ p.op = run[w].op /\ p.todo = run[w].todo /\ p.conv # None
        /\ p.conv \in Row /\ p.conv.unread = run[w].conv.unread /\ p.id = run[w].id /\ p.msg = run[w].msg
        /\ p.track = run[w].track /\ p.resp = run[w].resp /\ p.behind = run[w].behind
    BY <1>9, <2>2
  <2> DEFINE c == [p.conv EXCEPT !.lastAt = msgs[i].at]
  <2> DEFINE r == [p EXCEPT !.conv = c]
  <2>4. Advance(w, r)
    BY <1>12
  <2> HIDE DEF p
  <2>5. c \in Row /\ c.unread = run[w].conv.unread
    BY <2>2, <2>3 DEF Row
  <2>6. c # None
    BY <2>5, NoneAssumption
  <2> HIDE DEF c
  <2>7. /\ r \in Runs /\ r.op = run[w].op /\ r.todo = run[w].todo /\ r.conv = c
        /\ r.id = run[w].id /\ r.msg = run[w].msg
        /\ r.track = run[w].track /\ r.resp = run[w].resp /\ r.behind = run[w].behind
    BY <2>3, <2>5 DEF Runs
  <2> HIDE DEF r
  <2> QED BY <1>8, <2>4, <2>5, <2>6, <2>7
<1> QED BY <1>7, <1>10, <1>11, <1>12 DEF Refresh

\* What a first response makes of the tracking.
LEMMA FirstResponseChanges ==
    ASSUME NEW t \in Tracking, NEW at \in Nat
    PROVE  /\ FirstResponse(t, at) \in Tracking
           /\ t.warned \subseteq FirstResponse(t, at).warned
           /\ t.breached \subseteq FirstResponse(t, at).breached
           /\ FirstResponse(t, at).status = t.status
<1>1. {l \in {"first_response"} : at > DueAt[l]} \subseteq Legs
  BY DEF Legs
<1> QED BY <1>1 DEF Tracking, FirstResponse

\* What a resolution makes of it.
LEMMA ResolutionChanges ==
    ASSUME NEW t \in Tracking, NEW at \in Nat
    PROVE  /\ Resolution(t, at) \in Tracking
           /\ t.warned \subseteq Resolution(t, at).warned
           /\ t.breached \subseteq Resolution(t, at).breached
           /\ Resolution(t, at).status = "met" => Resolution(t, at).breached = {}
<1> DEFINE b == t.breached \cup Late(t, at)
<1>1. Resolution(t, at) = [t EXCEPT !.resolved = TRUE, !.breached = b,
                                    !.status = IF b # {} THEN "breached" ELSE "met"]
  BY DEF Resolution
<1>2. b \subseteq Legs /\ t.breached \subseteq b
  BY DEF Tracking, Late
<1> HIDE DEF b
<1> QED BY <1>1, <1>2 DEF Tracking

\* What a check makes of it.
LEMMA EvaluatedChanges ==
    ASSUME NEW t \in Tracking, NEW at \in Nat
    PROVE  /\ Evaluated(t, at) \in Tracking
           /\ t.warned \subseteq Evaluated(t, at).warned
           /\ t.breached \subseteq Evaluated(t, at).breached
           /\ Evaluated(t, at).status = t.status
<1>1. NewBreaches(t, at) \subseteq Legs /\ NewWarnings(t, at) \subseteq Legs
  BY DEF Legs, Pending, NewBreaches, NewWarnings
<1> QED BY <1>1 DEF Tracking, Evaluated

\* An operation goes on without the tracking: neither loaded nor stored.
LEMMA TrackSkipped ==
    ASSUME DeskOK, NEW w \in Workers, At(w, "FindTrack"), Advance(w, After(run[w])),
           UNCHANGED <<conv, msgs, track, resps>>
    PROVE  /\ run' \in [Workers -> Runs]
           /\ \A v \in Workers : Good(run[v], conv, msgs, track, resps)'
<1>0. StoreOK
  BY DEF DeskOK
<1>1. run[w] # NoRun /\ Call(run[w]) = "FindTrack"
  BY AtCall
<1>2. /\ run[w] \in Runs
      /\ Follows(run[w].op, run[w].todo)
      /\ Shape(run[w], msgs, resps) /\ RespFresh(run[w], resps) /\ TrackFresh(run[w], track)
      /\ ConvFresh(run[w], conv)
  BY <1>1, BusyRun
<1>3. /\ run[w].op \in {"Send"} \cup Closes /\ Moves(run[w].op, run[w].todo, "StoreTrack")
      /\ \/ run[w].op = "Send" /\ Len(Tail(run[w].todo)) = 1
         \/ run[w].op \in Closes /\ Moves(run[w].op, Tail(run[w].todo), "FindResp")
  BY <1>1, <1>2 DEF Follows, Call
<1>4. run[w].track = None /\ "track" \notin run[w].behind /\ run[w].at \in Nat
  BY <1>1, <1>2, <1>3 DEF Shape, Closes, Runs
<1> DEFINE r == After(run[w])
<1> DEFINE q == After(r)
<1>11. run' = [run EXCEPT ![w] = q]
  BY DEF Advance
<1>12. GoesTo(r, run[w], "StoreTrack")
  BY <1>1, <1>2, <1>3, GoesOn
<1> HIDE DEF r
<1>13. Follows(r.op, r.todo)
  BY <1>12, LeftFollows DEF GoesTo
<1>14. CASE run[w].op = "Send" /\ Len(Tail(run[w].todo)) = 1
  <2>1. q = NoRun
    BY <1>12, <1>14, AfterEnds DEF GoesTo
  <2> QED BY <1>11, <2>1, NoRunType, IdleGood, OwnStep
<1>15. CASE run[w].op \in Closes /\ Moves(run[w].op, Tail(run[w].todo), "FindResp")
  <2>1. /\ r \in Runs /\ r.todo \in Seq(Calls) /\ r.todo # <<>> /\ Moves(r.op, r.todo, "FindResp")
        /\ r.op = run[w].op
    BY <1>12, <1>13, <1>15 DEF GoesTo, Kept, Follows
  <2>2. /\ q \in Runs /\ Kept(q, r) /\ q.behind = r.behind /\ q.todo = Tail(r.todo)
        /\ Left(q.op, q.todo) /\ Call(q) = "FindResp"
    BY <2>1, AfterMoves
  <2>3. Follows(q.op, q.todo)
    BY <2>2, LeftFollows
  <2>4. q.todo # NotingPlan /\ q.todo # ClosePlan
    BY <2>2, <2>3 DEF Follows, Call
  <2> HIDE DEF q
  <2>5. Kept(q, run[w]) /\ q.behind = run[w].behind
    BY <1>12, <2>2 DEF GoesTo, Kept
  <2>6. Shape(q, msgs, resps)
    BY <1>1, <1>2, <1>4, <1>15, <2>2, <2>4, <2>5 DEF Kept, Shape, OnRow, Closes, OnMessage, Surveys
  <2>7. ConvFresh(q, conv) /\ MsgFresh(q, msgs)
    BY <1>1, <1>2, <1>15, <2>2, <2>5 DEF Kept, ConvFresh, MsgFresh, Closes
  <2>8. TrackFresh(q, track) /\ RespFresh(q, resps)
    BY <1>15, <2>2, <2>5 DEF Kept, TrackFresh, RespFresh, Surveys, Closes
  <2>9. Good(q, conv, msgs, track, resps)
    BY <2>2, <2>6, <2>7, <2>8, GoodRun
  <2> QED BY <1>11, <2>2, <2>9, OwnStep
<1> QED BY <1>3, <1>14, <1>15

\* FindTrack loads the tracking and changes the copy, or skips its store.
LEMMA FindTrackKeeps ==
    ASSUME DeskOK, NEW w \in Workers, FindTrack(w)
    PROVE  DeskOK'
<1>0. StoreOK
  BY DEF DeskOK
<1>1. run[w] # NoRun /\ Call(run[w]) = "FindTrack"
  BY AtCall DEF FindTrack
<1>2. /\ run[w] \in Runs
      /\ Follows(run[w].op, run[w].todo)
      /\ Shape(run[w], msgs, resps) /\ RespFresh(run[w], resps) /\ TrackFresh(run[w], track)
      /\ ConvFresh(run[w], conv)
  BY <1>1, BusyRun
<1>3. /\ run[w].op \in {"Send"} \cup Closes /\ Moves(run[w].op, run[w].todo, "StoreTrack")
      /\ \/ run[w].op = "Send" /\ Len(Tail(run[w].todo)) = 1
         \/ run[w].op \in Closes /\ Moves(run[w].op, Tail(run[w].todo), "FindResp")
  BY <1>1, <1>2 DEF Follows, Call
<1>4. run[w].track = None /\ "track" \notin run[w].behind /\ run[w].at \in Nat
  BY <1>1, <1>2, <1>3 DEF Shape, Closes, Runs
<1>5. UNCHANGED <<store, env, history>>
  BY DEF FindTrack
<1>6. StoreOK'
  BY <1>0, <1>5, StoreStays DEF store, env, history
<1>7. ASSUME NEW t \in Tracking, track.warned \subseteq t.warned, track.breached \subseteq t.breached,
             t.status = "met" => track.status = "met" \/ t.breached = {},
             Advance(w, [run[w] EXCEPT !.track = t])
      PROVE  DeskOK'
  <2> DEFINE r == [run[w] EXCEPT !.track = t]
  <2> DEFINE q == After(r)
  <2>1. /\ r \in Runs /\ r.op = run[w].op /\ r.todo = run[w].todo /\ r.conv = run[w].conv
        /\ r.id = run[w].id /\ r.msg = run[w].msg /\ r.track = t
        /\ r.resp = run[w].resp /\ r.behind = run[w].behind /\ Call(r) = "FindTrack"
    BY <1>1, <1>2 DEF Runs, Call
  <2>2. run' = [run EXCEPT ![w] = q]
    BY <1>7 DEF Advance
  <2> HIDE DEF r
  <2>3. OwnMove(q, r, "StoreTrack")
    BY <1>1, <1>3, <2>1, OwnMoves
  <2> HIDE DEF q
  <2>4. t # None
    BY NoneAssumption
  <2>5. Shape(q, msgs, resps)
    BY <1>1, <1>2, <1>3, <1>4, <2>1, <2>3, <2>4
    DEF OwnMove, Kept, Shape, OnRow, Closes, OnMessage, Surveys
  <2>6. ConvFresh(q, conv) /\ MsgFresh(q, msgs)
    BY <1>1, <1>2, <1>3, <2>1, <2>3 DEF OwnMove, Kept, ConvFresh, MsgFresh, Closes
  <2>7. TrackFresh(q, track)
    BY <1>3, <1>7, <2>1, <2>3 DEF OwnMove, Kept, TrackFresh, Closes
  <2>8. RespFresh(q, resps)
    BY <1>3, <2>1, <2>3 DEF OwnMove, Kept, RespFresh, Surveys, Closes
  <2>9. q \in Runs /\ Good(q, conv, msgs, track, resps)
    BY <2>3, <2>5, <2>6, <2>7, <2>8, GoodRun DEF OwnMove
  <2> QED BY <1>5, <1>6, <2>2, <2>9, OwnStep DEF DeskOK, store
<1>8. ASSUME Advance(w, After(run[w]))
      PROVE  DeskOK'
  BY <1>5, <1>6, <1>8, TrackSkipped DEF FindTrack, DeskOK, store
<1>9. track \in Tracking
  BY <1>0 DEF StoreOK
<1>10. CASE run[w].op = "Send"
  <2>1. CASE track.responded
    BY <1>8, <1>10, <2>1 DEF FindTrack
  <2>2. CASE ~track.responded
    <3> DEFINE t == FirstResponse(track, run[w].at)
    <3>1. Advance(w, [run[w] EXCEPT !.track = t])
      BY <1>10, <2>2 DEF FindTrack
    <3>2. /\ t \in Tracking /\ track.warned \subseteq t.warned /\ track.breached \subseteq t.breached
          /\ t.status = "met" => track.status = "met" \/ t.breached = {}
      BY <1>4, <1>9, FirstResponseChanges
    <3> HIDE DEF t
    <3> QED BY <1>7, <3>1, <3>2
  <2> QED BY <2>1, <2>2
<1>11. CASE run[w].op # "Send"
  <2>1. CASE track.resolved
    BY <1>8, <1>11, <2>1 DEF FindTrack
  <2>2. CASE ~track.resolved
    <3> DEFINE t == Resolution(track, run[w].at)
    <3>1. Advance(w, [run[w] EXCEPT !.track = t])
      BY <1>11, <2>2 DEF FindTrack
    <3>2. /\ t \in Tracking /\ track.warned \subseteq t.warned /\ track.breached \subseteq t.breached
          /\ t.status = "met" => track.status = "met" \/ t.breached = {}
      BY <1>4, <1>9, ResolutionChanges
    <3> HIDE DEF t
    <3> QED BY <1>7, <3>1, <3>2
  <2> QED BY <2>1, <2>2
<1> QED BY <1>10, <1>11

\* Fire changes the copy of the tracking it was listed with.
LEMMA FireKeeps ==
    ASSUME DeskOK, NEW w \in Workers, Fire(w)
    PROVE  DeskOK'
<1>0. StoreOK
  BY DEF DeskOK
<1>1. run[w] # NoRun /\ Call(run[w]) = "Fire"
  BY AtCall DEF Fire
<1>2. /\ run[w] \in Runs
      /\ Follows(run[w].op, run[w].todo)
      /\ Shape(run[w], msgs, resps) /\ RespFresh(run[w], resps) /\ TrackFresh(run[w], track)
      /\ ConvFresh(run[w], conv)
  BY <1>1, BusyRun
<1>3. run[w].op = "Check" /\ Moves(run[w].op, run[w].todo, "StoreTrack")
  BY <1>1, <1>2 DEF Follows, Call
<1>4. run[w].track \in Tracking /\ run[w].at \in Nat
  BY <1>2, <1>3 DEF Shape, Runs
<1>5. UNCHANGED <<store, env, spoiled, answered, unseen>>
  BY DEF Fire
<1> DEFINE t == Evaluated(run[w].track, run[w].at)
<1> DEFINE r == [run[w] EXCEPT !.track = t]
<1> DEFINE q == After(r)
<1>6. CASE Return(w) /\ UNCHANGED fired
  <2>1. StoreOK'
    BY <1>0, <1>5, <1>6, StoreStays DEF store, env
  <2> QED BY <1>5, <1>6, <2>1, ReturnStep DEF DeskOK, store
<1>7. CASE /\ Advance(w, r)
           /\ \E s : fired' = [a \in Legs \X Kinds |->
                                 IF a \in s /\ fired[a] < 2 THEN fired[a] + 1 ELSE fired[a]]
  <2>1. t \in Tracking /\ run[w].track.warned \subseteq t.warned
        /\ run[w].track.breached \subseteq t.breached /\ t.status = run[w].track.status
    BY <1>4, EvaluatedChanges
  <2>2. t # None
    BY <2>1, NoneAssumption
  <2>3. run' = [run EXCEPT ![w] = q]
    BY <1>7 DEF Advance
  <2> HIDE DEF t
  <2>4. /\ r \in Runs /\ r.op = run[w].op /\ r.todo = run[w].todo /\ r.conv = run[w].conv
        /\ r.id = run[w].id /\ r.msg = run[w].msg /\ r.track = t
        /\ r.resp = run[w].resp /\ r.behind = run[w].behind /\ Call(r) = "Fire"
    <3>1. t \in Tracking
      BY <2>1
    <3> QED BY <1>1, <1>2, <3>1 DEF Runs, Call
  <2> HIDE DEF r
  <2>5. OwnMove(q, r, "StoreTrack")
    BY <1>1, <1>3, <2>4, OwnMoves
  <2> HIDE DEF q
  <2>6. Shape(q, msgs, resps)
    BY <1>1, <1>2, <1>3, <2>2, <2>4, <2>5
    DEF OwnMove, Kept, Shape, OnRow, Closes, OnMessage, Surveys
  <2>7. ConvFresh(q, conv) /\ MsgFresh(q, msgs)
    BY <1>1, <1>2, <1>3, <2>4, <2>5 DEF OwnMove, Kept, ConvFresh, MsgFresh
  <2>8. TrackFresh(q, track)
    BY <1>1, <1>2, <1>3, <2>1, <2>4, <2>5 DEF OwnMove, Kept, TrackFresh
  <2>9. RespFresh(q, resps)
    BY <1>3, <2>4, <2>5 DEF OwnMove, Kept, RespFresh, Surveys
  <2>10. q \in Runs /\ Good(q, conv, msgs, track, resps)
    BY <2>5, <2>6, <2>7, <2>8, <2>9, GoodRun DEF OwnMove
  <2>11. fired' \in [Legs \X Kinds -> 0..2]
    BY <1>0, <1>7 DEF StoreOK
  <2>12. StoreOK'
    BY <1>0, <1>5, <2>11 DEF StoreOK, store, env
  <2> QED BY <1>5, <2>3, <2>10, <2>12, OwnStep DEF DeskOK, store
<1> QED BY <1>6, <1>7 DEF Fire

\* FindResp only looks.
LEMMA FindRespKeeps ==
    ASSUME DeskOK, NEW w \in Workers, FindResp(w)
    PROVE  DeskOK'
<1> DEFINE q == After(run[w])
<1>0. StoreOK
  BY DEF DeskOK
<1>1. run[w] # NoRun /\ Call(run[w]) = "FindResp"
  BY AtCall DEF FindResp
<1>2. /\ run[w] \in Runs
      /\ Follows(run[w].op, run[w].todo)
      /\ Shape(run[w], msgs, resps) /\ ConvFresh(run[w], conv)
  BY <1>1, BusyRun
<1>3. run[w].op \in Closes /\ Moves(run[w].op, run[w].todo, "CreateResp")
  BY <1>1, <1>2 DEF Follows, Call
<1>4. UNCHANGED <<store, env, history>>
  BY DEF FindResp
<1>5. StoreOK'
  BY <1>0, <1>4, StoreStays DEF store, env, history
<1>6. CASE Return(w)
  BY <1>4, <1>5, <1>6, ReturnStep DEF DeskOK, store
<1>7. CASE Advance(w, run[w])
  <2>1. run' = [run EXCEPT ![w] = q]
    BY <1>7 DEF Advance
  <2>2. OwnMove(q, run[w], "CreateResp")
    BY <1>1, <1>2, <1>3, OwnMoves
  <2> HIDE DEF q
  <2>3. Shape(q, msgs, resps)
    BY <1>1, <1>2, <1>3, <2>2 DEF OwnMove, Kept, Shape, OnRow, Closes, OnMessage, Surveys
  <2>4. ConvFresh(q, conv) /\ MsgFresh(q, msgs)
    BY <1>1, <1>2, <1>3, <2>2 DEF OwnMove, Kept, ConvFresh, MsgFresh, Closes
  <2>5. TrackFresh(q, track) /\ RespFresh(q, resps)
    BY <1>3, <2>2 DEF OwnMove, Kept, TrackFresh, RespFresh, Surveys, Closes
  <2>6. q \in Runs /\ Good(q, conv, msgs, track, resps)
    BY <2>2, <2>3, <2>4, <2>5, GoodRun DEF OwnMove
  <2> QED BY <1>4, <1>5, <2>1, <2>6, OwnStep DEF DeskOK, store
<1> QED BY <1>6, <1>7 DEF FindResp

\* CreateResp makes the first response, and no second one.
LEMMA CreateRespKeeps ==
    ASSUME DeskOK, NEW w \in Workers, CreateResp(w)
    PROVE  DeskOK'
<1> DEFINE r == [run[w] EXCEPT !.id = 1]
<1> DEFINE q == After(r)
<1>0. StoreOK
  BY DEF DeskOK
<1>1. run[w] # NoRun /\ Call(run[w]) = "CreateResp"
  BY AtCall DEF CreateResp
<1>2. /\ run[w] \in Runs
      /\ Follows(run[w].op, run[w].todo)
      /\ Shape(run[w], msgs, resps) /\ ConvFresh(run[w], conv)
  BY <1>1, BusyRun
<1>3. run[w].op \in Closes /\ Moves(run[w].op, run[w].todo, "EnqueueSend")
  BY <1>1, <1>2 DEF Follows, Call
<1>4. UNCHANGED <<conv, msgs, track, tasks, env, history>>
  BY DEF CreateResp
<1>5. CASE resps # <<>>
  <2>1. Return(w) /\ UNCHANGED resps
    BY <1>5 DEF CreateResp
  <2>2. StoreOK'
    BY <1>0, <1>4, <2>1, StoreStays DEF env, history
  <2> QED BY <1>4, <2>1, <2>2, ReturnStep DEF DeskOK
<1>6. CASE resps = <<>>
  <2>1. run' = [run EXCEPT ![w] = q] /\ resps' = <<NewResponse>>
    BY <1>6 DEF CreateResp, Advance
  <2>2. /\ r \in Runs /\ r.op = run[w].op /\ r.todo = run[w].todo /\ r.conv = run[w].conv
        /\ r.id = 1 /\ r.msg = run[w].msg /\ r.track = run[w].track
        /\ r.resp = run[w].resp /\ r.behind = run[w].behind /\ Call(r) = "CreateResp"
    BY <1>1, <1>2 DEF Runs, Call
  <2> HIDE DEF r
  <2>3. OwnMove(q, r, "EnqueueSend")
    BY <1>1, <1>3, <2>2, OwnMoves
  <2> HIDE DEF q
  <2>4. DOMAIN resps' = {1} /\ NewResponse \in Response
    BY <2>1 DEF NewResponse, Response
  <2>5. Shape(q, msgs, resps')
    BY <1>1, <1>2, <1>3, <2>2, <2>3, <2>4 DEF OwnMove, Kept, Shape, OnRow, Closes, OnMessage, Surveys
  <2>6. ConvFresh(q, conv) /\ MsgFresh(q, msgs)
    BY <1>1, <1>2, <1>3, <2>2, <2>3 DEF OwnMove, Kept, ConvFresh, MsgFresh, Closes
  <2>7. TrackFresh(q, track) /\ RespFresh(q, resps')
    BY <1>3, <2>2, <2>3 DEF OwnMove, Kept, TrackFresh, RespFresh, Surveys, Closes
  <2>8. q \in Runs /\ Good(q, conv, msgs, track, resps')
    BY <2>3, <2>5, <2>6, <2>7, GoodRun DEF OwnMove
  <2>9. /\ run'[w] = q /\ run' \in [Workers -> Runs]
        /\ \A v \in Workers \ {w} : run'[v] = run[v]
    BY <2>1, <2>8, OneRun
  <2>10. ASSUME NEW v \in Workers \ {w}
         PROVE  Good(run'[v], conv, msgs, track, resps')
    <3>1. run[v] \in Runs /\ Good(run[v], conv, msgs, track, <<>>)
      BY <1>6 DEF DeskOK
    <3> QED BY <2>9, <3>1, OthersFirstResp
  <2>11. \A v \in Workers : Good(run[v], conv, msgs, track, resps)'
    BY <1>4, <2>8, <2>9, <2>10
  <2>12. tasks = {} /\ answered = {}
    BY <1>0, <1>6, StoreTypes DEF StoreOK
  <2>13. StoreOK'
    <3>1. resps' = <<>> \/ \E x \in Response : resps' = <<x>>
      BY <2>1, <2>4
    <3> QED BY <1>0, <1>4, <2>12, <3>1 DEF StoreOK, env, history
  <2> QED BY <2>9, <2>11, <2>13 DEF DeskOK
<1> QED BY <1>5, <1>6

\* A task is queued for a response that is there.
LEMMA EnqueueKeeps ==
    ASSUME DeskOK, NEW w \in Workers, EnqueueSend(w) \/ EnqueueExpire(w)
    PROVE  DeskOK'
<1>0. StoreOK
  BY DEF DeskOK
<1>1. PICK c \in {"EnqueueSend", "EnqueueExpire"}, k \in {"send", "expire"} : Enqueue(w, c, k)
  BY DEF EnqueueSend, EnqueueExpire
<1>2. run[w] # NoRun /\ Call(run[w]) = c
  BY <1>1, AtCall DEF Enqueue
<1>3. run[w] \in Runs /\ Follows(run[w].op, run[w].todo) /\ Shape(run[w], msgs, resps)
  BY <1>2, BusyRun
<1>4. Len(run[w].todo) = 1 /\ (run[w].op = "SendSurvey" \/ Call(run[w]) = "EnqueueSend")
  BY <1>2, <1>3 DEF Follows, Call
<1>5. run[w].id \in DOMAIN resps
  BY <1>3, <1>4 DEF Shape, Surveys
<1>6. /\ run' = [run EXCEPT ![w] = NoRun]
      /\ tasks' = tasks \cup {[kind |-> k, id |-> run[w].id, tries |-> 0]}
      /\ UNCHANGED <<conv, msgs, track, resps, env, history>>
  BY <1>1, <1>4, AfterEnds DEF Enqueue, Advance
<1>7. [kind |-> k, id |-> run[w].id, tries |-> 0]
         \in [kind : {"send", "expire"}, id : DOMAIN resps, tries : 0..(MaxRetry + 1)]
  BY <1>5, DeskAssumption
<1>8. StoreOK'
  BY <1>0, <1>6, <1>7 DEF StoreOK, env, history
<1> QED BY <1>6, <1>8, NoRunType, IdleGood, OwnStep DEF DeskOK

\* The task a run came from, when it has been tried n times.
TaskOf(r, n) == [kind |-> IF r.op = "SendSurvey" THEN "send" ELSE "expire", id |-> r.id, tries |-> n]

\* A csat task that did not end well comes back, once.
LEMMA RetryAdds ==
    ASSUME NEW w, NEW counts, Retry(w, counts)
    PROVE  /\ run[w].op \in {"SendSurvey", "Expire"} =>
                 \E n \in counts : tasks' = tasks \cup {TaskOf(run[w], n)}
           /\ run[w].op \notin {"SendSurvey", "Expire"} => tasks' = tasks
<1> DEFINE Fits(t) == run[w].op = IF t.kind = "send" THEN "SendSurvey" ELSE "Expire"
<1> DEFINE Backs(n) == [kind : {"send", "expire"}, id : {run[w].id}, tries : {n}]
<1>1. PICK n \in counts : tasks' = tasks \cup {t \in Backs(n) : Fits(t)}
  BY DEF Retry
<1>2. ASSUME run[w].op \in {"SendSurvey", "Expire"}
      PROVE  {t \in Backs(n) : Fits(t)} = {TaskOf(run[w], n)}
  <2>1. TaskOf(run[w], n) \in Backs(n) /\ Fits(TaskOf(run[w], n))
    BY <1>2 DEF TaskOf
  <2>2. ASSUME NEW t \in Backs(n), Fits(t)
        PROVE  t = TaskOf(run[w], n)
    BY <1>2, <2>2 DEF TaskOf
  <2> QED BY <2>1, <2>2
<1>3. ASSUME run[w].op \notin {"SendSurvey", "Expire"}
      PROVE  {t \in Backs(n) : Fits(t)} = {}
  BY <1>3
<1> QED BY <1>1, <1>2, <1>3

\* It is one of those a response has, with at most one try more than retries.
LEMMA RetryKeeps ==
    ASSUME DeskOK, NEW w \in Workers, run[w] # NoRun,
           NEW counts, counts \subseteq {run[w].tries, run[w].tries + 1}, Retry(w, counts)
    PROVE  tasks' \subseteq [kind : {"send", "expire"}, id : DOMAIN resps, tries : 0..(MaxRetry + 1)]
<1>1. tasks \subseteq [kind : {"send", "expire"}, id : DOMAIN resps, tries : 0..(MaxRetry + 1)]
  BY DEF DeskOK, StoreOK
<1>2. Shape(run[w], msgs, resps) /\ run[w].tries \in 0..MaxRetry
  BY BusyRun DEF Runs
<1>3. CASE run[w].op \notin {"SendSurvey", "Expire"}
  BY <1>1, <1>3, RetryAdds
<1>4. CASE run[w].op \in {"SendSurvey", "Expire"}
  <2>1. run[w].id \in DOMAIN resps
    BY <1>2, <1>4 DEF Shape, Surveys
  <2>2. PICK n \in counts : tasks' = tasks \cup {TaskOf(run[w], n)}
    BY <1>4, RetryAdds
  <2>3. n \in 0..(MaxRetry + 1)
    BY <1>2, DeskAssumption
  <2>4. TaskOf(run[w], n) \in [kind : {"send", "expire"}, id : DOMAIN resps, tries : 0..(MaxRetry + 1)]
    BY <2>1, <2>3 DEF TaskOf
  <2> QED BY <1>1, <2>2, <2>4
<1> QED BY <1>3, <1>4

\* Only the tasks change, and keep their type.
LEMMA TasksChange ==
    ASSUME StoreOK, UNCHANGED <<conv, msgs, track, resps, clock, unseen, answered, fired>>,
           tasks' \subseteq [kind : {"send", "expire"}, id : DOMAIN resps, tries : 0..(MaxRetry + 1)]
    PROVE  StoreOK'
BY DEF StoreOK

\* FindSurvey goes on, or the operation ends and its task comes back.
LEMMA FindSurveyKeeps ==
    ASSUME DeskOK, NEW w \in Workers, FindSurvey(w)
    PROVE  DeskOK'
<1> DEFINE q == After(run[w])
<1>0. StoreOK
  BY DEF DeskOK
<1>1. run[w] # NoRun /\ Call(run[w]) = "FindSurvey"
  BY AtCall DEF FindSurvey
<1>2. /\ run[w] \in Runs
      /\ Follows(run[w].op, run[w].todo)
      /\ Shape(run[w], msgs, resps) /\ ConvFresh(run[w], conv)
      /\ RespFresh(run[w], resps)
  BY <1>1, BusyRun
<1>3. UNCHANGED <<conv, msgs, track, resps, env, history>>
  BY DEF FindSurvey
<1>4. CASE Return(w) /\ Retry(w, {run[w].tries + 1})
  <2>1. tasks' \subseteq [kind : {"send", "expire"}, id : DOMAIN resps, tries : 0..(MaxRetry + 1)]
    BY <1>1, <1>4, RetryKeeps
  <2>2. StoreOK'
    BY <1>0, <1>3, <2>1, TasksChange DEF env, history
  <2> QED BY <1>3, <1>4, <2>2, ReturnStep DEF DeskOK
<1>5. CASE Advance(w, run[w]) /\ UNCHANGED tasks
  <2>1. run' = [run EXCEPT ![w] = q]
    BY <1>5 DEF Advance
  <2>2. \/ run[w].op = "SendSurvey" /\ Moves(run[w].op, run[w].todo, "LoadConv")
        \/ run[w].op = "Submit" /\ Moves(run[w].op, run[w].todo, "StoreResp")
    BY <1>1, <1>2 DEF Follows, Call
  <2>3. PICK c \in {"LoadConv", "StoreResp"} :
           OwnMove(q, run[w], c) /\ run[w].op = IF c = "LoadConv" THEN "SendSurvey" ELSE "Submit"
    BY <1>1, <1>2, <2>2, OwnMoves
  <2> HIDE DEF q
  <2>4. Shape(q, msgs, resps)
    BY <1>1, <1>2, <2>3 DEF OwnMove, Kept, Shape, OnRow, Closes, OnMessage, Surveys
  <2>5. ConvFresh(q, conv) /\ MsgFresh(q, msgs)
    BY <1>1, <1>2, <2>3 DEF OwnMove, Kept, ConvFresh, MsgFresh
  <2>6. TrackFresh(q, track) /\ RespFresh(q, resps)
    BY <1>1, <1>2, <2>3 DEF OwnMove, Kept, TrackFresh, RespFresh, Surveys
  <2>7. q \in Runs /\ Good(q, conv, msgs, track, resps)
    BY <2>3, <2>4, <2>5, <2>6, GoodRun DEF OwnMove
  <2>8. StoreOK'
    BY <1>0, <1>3, <1>5, StoreStays DEF env, history
  <2> QED BY <1>3, <2>1, <2>7, <2>8, OwnStep DEF DeskOK
<1> QED BY <1>4, <1>5 DEF FindSurvey

\* A failure ends the operation; a csat task comes back.
LEMMA FailKeeps ==
    ASSUME DeskOK, NEW w \in Workers, Fail(w)
    PROVE  DeskOK'
<1>0. StoreOK
  BY DEF DeskOK
<1>1. run[w] # NoRun
  BY DEF Fail, Idle
<1>2. Return(w) /\ UNCHANGED <<conv, msgs, track, resps, clock, workload, fired, answered, unseen>>
  BY DEF Fail
<1>3. tasks' \subseteq [kind : {"send", "expire"}, id : DOMAIN resps, tries : 0..(MaxRetry + 1)]
  BY <1>1, RetryKeeps DEF Fail
<1>4. StoreOK'
  BY <1>0, <1>2, <1>3, TasksChange
<1> QED BY <1>2, <1>4, ReturnStep DEF DeskOK

\* A call whose error is ignored leaves its worker where the call would have.
LEMMA IgnoreKeeps ==
    ASSUME DeskOK, NEW w \in Workers, Ignore(w)
    PROVE  DeskOK'
<1> DEFINE q == After(run[w])
<1>0. StoreOK
  BY DEF DeskOK
<1>1. UNCHANGED <<store, clock, workload, fired, answered, unseen>>
  BY DEF Ignore
<1>2. StoreOK'
  BY <1>0, <1>1, StoreStays DEF store
<1>3. CASE At(w, "FindTrack") /\ Advance(w, After(run[w]))
  BY <1>1, <1>2, <1>3, TrackSkipped DEF DeskOK, store
<1>4. ASSUME NEW call \in {"StoreTrack", "FindResp", "EnqueueSend", "EnqueueExpire"},
             At(w, call), Advance(w, run[w])
      PROVE  DeskOK'
  <2>1. run[w] # NoRun /\ Call(run[w]) = call
    BY <1>4, AtCall
  <2>2. /\ run[w] \in Runs
        /\ Follows(run[w].op, run[w].todo)
        /\ Shape(run[w], msgs, resps) /\ ConvFresh(run[w], conv)
    BY <2>1, BusyRun
  <2>3. run' = [run EXCEPT ![w] = q]
    BY <1>4 DEF Advance
  <2>4. CASE Len(run[w].todo) = 1
    <3>1. q = NoRun
      BY <2>4, AfterEnds
    <3> QED BY <1>1, <1>2, <2>3, <3>1, NoRunType, IdleGood, OwnStep DEF DeskOK, store
  <2>5. CASE Len(run[w].todo) # 1
    <3>1. PICK c \in {"FindResp", "CreateResp"} :
             run[w].op \in Closes /\ Moves(run[w].op, run[w].todo, c)
      BY <2>1, <2>2, <2>5 DEF Follows, Call
    <3>2. OwnMove(q, run[w], c)
      BY <2>1, <2>2, <3>1, OwnMoves
    <3> HIDE DEF q
    <3>3. Shape(q, msgs, resps)
      BY <2>1, <2>2, <3>1, <3>2 DEF OwnMove, Kept, Shape, OnRow, Closes, OnMessage, Surveys
    <3>4. ConvFresh(q, conv) /\ MsgFresh(q, msgs)
      BY <2>1, <2>2, <3>1, <3>2 DEF OwnMove, Kept, ConvFresh, MsgFresh, Closes
    <3>5. TrackFresh(q, track) /\ RespFresh(q, resps)
      BY <2>1, <3>1, <3>2 DEF OwnMove, Kept, TrackFresh, RespFresh, Surveys, Closes
    <3>6. q \in Runs /\ Good(q, conv, msgs, track, resps)
      BY <3>2, <3>3, <3>4, <3>5, GoodRun DEF OwnMove
    <3> QED BY <1>1, <1>2, <2>3, <3>6, OwnStep DEF DeskOK, store
  <2> QED BY <2>4, <2>5
<1> QED BY <1>3, <1>4 DEF Ignore

\* Time passes.
LEMMA TickKeeps ==
    ASSUME DeskOK, Tick
    PROVE  DeskOK'
<1>1. UNCHANGED <<store, workload, faults, run, history>> /\ clock' = clock + 1
  BY DEF Tick
<1>2. \A i \in DOMAIN msgs : msgs[i].at \in Nat
  BY StoreTypes DEF DeskOK, Messages
<1>3. StoreOK'
  BY <1>1, <1>2 DEF DeskOK, StoreOK, store, history
<1> QED BY <1>1, <1>3 DEF DeskOK, store

\* An operation has begun.
LEMMA BegunKeeps ==
    ASSUME DeskOK, NEW w \in Workers, NEW o, NEW c, NEW i, NEW m, NEW t, NEW s,
           Begun(w, o, c, i, m, t, s), tasks' \subseteq tasks
    PROVE  DeskOK'
<1>1. PICK q \in Runs : IsNew(q, o, c, i, m, t, s) /\ run' = [run EXCEPT ![w] = q]
  BY DEF Begun
<1>2. Good(q, conv, msgs, track, resps)
  BY <1>1, BegunGood DEF DeskOK, Begun
<1>3. UNCHANGED <<conv, msgs, track, resps, env, history>>
  BY DEF Begun
<1>4. StoreOK'
  BY <1>3, StoreStays DEF DeskOK, env, history
<1> QED BY <1>1, <1>2, <1>3, <1>4, OwnStep DEF DeskOK

\* Every beginning keeps the invariant.
LEMMA BeginsKeep ==
    ASSUME DeskOK, NEW w \in Workers,
           \/ Patch(w) \/ Tags(w) \/ MarkRead(w) \/ MarkUnread(w) \/ Reopen(w) \/ Close(w)
           \/ CloseInactive(w) \/ SendMessage(w) \/ AddInternalNote(w) \/ Inbound(w)
           \/ EditMessage(w) \/ DeleteMessage(w) \/ ApplyDeliveryReceipt(w) \/ RunCheck(w)
           \/ SendSurvey(w) \/ Expire(w) \/ SubmitByToken(w)
    PROVE  DeskOK'
<1>0. StoreOK
  BY DEF DeskOK
<1>1. CASE \/ Patch(w) \/ Tags(w) \/ MarkRead(w) \/ MarkUnread(w) \/ Reopen(w) \/ Close(w)
           \/ CloseInactive(w) \/ SendMessage(w) \/ AddInternalNote(w) \/ Inbound(w)
  BY <1>0, <1>1, ConvBegins, BegunKeeps
<1>2. CASE EditMessage(w) \/ DeleteMessage(w) \/ ApplyDeliveryReceipt(w) \/ RunCheck(w)
  BY <1>0, <1>2, MsgBegins, BegunKeeps
<1>3. CASE SendSurvey(w) \/ Expire(w) \/ SubmitByToken(w)
  <2>1. \/ /\ tasks' \subseteq tasks
           /\ \E o, c, i, m, t, s : Begun(w, o, c, i, m, t, s)
        \/ tasks' \subseteq tasks /\ UNCHANGED <<conv, msgs, track, resps, run, env, history>>
    BY <1>0, <1>3, SurveyBegins
  <2>2. CASE tasks' \subseteq tasks /\ UNCHANGED <<conv, msgs, track, resps, run, env, history>>
    <3>1. StoreOK'
      BY <1>0, <2>2, StoreStays DEF env, history
    <3> QED BY <2>2, <3>1 DEF DeskOK
  <2> QED BY <2>1, <2>2, BegunKeeps
<1> QED BY <1>1, <1>2, <1>3

\* A store of the conversation makes the other copies of it old.
LEMMA StoreConvKeeps ==
    ASSUME DeskOK, NEW w \in Workers, StoreConv(w)
    PROVE  DeskOK'
<1> DEFINE q == After(run[w])
<1>0. StoreOK
  BY DEF DeskOK
<1>1. run[w] # NoRun /\ Call(run[w]) = "StoreConv"
  BY AtCall DEF StoreConv
<1>2. /\ run[w] \in Runs
      /\ Follows(run[w].op, run[w].todo)
      /\ Shape(run[w], msgs, resps) /\ RespFresh(run[w], resps)
  BY <1>1, BusyRun
<1>3. \/ run[w].op \in OnRow \cup OnMessage \cup {"Note", "Inbound"} /\ Len(run[w].todo) = 1
      \/ run[w].op \in {"Send"} \cup Closes /\ Moves(run[w].op, run[w].todo, "FindTrack")
      \/ run[w].op = "CloseNoting" /\ run[w].todo = NotingPlan /\ Moves(run[w].op, run[w].todo, "LoadConv")
      \/ run[w].op = "SendSurvey" /\ Moves(run[w].op, run[w].todo, "StoreResp")
  BY <1>1, <1>2 DEF Follows, Call
<1>4. run[w].conv \in Row
  BY <1>1, <1>2, <1>3 DEF Shape, Runs, Closes
<1>5. conv' = run[w].conv /\ UNCHANGED <<msgs, track, resps, tasks, env, fired, answered>>
  BY DEF StoreConv
<1>6. run' = [v \in Workers |->
                IF v = w THEN q
                ELSE IF run[v].conv # None THEN [run[v] EXCEPT !.behind = @ \cup {"conv"}]
                ELSE run[v]]
  BY DEF StoreConv, Stored
<1>7. run'[w] = q
  BY <1>6
<1>8. q \in Runs /\ Good(q, conv', msgs, track, resps)
  <2>1. CASE Len(run[w].todo) = 1
    BY <2>1, AfterEnds, NoRunType, IdleGood
  <2>2. CASE Len(run[w].todo) # 1
    <3>1. PICK c : /\ Moves(run[w].op, run[w].todo, c)
                   /\ \/ c = "FindTrack" /\ run[w].op \in {"Send"} \cup Closes
                      \/ c = "LoadConv" /\ run[w].op = "CloseNoting" /\ run[w].todo = NotingPlan
                      \/ c = "StoreResp" /\ run[w].op = "SendSurvey"
      BY <1>3, <2>2
    <3>2. OwnMove(q, run[w], c)
      BY <1>1, <1>2, <3>1, OwnMoves
    <3> HIDE DEF q
    <3>3. Shape(q, msgs, resps)
      BY <1>1, <1>2, <3>1, <3>2 DEF OwnMove, Kept, Shape, OnRow, Closes, OnMessage, Surveys
    <3>4. ConvFresh(q, conv') /\ MsgFresh(q, msgs)
      BY <1>5, <3>1, <3>2 DEF OwnMove, Kept, ConvFresh, MsgFresh, Closes
    <3>5. TrackFresh(q, track) /\ RespFresh(q, resps)
      BY <1>1, <1>2, <3>1, <3>2 DEF OwnMove, Kept, TrackFresh, RespFresh, Surveys, Closes
    <3> QED BY <3>2, <3>3, <3>4, <3>5, GoodRun DEF OwnMove
  <2> QED BY <2>1, <2>2
<1> HIDE DEF q
<1>9. ASSUME NEW v \in Workers \ {w}
      PROVE  run'[v] \in Runs /\ Good(run'[v], conv', msgs, track, resps)
  <2>1. run[v] \in Runs /\ Good(run[v], conv, msgs, track, resps)
    BY DEF DeskOK
  <2>2. run'[v] = IF run[v].conv # None THEN [run[v] EXCEPT !.behind = @ \cup {"conv"}] ELSE run[v]
    BY <1>6
  <2> QED BY <2>1, <2>2, OthersConv
<1>10. /\ run' \in [Workers -> Runs]
       /\ \A v \in Workers : Good(run[v], conv, msgs, track, resps)'
  BY <1>5, <1>6, <1>7, <1>8, <1>9
<1>11. unseen' \in Nat
  BY <1>0 DEF StoreConv, StoreOK
<1>12. StoreOK'
  BY <1>0, <1>4, <1>5, <1>11 DEF StoreOK, env
<1> QED BY <1>10, <1>12 DEF DeskOK

\* A store of the tracking makes the other copies of it old.
LEMMA StoreTrackKeeps ==
    ASSUME DeskOK, NEW w \in Workers, StoreTrack(w)
    PROVE  DeskOK'
<1> DEFINE q == After(run[w])
<1>0. StoreOK
  BY DEF DeskOK
<1>1. run[w] # NoRun /\ Call(run[w]) = "StoreTrack"
  BY AtCall DEF StoreTrack
<1>2. /\ run[w] \in Runs
      /\ Follows(run[w].op, run[w].todo)
      /\ Shape(run[w], msgs, resps) /\ ConvFresh(run[w], conv)
  BY <1>1, BusyRun
<1>3. \/ run[w].op \in {"Send", "Check"} /\ Len(run[w].todo) = 1
      \/ run[w].op \in Closes /\ Moves(run[w].op, run[w].todo, "FindResp")
  BY <1>1, <1>2 DEF Follows, Call
<1>4. run[w].track \in Tracking
  BY <1>1, <1>2 DEF Shape, Runs
<1>5. track' = run[w].track /\ UNCHANGED <<conv, msgs, resps, tasks, env, fired, answered, unseen>>
  BY DEF StoreTrack
<1>6. run' = [v \in Workers |->
                IF v = w THEN q
                ELSE IF run[v].track # None THEN [run[v] EXCEPT !.behind = @ \cup {"track"}]
                ELSE run[v]]
  BY DEF StoreTrack, Stored
<1>7. run'[w] = q
  BY <1>6
<1>8. q \in Runs /\ Good(q, conv, msgs, track', resps)
  <2>1. CASE Len(run[w].todo) = 1
    BY <2>1, AfterEnds, NoRunType, IdleGood
  <2>2. CASE run[w].op \in Closes /\ Moves(run[w].op, run[w].todo, "FindResp")
    <3>2. OwnMove(q, run[w], "FindResp")
      BY <1>1, <1>2, <2>2, OwnMoves
    <3> HIDE DEF q
    <3>3. Shape(q, msgs, resps)
      BY <1>1, <1>2, <2>2, <3>2 DEF OwnMove, Kept, Shape, OnRow, Closes, OnMessage, Surveys
    <3>4. ConvFresh(q, conv) /\ MsgFresh(q, msgs)
      BY <1>1, <1>2, <2>2, <3>2 DEF OwnMove, Kept, ConvFresh, MsgFresh, Closes
    <3>5. TrackFresh(q, track') /\ RespFresh(q, resps)
      BY <1>1, <1>2, <2>2, <3>2 DEF OwnMove, Kept, TrackFresh, RespFresh, Surveys, Closes
    <3> QED BY <3>2, <3>3, <3>4, <3>5, GoodRun DEF OwnMove
  <2> QED BY <1>3, <2>1, <2>2
<1> HIDE DEF q
<1>9. ASSUME NEW v \in Workers \ {w}
      PROVE  run'[v] \in Runs /\ Good(run'[v], conv, msgs, track', resps)
  <2>1. run[v] \in Runs /\ Good(run[v], conv, msgs, track, resps)
    BY DEF DeskOK
  <2>2. run'[v] = IF run[v].track # None THEN [run[v] EXCEPT !.behind = @ \cup {"track"}] ELSE run[v]
    BY <1>6
  <2> QED BY <2>1, <2>2, OthersTrack
<1>10. /\ run' \in [Workers -> Runs]
       /\ \A v \in Workers : Good(run[v], conv, msgs, track, resps)'
  BY <1>5, <1>6, <1>7, <1>8, <1>9
<1>12. StoreOK'
  BY <1>0, <1>4, <1>5 DEF StoreOK, env
<1> QED BY <1>10, <1>12 DEF DeskOK

\* A store of the response makes the other copies of it old.
LEMMA StoreRespKeeps ==
    ASSUME DeskOK, NEW w \in Workers, StoreResp(w)
    PROVE  /\ DeskOK'
           /\ run[w].id \in DOMAIN resps /\ DOMAIN resps' = DOMAIN resps
           /\ resps'[run[w].id] = run[w].resp /\ run[w].resp \in Response
<1> DEFINE q == After(run[w])
<1>0. StoreOK
  BY DEF DeskOK
<1>1. run[w] # NoRun /\ Call(run[w]) = "StoreResp"
  BY AtCall DEF StoreResp
<1>2. /\ run[w] \in Runs
      /\ Follows(run[w].op, run[w].todo)
      /\ Shape(run[w], msgs, resps) /\ ConvFresh(run[w], conv) /\ RespFresh(run[w], resps)
  BY <1>1, BusyRun
<1>3. \/ run[w].op \in {"Expire", "Submit"} /\ Len(run[w].todo) = 1
      \/ run[w].op = "SendSurvey" /\ Moves(run[w].op, run[w].todo, "EnqueueExpire")
  BY <1>1, <1>2 DEF Follows, Call
<1>4. run[w].resp \in Response /\ run[w].id \in DOMAIN resps
  BY <1>1, <1>2, <1>3 DEF Shape, Runs, Surveys
<1>5. /\ resps' = [resps EXCEPT ![run[w].id] = run[w].resp]
      /\ UNCHANGED <<conv, msgs, track, tasks, env, fired, unseen>>
  BY DEF StoreResp
<1>51. /\ DOMAIN resps' = DOMAIN resps /\ resps'[run[w].id] = run[w].resp
       /\ \E x \in Response : resps' = <<x>>
  <2>1. run[w].id = 1 /\ resps # <<>>
    BY <1>0, <1>4, StoreTypes
  <2>2. PICK x \in Response : resps = <<x>>
    BY <1>0, <2>1 DEF StoreOK
  <2>3. resps' = <<run[w].resp>>
    BY <1>5, <2>1, <2>2
  <2> QED BY <1>4, <2>1, <2>2, <2>3
<1>6. run' = [v \in Workers |->
                IF v = w THEN q
                ELSE IF run[v].resp # None THEN [run[v] EXCEPT !.behind = @ \cup {"resp"}]
                ELSE run[v]]
  BY DEF StoreResp, Stored
<1>7. run'[w] = q
  BY <1>6
<1>8. q \in Runs /\ Good(q, conv, msgs, track, resps')
  <2>1. CASE Len(run[w].todo) = 1
    BY <2>1, AfterEnds, NoRunType, IdleGood
  <2>2. CASE run[w].op = "SendSurvey" /\ Moves(run[w].op, run[w].todo, "EnqueueExpire")
    <3>2. OwnMove(q, run[w], "EnqueueExpire")
      BY <1>1, <1>2, <2>2, OwnMoves
    <3> HIDE DEF q
    <3>3. Shape(q, msgs, resps')
      BY <1>1, <1>2, <1>51, <2>2, <3>2 DEF OwnMove, Kept, Shape, OnRow, Closes, OnMessage, Surveys
    <3>4. ConvFresh(q, conv) /\ MsgFresh(q, msgs)
      BY <1>1, <1>2, <2>2, <3>2 DEF OwnMove, Kept, ConvFresh, MsgFresh, Closes
    <3>5. TrackFresh(q, track) /\ RespFresh(q, resps')
      BY <1>1, <1>2, <2>2, <3>2 DEF OwnMove, Kept, TrackFresh, RespFresh, Surveys, Closes
    <3> QED BY <3>2, <3>3, <3>4, <3>5, GoodRun DEF OwnMove
  <2> QED BY <1>3, <2>1, <2>2
<1> HIDE DEF q
<1>9. ASSUME NEW v \in Workers \ {w}
      PROVE  run'[v] \in Runs /\ Good(run'[v], conv, msgs, track, resps')
  <2>1. run[v] \in Runs /\ Good(run[v], conv, msgs, track, resps)
    BY DEF DeskOK
  <2>2. run'[v] = IF run[v].resp # None THEN [run[v] EXCEPT !.behind = @ \cup {"resp"}] ELSE run[v]
    BY <1>6
  <2> QED BY <1>51, <2>1, <2>2, OthersResp
<1>10. /\ run' \in [Workers -> Runs]
       /\ \A v \in Workers : Good(run[v], conv, msgs, track, resps)'
  BY <1>5, <1>6, <1>7, <1>8, <1>9
<1>11. answered' \subseteq DOMAIN resps
  BY <1>0, <1>4 DEF StoreOK, StoreResp
<1>12. StoreOK'
  BY <1>0, <1>5, <1>51, <1>11 DEF StoreOK, env
<1> QED BY <1>4, <1>10, <1>12, <1>51 DEF DeskOK

\* The message w stores, against the one that is there.
LEMMA StoreMsgKeeps ==
    ASSUME DeskOK, NEW w \in Workers, StoreMsg(w)
    PROVE  /\ DeskOK'
           /\ run[w].id \in DOMAIN msgs /\ run[w].msg \in Messages
           /\ DOMAIN msgs' = DOMAIN msgs /\ msgs'[run[w].id] = run[w].msg
           /\ \A i \in DOMAIN msgs \ {run[w].id} : msgs'[i] = msgs[i]
           /\ \A i \in DOMAIN msgs : msgs'[i].by = msgs[i].by /\ msgs'[i].at = msgs[i].at
<1> DEFINE q == After(run[w])
<1>0. StoreOK
  BY DEF DeskOK
<1>1. run[w] # NoRun /\ Call(run[w]) = "StoreMsg"
  BY AtCall DEF StoreMsg
<1>2. /\ run[w] \in Runs
      /\ Follows(run[w].op, run[w].todo)
      /\ Shape(run[w], msgs, resps) /\ ConvFresh(run[w], conv) /\ MsgFresh(run[w], msgs)
  BY <1>1, BusyRun
<1>3. \/ run[w].op \in OnMessage /\ Moves(run[w].op, run[w].todo, "Refresh")
      \/ run[w].op = "Receipt" /\ Len(run[w].todo) = 1
  BY <1>1, <1>2 DEF Follows, Call
<1>4. run[w].msg \in Messages /\ run[w].id \in DOMAIN msgs /\ run[w].msg # None
  BY <1>1, <1>2, <1>3 DEF Shape, Runs
<1>5. /\ msgs' = [msgs EXCEPT ![run[w].id] = run[w].msg]
      /\ UNCHANGED <<conv, track, resps, tasks, env, fired, answered, unseen>>
  BY DEF StoreMsg
<1>51. msgs \in Seq(Messages)
  BY <1>0 DEF StoreOK
<1>52. /\ DOMAIN msgs' = DOMAIN msgs /\ msgs'[run[w].id] = run[w].msg /\ msgs' \in Seq(Messages)
       /\ \A i \in DOMAIN msgs \ {run[w].id} : msgs'[i] = msgs[i]
  BY <1>4, <1>5, <1>51
<1>53. \A i \in DOMAIN msgs : msgs'[i].by = msgs[i].by /\ msgs'[i].at = msgs[i].at
  BY <1>1, <1>2, <1>52 DEF MsgFresh
<1>6. run' = [v \in Workers |->
                 IF v = w THEN q
                 ELSE IF run[v].msg = None THEN run[v]
                 ELSE [run[v] EXCEPT !.behind = @ \cup
                         {IF run[v].id = run[w].id THEN "msg" ELSE "timeline"}]]
  BY DEF StoreMsg
<1>7. run'[w] = q
  BY <1>6
<1>8. q \in Runs /\ Good(q, conv, msgs', track, resps)
  <2>1. CASE Len(run[w].todo) = 1
    BY <2>1, AfterEnds, NoRunType, IdleGood
  <2>2. CASE run[w].op \in OnMessage /\ Moves(run[w].op, run[w].todo, "Refresh")
    <3>2. OwnMove(q, run[w], "Refresh")
      BY <1>1, <1>2, <2>2, OwnMoves
    <3> HIDE DEF q
    <3>3. Shape(q, msgs', resps)
      BY <1>1, <1>2, <1>4, <1>52, <2>2, <3>2 DEF OwnMove, Kept, Shape, OnRow, Closes, OnMessage, Surveys
    <3>4. ConvFresh(q, conv)
      BY <1>1, <1>2, <2>2, <3>2 DEF OwnMove, Kept, ConvFresh, OnMessage
    <3>5. MsgFresh(q, msgs')
      BY <1>52, <3>2 DEF OwnMove, Kept, MsgFresh
    <3>6. TrackFresh(q, track) /\ RespFresh(q, resps)
      BY <1>1, <1>2, <2>2, <3>2 DEF OwnMove, Kept, TrackFresh, RespFresh, Surveys, OnMessage
    <3> QED BY <3>2, <3>3, <3>4, <3>5, <3>6, GoodRun DEF OwnMove
  <2> QED BY <1>3, <2>1, <2>2
<1> HIDE DEF q
<1>9. ASSUME NEW v \in Workers \ {w}
      PROVE  run'[v] \in Runs /\ Good(run'[v], conv, msgs', track, resps)
  <2>1. run[v] \in Runs /\ Good(run[v], conv, msgs, track, resps)
    BY DEF DeskOK
  <2>2. MsgMarked(run'[v], run[v], run[w].id)
    BY <1>6 DEF MsgMarked
  <2>3. /\ DOMAIN msgs' = DOMAIN msgs
        /\ \A i \in DOMAIN msgs \ {run[w].id} : msgs'[i] = msgs[i]
    BY <1>52
  <2> QED BY ONLY <1>53, <2>1, <2>2, <2>3, OthersMsg
<1>10. /\ run' \in [Workers -> Runs]
       /\ \A v \in Workers : Good(run[v], conv, msgs, track, resps)'
  BY <1>5, <1>6, <1>7, <1>8, <1>9
<1>12. StoreOK'
  BY <1>0, <1>5, <1>52, <1>53 DEF StoreOK, env
<1> QED BY <1>4, <1>10, <1>12, <1>52, <1>53 DEF DeskOK

\* A new message is well formed, not deleted, and a survey's when it says so.
LEMMA NewMessageType ==
    ASSUME NEW o, NEW at \in Nat
    PROVE  /\ NewMessage(o, at) \in Messages
           /\ NewMessage(o, at).at = at /\ ~NewMessage(o, at).deleted
           /\ NewMessage(o, at).by = "system" <=> o = "SendSurvey"
<1> DEFINE b == CASE o = "Inbound" -> "customer" [] o = "SendSurvey" -> "system" [] OTHER -> "agent"
<1> DEFINE d == IF o \in {"Send", "SendSurvey"} THEN "pending" ELSE "none"
<1>1. b \in {"customer", "agent", "system"} /\ (b = "system" <=> o = "SendSurvey")
  OBVIOUS
<1>2. d \in {"none", "pending", "delivered", "read", "failed"}
  OBVIOUS
<1>3. NewMessage(o, at) = [by |-> b, delivery |-> d, at |-> at, edited |-> FALSE, deleted |-> FALSE]
  BY DEF NewMessage
<1> HIDE DEF b, d
<1> QED BY <1>1, <1>2, <1>3 DEF Messages

\* What CreateMsg makes of the run of w: the copy of the conversation shows the
\* new message n, the last of ms.
Creates(q, r, ms, n) ==
    /\ q \in Runs /\ q.op = r.op /\ q.track = r.track /\ q.resp = r.resp
    /\ q.behind = r.behind /\ q.msg = n /\ q.at = r.at
    /\ q.id = IF r.resp = None THEN Len(ms) + 1 ELSE r.id
    /\ q.conv \in Row /\ q.conv.last = Snapshot(Len(ms) + 1, n)
    /\ q.conv.unread = IF r.op = "Inbound" THEN r.conv.unread + 1 ELSE r.conv.unread
    /\ Left(q.op, q.todo) /\ Call(q) = "StoreConv" /\ q.todo # NotingPlan

\* CreateMsg appends the message and changes the copy that will show it.
LEMMA CreateMsgKeeps ==
    ASSUME DeskOK, NEW w \in Workers, CreateMsg(w)
    PROVE  /\ DeskOK'
           /\ \E n \in Messages : /\ msgs' = Append(msgs, n) /\ ~n.deleted
                                  /\ n.by = "system" <=> run[w].op = "SendSurvey"
                                  /\ Creates(run'[w], run[w], msgs, n)
<1>0. StoreOK
  BY DEF DeskOK
<1>1. run[w] # NoRun /\ Call(run[w]) = "CreateMsg"
  BY AtCall DEF CreateMsg
<1>2. /\ run[w] \in Runs
      /\ Follows(run[w].op, run[w].todo)
      /\ Shape(run[w], msgs, resps) /\ ConvFresh(run[w], conv) /\ RespFresh(run[w], resps)
  BY <1>1, BusyRun
<1>3. /\ run[w].op \in {"Send", "Note", "Inbound", "CloseNoting", "SendSurvey"}
      /\ Moves(run[w].op, run[w].todo, "StoreConv")
  BY <1>1, <1>2 DEF Follows, Call
<1>4. /\ run[w].conv \in Row /\ run[w].msg = None
      /\ run[w].conv # None /\ run[w].id \in Nat
      /\ run[w].behind \cap {"msg", "timeline"} = {}
  BY <1>1, <1>2, <1>3 DEF Shape, Runs, Closes
<1>5. UNCHANGED <<conv, track, resps, tasks, env, history>>
  BY DEF CreateMsg
<1>6. PICK at \in Instants(run[w].op) :
         LET m == NewMessage(run[w].op, at)
         IN  /\ msgs' = Append(msgs, m)
             /\ Stored(w, [run[w] EXCEPT !.msg = m,
                                    !.id = IF run[w].resp = None THEN Len(msgs) + 1 ELSE @,
                                    !.conv.last = Snapshot(Len(msgs) + 1, m),
                                    !.conv.lastAt = at,
                                    !.conv.unread = IF run[w].op = "Inbound" THEN @ + 1 ELSE @],
                       "timeline", "msg")
  BY DEF CreateMsg
<1>7. at \in Nat /\ at <= clock
  BY <1>0 DEF Instants, StoreOK
<1> DEFINE n == NewMessage(run[w].op, at)
<1> DEFINE k == Len(msgs) + 1
<1>8. /\ n \in Messages /\ n.at = at /\ ~n.deleted
      /\ n.by = "system" <=> run[w].op = "SendSurvey"
  BY <1>7, NewMessageType
<1>9. n # None /\ msgs \in Seq(Messages) /\ k \in Nat /\ Snapshot(k, n) \in [id : Nat, edited : BOOLEAN]
  BY <1>0, <1>8, NoneAssumption DEF StoreOK, Snapshot, Messages
<1> DEFINE i == IF run[w].resp = None THEN k ELSE run[w].id
<1> DEFINE r1 == [run[w] EXCEPT !.msg = n, !.id = i]
<1> DEFINE c2 == [run[w].conv EXCEPT !.last = Snapshot(k, n)]
<1> DEFINE r2 == [r1 EXCEPT !.conv = c2]
<1> DEFINE c3 == [c2 EXCEPT !.lastAt = at]
<1> DEFINE r3 == [r2 EXCEPT !.conv = c3]
<1> DEFINE u == IF run[w].op = "Inbound" THEN c3.unread + 1 ELSE c3.unread
<1> DEFINE c4 == [c3 EXCEPT !.unread = u]
<1> DEFINE r == [r3 EXCEPT !.conv = c4]
<1> DEFINE q == After(r)
<1>10. i \in Nat
  BY <1>4, <1>9
<1>11. /\ r1 \in Runs /\ r1.op = run[w].op /\ r1.todo = run[w].todo /\ r1.conv = run[w].conv
       /\ r1.id = i /\ r1.msg = n /\ r1.track = run[w].track /\ r1.resp = run[w].resp
       /\ r1.at = run[w].at /\ r1.behind = run[w].behind
  <2> HIDE DEF i, n
  <2> QED BY <1>2, <1>8, <1>10 DEF Runs
<1>12. c2 \in Row /\ c2.last = Snapshot(k, n) /\ c2.unread = run[w].conv.unread
  <2> HIDE DEF n, k
  <2> QED BY <1>4, <1>9 DEF Row
<1>13. r2.conv = c2 /\ r2 \in Runs
  <2> HIDE DEF r1, c2
  <2> QED BY <1>11, <1>12 DEF Runs
<1>14. c3 \in Row /\ c3.last = Snapshot(k, n) /\ c3.unread = run[w].conv.unread
  <2> HIDE DEF n, k, c2
  <2> QED BY <1>7, <1>12 DEF Row
<1>15. r3.conv = c3 /\ r3 \in Runs
  <2> HIDE DEF r2, c3
  <2> QED BY <1>13, <1>14 DEF Runs
<1>16. c4 \in Row /\ c4.last = Snapshot(k, n)
       /\ c4.unread = IF run[w].op = "Inbound" THEN run[w].conv.unread + 1 ELSE run[w].conv.unread
  <2> HIDE DEF n, k, c3
  <2>1. u \in Nat /\ u = IF run[w].op = "Inbound" THEN run[w].conv.unread + 1 ELSE run[w].conv.unread
    BY <1>14 DEF Row
  <2> HIDE DEF u
  <2> QED BY <1>14, <2>1 DEF Row
<1>17. r = [run[w] EXCEPT !.msg = n, !.id = i,
                          !.conv.last = Snapshot(k, n), !.conv.lastAt = at,
                          !.conv.unread = IF run[w].op = "Inbound" THEN @ + 1 ELSE @]
  BY <1>11, <1>13, <1>15
<1>18. run' = [v \in Workers |->
                IF v = w THEN q
                ELSE IF run[v].msg # None THEN [run[v] EXCEPT !.behind = @ \cup {"timeline"}]
                ELSE run[v]]
  BY <1>6, <1>17 DEF Stored
<1>19. msgs' = Append(msgs, n)
  BY <1>6
<1> HIDE DEF n, k, i, c4
<1>20. /\ r \in Runs /\ r.op = run[w].op /\ r.todo = run[w].todo /\ r.conv = c4
       /\ r.id = i /\ r.msg = n /\ r.track = run[w].track /\ r.resp = run[w].resp
       /\ r.at = run[w].at /\ r.behind = run[w].behind /\ Call(r) = "CreateMsg"
  <2>1. /\ r2 \in Runs /\ r2.op = run[w].op /\ r2.todo = run[w].todo
        /\ r2.id = i /\ r2.msg = n /\ r2.track = run[w].track /\ r2.resp = run[w].resp
        /\ r2.at = run[w].at /\ r2.behind = run[w].behind
    <3> HIDE DEF r1, c2
    <3> QED BY <1>11, <1>12 DEF Runs
  <2>2. /\ r3 \in Runs /\ r3.op = run[w].op /\ r3.todo = run[w].todo
        /\ r3.id = i /\ r3.msg = n /\ r3.track = run[w].track /\ r3.resp = run[w].resp
        /\ r3.at = run[w].at /\ r3.behind = run[w].behind
    <3> HIDE DEF r2, c3
    <3> QED BY <1>14, <2>1 DEF Runs
  <2> HIDE DEF r3
  <2> QED BY <1>1, <1>16, <2>2 DEF Runs, Call
<1> HIDE DEF r
<1>21. OwnMove(q, r, "StoreConv")
  BY <1>1, <1>3, <1>20, OwnMoves
<1>22. run'[w] = q
  BY <1>18
<1> HIDE DEF q
<1>23. Creates(q, run[w], msgs, n)
  BY <1>16, <1>20, <1>21 DEF OwnMove, Kept, Creates, k, i
<1>24. c4 # None
  BY <1>16, NoneAssumption
<1>25. Good(q, conv, msgs', track, resps)
  <2>1. Shape(q, msgs', resps)
    <3>1. /\ q.op = run[w].op /\ q.conv # None /\ q.msg # None /\ Call(q) = "StoreConv"
          /\ q.todo # NotingPlan /\ q.track = run[w].track /\ q.resp = run[w].resp
          /\ q.behind = run[w].behind
      BY <1>9, <1>20, <1>21, <1>24 DEF OwnMove, Kept
    <3>2. run[w].op = "SendSurvey" => q.id = run[w].id /\ q.id \in DOMAIN resps
      BY <1>2, <1>20, <1>21 DEF OwnMove, Kept, i, Shape, Surveys
    <3>3. q.resp # None <=> q.op \in Surveys
      BY <1>2, <3>1 DEF Shape
    <3>4. q.track = None /\ "track" \notin q.behind
      BY <1>1, <1>2, <1>3, <3>1 DEF Shape
    <3> QED BY <1>3, <3>1, <3>2, <3>3, <3>4 DEF Shape, OnRow, Closes, OnMessage, Surveys
  <2>2. ConvFresh(q, conv)
    BY <1>1, <1>2, <1>3, <1>4, <1>9, <1>16, <1>20, <1>21 DEF OwnMove, Kept, ConvFresh
  <2>3. MsgFresh(q, msgs')
    BY <1>21 DEF OwnMove, MsgFresh
  <2>4. TrackFresh(q, track) /\ RespFresh(q, resps)
    <3>1. /\ q.op = run[w].op /\ Call(q) = "StoreConv" /\ q.resp = run[w].resp
          /\ q.behind = run[w].behind
      BY <1>20, <1>21 DEF OwnMove, Kept
    <3>2. run[w].op = "SendSurvey" => q.id = run[w].id
      BY <1>2, <1>20, <1>21 DEF OwnMove, Kept, i, Shape, Surveys
    <3> QED BY <1>1, <1>2, <1>3, <3>1, <3>2 DEF TrackFresh, RespFresh, Surveys
  <2> QED BY <1>21, <2>1, <2>2, <2>3, <2>4, GoodRun DEF OwnMove
<1>26. ASSUME NEW v \in Workers \ {w}
       PROVE  run'[v] \in Runs /\ Good(run'[v], conv, msgs', track, resps)
  <2>1. run[v] \in Runs /\ Good(run[v], conv, msgs, track, resps)
    BY DEF DeskOK
  <2>2. run'[v] = IF run[v].msg # None THEN [run[v] EXCEPT !.behind = @ \cup {"timeline"}] ELSE run[v]
    BY <1>18
  <2>3. n \in Messages /\ msgs \in Seq(Messages)
    BY <1>8, <1>9
  <2>4. run'[v] \in Runs /\ Good(run'[v], conv, Append(msgs, n), track, resps)
    BY <2>1, <2>2, <2>3, OthersAppend
  <2> QED BY <1>19, <2>4
<1>27. q \in Runs
  BY <1>21 DEF OwnMove
<1>28. /\ run' \in [Workers -> Runs]
       /\ \A v \in Workers : Good(run[v], conv, msgs, track, resps)'
  BY <1>5, <1>18, <1>22, <1>25, <1>26, <1>27
<1>29. /\ msgs' \in Seq(Messages) /\ DOMAIN msgs' = 1..(Len(msgs) + 1)
       /\ msgs'[Len(msgs) + 1] = n /\ \A j \in 1..Len(msgs) : msgs'[j] = msgs[j]
  BY <1>8, <1>9, <1>19, AppendProperties
<1>30. \A j \in DOMAIN msgs' : msgs'[j].at <= clock
  <2>1. \A j \in 1..Len(msgs) : msgs[j].at <= clock
    BY <1>0 DEF StoreOK
  <2>2. ASSUME NEW j \in DOMAIN msgs'
        PROVE  msgs'[j].at <= clock
    <3>1. j \in 1..Len(msgs) \/ j = Len(msgs) + 1
      BY <1>9, <1>29
    <3> QED BY <1>7, <1>8, <1>29, <2>1, <3>1
  <2> QED BY <2>2
<1>31. StoreOK'
  BY <1>0, <1>5, <1>29, <1>30 DEF StoreOK, env, history
<1> QED BY <1>8, <1>19, <1>22, <1>23, <1>28, <1>31 DEF DeskOK

-----------------------------------------------------------------------------
(* The type invariant.                                                     *)

\* A new conversation.
LEMMA InitDesk == Init => DeskOK
<1> SUFFICES ASSUME Init
             PROVE  DeskOK
  OBVIOUS
<1>1. (CHOOSE a \in Agents : TRUE) \in Agents
  BY DeskAssumption
<1>2. conv \in Row
  BY <1>1 DEF Init, Row, Statuses, NoSnapshot
<1>3. track \in Tracking
  BY DEF Init, Started, Tracking
<1>4. StoreOK
  BY <1>2, <1>3 DEF Init, StoreOK
<1>5. run \in [Workers -> Runs] /\ \A w \in Workers : run[w] = NoRun
  BY NoRunType DEF Init
<1> QED BY <1>4, <1>5, IdleGood DEF DeskOK

\* Every step keeps the invariant.
LEMMA NextDesk == DeskOK /\ [Next]_vars => DeskOK'
<1> SUFFICES ASSUME DeskOK, [Next]_vars
             PROVE  DeskOK'
  OBVIOUS
<1>1. CASE UNCHANGED vars
  BY <1>1 DEF DeskOK, StoreOK, vars
<1>2. CASE Tick
  BY <1>2, TickKeeps
<1>3. ASSUME NEW w \in Workers, Step(w)
      PROVE  DeskOK'
  <2>1. CASE \/ Patch(w) \/ Tags(w) \/ MarkRead(w) \/ MarkUnread(w) \/ Reopen(w) \/ Close(w)
             \/ CloseInactive(w) \/ SendMessage(w) \/ AddInternalNote(w) \/ Inbound(w)
             \/ EditMessage(w) \/ DeleteMessage(w) \/ ApplyDeliveryReceipt(w) \/ RunCheck(w)
             \/ SendSurvey(w) \/ Expire(w) \/ SubmitByToken(w)
    BY <2>1, BeginsKeep
  <2>2. CASE LoadConv(w) \/ CreateMsg(w) \/ StoreConv(w) \/ FindMsg(w) \/ StoreMsg(w) \/ Refresh(w)
    BY <2>2, LoadConvKeeps, CreateMsgKeeps, StoreConvKeeps, FindMsgKeeps, StoreMsgKeeps, RefreshKeeps
  <2>3. CASE FindTrack(w) \/ Fire(w) \/ StoreTrack(w) \/ FindResp(w) \/ CreateResp(w)
    BY <2>3, FindTrackKeeps, FireKeeps, StoreTrackKeeps, FindRespKeeps, CreateRespKeeps
  <2>4. CASE \/ EnqueueSend(w) \/ FindSurvey(w) \/ StoreResp(w) \/ EnqueueExpire(w)
             \/ Fail(w) \/ Ignore(w)
    BY <2>4, EnqueueKeeps, FindSurveyKeeps, StoreRespKeeps, FailKeeps, IgnoreKeeps
  <2> QED BY <1>3, <2>1, <2>2, <2>3, <2>4 DEF Step
<1> QED BY <1>1, <1>2, <1>3 DEF Next

\* `DeskOK' holds of every reachable state.
THEOREM DeskInvariant == Spec => []DeskOK
BY InitDesk, NextDesk, PTL DEF Spec

\* The invariant gives the types.
LEMMA DeskTypes == DeskOK => TypeOK
<1> SUFFICES ASSUME DeskOK
             PROVE  TypeOK
  OBVIOUS
<1>1. StoreOK
  BY DEF DeskOK
<1>2. \A t \in tasks : t.id \in DOMAIN resps /\ t.tries \in 0..(MaxRetry + 1)
  BY <1>1 DEF StoreOK
<1>3. ASSUME NEW w \in Workers
      PROVE  /\ run[w].op \in Operations \cup {None}
             /\ run[w].conv \in Row \cup {None}
             /\ run[w].msg \in Messages \cup {None}
             /\ run[w].track \in Tracking \cup {None}
             /\ run[w].resp \in Response \cup {None}
             /\ run[w].behind \subseteq Docs
  <2>1. run[w] \in Runs
    BY DEF DeskOK
  <2> QED BY <2>1 DEF Runs
<1> QED BY <1>1, <1>2, <1>3, StoreTypes DEF TypeOK

\* Every document a worker has loaded or the service has stored is well
\* formed, and every worker is somewhere in the plan of its operation.
THEOREM TypeCorrect == Spec => []TypeOK
BY DeskInvariant, DeskTypes, PTL

-----------------------------------------------------------------------------
(* Which call changes what.                                                *)

\* The operations that begin leave the documents and what is recorded alone.
LEMMA BeginsLeave ==
    ASSUME DeskOK, NEW w \in Workers,
           \/ Patch(w) \/ Tags(w) \/ MarkRead(w) \/ MarkUnread(w) \/ Reopen(w) \/ Close(w)
           \/ CloseInactive(w) \/ SendMessage(w) \/ AddInternalNote(w) \/ Inbound(w)
           \/ EditMessage(w) \/ DeleteMessage(w) \/ ApplyDeliveryReceipt(w) \/ RunCheck(w)
           \/ SendSurvey(w) \/ Expire(w) \/ SubmitByToken(w)
    PROVE  UNCHANGED <<conv, msgs, track, resps, spoiled, fired, answered, unseen>>
<1>0. StoreOK
  BY DEF DeskOK
<1>1. CASE \/ Patch(w) \/ Tags(w) \/ MarkRead(w) \/ MarkUnread(w) \/ Reopen(w) \/ Close(w)
           \/ CloseInactive(w) \/ SendMessage(w) \/ AddInternalNote(w) \/ Inbound(w)
  BY <1>0, <1>1, ConvBegins DEF Begun, env, history
<1>2. CASE EditMessage(w) \/ DeleteMessage(w) \/ ApplyDeliveryReceipt(w) \/ RunCheck(w)
  BY <1>0, <1>2, MsgBegins DEF Begun, env, history
<1>3. CASE SendSurvey(w) \/ Expire(w) \/ SubmitByToken(w)
  BY <1>0, <1>3, SurveyBegins DEF Begun, env, history
<1> QED BY <1>1, <1>2, <1>3

\* The step a worker takes, by what it changes.
LEMMA Changes ==
    ASSUME DeskOK, NEW w \in Workers, Step(w)
    PROVE  /\ spoiled \subseteq spoiled'
           /\ UNCHANGED <<conv, unseen>> \/ StoreConv(w)
           /\ msgs' = msgs \/ CreateMsg(w) \/ StoreMsg(w)
           /\ track' = track \/ StoreTrack(w)
           /\ resps' = resps \/ CreateResp(w) \/ StoreResp(w)
           /\ fired' = fired \/ Fire(w)
           /\ answered' = answered \/ StoreResp(w)
<1>1. CASE \/ Patch(w) \/ Tags(w) \/ MarkRead(w) \/ MarkUnread(w) \/ Reopen(w) \/ Close(w)
           \/ CloseInactive(w) \/ SendMessage(w) \/ AddInternalNote(w) \/ Inbound(w)
           \/ EditMessage(w) \/ DeleteMessage(w) \/ ApplyDeliveryReceipt(w) \/ RunCheck(w)
           \/ SendSurvey(w) \/ Expire(w) \/ SubmitByToken(w)
  BY <1>1, BeginsLeave
<1>2. CASE LoadConv(w) \/ FindMsg(w) \/ FindTrack(w) \/ FindResp(w)
  BY <1>2 DEF LoadConv, FindMsg, FindTrack, FindResp, store, history
<1>3. CASE CreateMsg(w)
  BY <1>3 DEF CreateMsg, history
<1>4. CASE StoreConv(w)
  BY <1>4 DEF StoreConv, Spoil
<1>5. CASE StoreMsg(w)
  BY <1>5 DEF StoreMsg, Spoil
<1>6. CASE Refresh(w)
  BY <1>6 DEF Refresh, Spoil, store
<1>7. CASE Fire(w)
  BY <1>7 DEF Fire, store
<1>8. CASE StoreTrack(w)
  BY <1>8 DEF StoreTrack, Spoil
<1>9. CASE CreateResp(w) \/ EnqueueSend(w) \/ EnqueueExpire(w) \/ FindSurvey(w)
  BY <1>9 DEF CreateResp, EnqueueSend, EnqueueExpire, Enqueue, FindSurvey, history
<1>10. CASE StoreResp(w)
  BY <1>10 DEF StoreResp, Spoil
<1>11. CASE Fail(w)
  BY <1>11 DEF Fail
<1>12. CASE Ignore(w)
  BY <1>12 DEF Ignore, store
<1> QED BY <1>1, <1>2, <1>3, <1>4, <1>5, <1>6, <1>7, <1>8, <1>9, <1>10, <1>11, <1>12 DEF Step

\* Any step.
LEMMA NextChanges ==
    ASSUME DeskOK, [Next]_vars
    PROVE  \/ UNCHANGED <<conv, msgs, track, resps, tasks, run, spoiled, fired, answered, unseen>>
           \/ \E w \in Workers : Step(w)
BY DEF Next, Tick, vars, store, history

-----------------------------------------------------------------------------
(* Answers and the unread counter.                                         *)

\* An answer that was accepted stays: SubmitByToken, csat.send and csat.expire
\* (csat/service/service.go) store only over a response they read as waiting, so unless a
\* store of an old copy spoiled the response, nothing is stored over an answer.
THEOREM AnswersAreKept == Spec => []AnswerKept
<1>1. Init => AnswerKept
  BY DEF Init, AnswerKept
<1>2. ASSUME DeskOK, AnswerKept, [Next]_vars
      PROVE  AnswerKept'
  <2>1. CASE UNCHANGED <<conv, msgs, track, resps, tasks, run, spoiled, fired, answered, unseen>>
    BY <1>2, <2>1 DEF AnswerKept
  <2>2. ASSUME NEW w \in Workers, Step(w)
        PROVE  AnswerKept'
    <3>1. CASE StoreResp(w)
      <4>1. /\ run[w].id \in DOMAIN resps /\ DOMAIN resps' = DOMAIN resps
            /\ resps'[run[w].id] = run[w].resp
        BY <1>2, <3>1, StoreRespKeeps
      <4>2. run[w] # NoRun /\ Call(run[w]) = "StoreResp"
        BY <3>1, AtCall DEF StoreResp
      <4>3. RespFresh(run[w], resps) /\ Follows(run[w].op, run[w].todo)
        BY <1>2, <4>2, BusyRun
      <4>4. run[w].op \in Surveys
        BY <4>2, <4>3 DEF Follows, Call, Surveys
      <4>5. /\ answered' = IF run[w].op = "Submit" THEN answered \cup {run[w].id} ELSE answered
            /\ Spoil(w, "resp", {"resp"})
        BY <3>1 DEF StoreResp
      <4>6. CASE "resp" \in run[w].behind
        BY <4>5, <4>6 DEF Spoil, AnswerKept
      <4>7. CASE "resp" \notin run[w].behind
        <5>1. resps[run[w].id].status = "sent"
          BY <4>2, <4>3, <4>4, <4>7 DEF RespFresh
        <5>2. spoiled' = spoiled
          BY <4>5, <4>7 DEF Spoil
        <5>3. ASSUME "resp" \notin spoiled
              PROVE  answered = {}
          <6>1. \A i \in answered : i = run[w].id
            BY <1>2, <4>1, StoreTypes DEF DeskOK, StoreOK
          <6> QED BY <1>2, <5>1, <5>3, <6>1 DEF AnswerKept
        <5>4. run[w].op = "Submit" => run[w].resp.status = "responded"
          BY <4>3 DEF RespFresh
        <5> QED BY <4>1, <4>5, <5>2, <5>3, <5>4 DEF AnswerKept
      <4> QED BY <4>6, <4>7
    <3>2. CASE CreateResp(w) /\ ~StoreResp(w)
      <4>1. answered' = answered /\ spoiled \subseteq spoiled'
        BY <1>2, <2>2, <3>2, Changes
      <4>2. CASE resps = <<>>
        BY <1>2, <4>1, <4>2, StoreTypes DEF DeskOK, StoreOK, AnswerKept
      <4>3. CASE resps # <<>>
        <5>1. resps' = resps
          BY <3>2, <4>3 DEF CreateResp
        <5> QED BY <1>2, <4>1, <5>1 DEF AnswerKept
      <4> QED BY <4>2, <4>3
    <3>3. CASE ~CreateResp(w) /\ ~StoreResp(w)
      BY <1>2, <2>2, <3>3, Changes DEF AnswerKept
    <3> QED BY <3>1, <3>2, <3>3
  <2> QED BY <1>2, <2>1, <2>2, NextChanges
<1> QED BY <1>1, <1>2, DeskInvariant, PTL DEF Spec

\* Unless a store of an old copy spoiled the row, the badge never shows less than
\* the customer messages since the last MarkRead: every other store of the
\* conversation (conversation_service.go) carries the counter along.
THEOREM UnreadIsKept == Spec => []UnreadKept
<1>1. Init => UnreadKept
  BY DEF Init, UnreadKept
<1>2. ASSUME DeskOK, UnreadKept, [Next]_vars
      PROVE  UnreadKept'
  <2>1. CASE UNCHANGED <<conv, msgs, track, resps, tasks, run, spoiled, fired, answered, unseen>>
    BY <1>2, <2>1 DEF UnreadKept
  <2>2. ASSUME NEW w \in Workers, Step(w)
        PROVE  UnreadKept'
    <3>1. CASE ~StoreConv(w)
      BY <1>2, <2>2, <3>1, Changes DEF UnreadKept
    <3>2. CASE StoreConv(w)
      <4>1. run[w] # NoRun /\ Call(run[w]) = "StoreConv"
        BY <3>2, AtCall DEF StoreConv
      <4>2. /\ ConvFresh(run[w], conv) /\ Follows(run[w].op, run[w].todo)
            /\ Shape(run[w], msgs, resps) /\ run[w] \in Runs
        BY <1>2, <4>1, BusyRun
      <4>3. run[w].conv # None
        BY <4>1, <4>2 DEF Shape, Follows, Call, Surveys, OnRow, OnMessage, Closes
      <4>4. run[w].conv.unread \in Nat /\ conv.unread \in Nat /\ unseen \in Nat
        <5>1. run[w].conv \in Row /\ conv \in Row
          BY <1>2, <4>2, <4>3 DEF Runs, DeskOK, StoreOK
        <5> QED BY <1>2, <5>1 DEF Row, DeskOK, StoreOK
      <4>5. /\ conv' = run[w].conv
            /\ Spoil(w, "conv", {"conv", "msg", "timeline"})
            /\ unseen' = CASE run[w].op = "Inbound" -> unseen + 1
                           [] run[w].op = "MarkRead" -> 0
                           [] OTHER -> unseen
        BY <3>2 DEF StoreConv
      <4>6. CASE "conv" \in run[w].behind
        BY <4>5, <4>6 DEF Spoil, UnreadKept
      <4>7. CASE "conv" \notin run[w].behind
        <5>1. spoiled \subseteq spoiled'
          BY <4>5 DEF Spoil
        <5>2. CASE "conv" \in spoiled
          BY <5>1, <5>2 DEF UnreadKept
        <5>3. CASE "conv" \notin spoiled
          <6>1. conv.unread >= unseen
            BY <1>2, <5>3 DEF UnreadKept
          <6>2. CASE run[w].op = "Inbound"
            BY <4>1, <4>2, <4>3, <4>4, <4>5, <4>7, <6>1, <6>2 DEF ConvFresh, UnreadKept
          <6>3. CASE run[w].op = "MarkRead"
            BY <4>4, <4>5, <6>3 DEF UnreadKept
          <6>4. CASE run[w].op = "MarkUnread"
            BY <4>2, <4>3, <4>4, <4>5, <4>7, <6>1, <6>4 DEF ConvFresh, UnreadKept
          <6>5. CASE run[w].op \notin {"Inbound", "MarkRead", "MarkUnread"}
            BY <4>2, <4>3, <4>4, <4>5, <4>7, <6>1, <6>5 DEF ConvFresh, UnreadKept
          <6> QED BY <6>2, <6>3, <6>4, <6>5
        <5> QED BY <5>2, <5>3
      <4> QED BY <4>6, <4>7
    <3> QED BY <3>1, <3>2
  <2> QED BY <1>2, <2>1, <2>2, NextChanges
<1> QED BY <1>1, <1>2, DeskInvariant, PTL DEF Spec

-----------------------------------------------------------------------------
(* What a step makes of the runs.                                          *)

\* Another worker's run stays, but that a copy may be out of date.
Beside(q, r) ==
    /\ Kept(q, r) /\ q.todo = r.todo /\ Call(q) = Call(r) /\ r.behind \subseteq q.behind
    /\ q = NoRun <=> r = NoRun

\* A run is beside itself.
LEMMA BesideSame == \A r : Beside(r, r)
BY DEF Beside, Kept

\* A marked run is beside itself, with one more copy out of date.
LEMMA BesideMarked ==
    ASSUME NEW r \in Runs, NEW d \in Docs, NEW q, Marked(q, r, d), r # NoRun
    PROVE  Beside(q, r) /\ q.behind = r.behind \cup {d}
<1>1. /\ Kept(q, r) /\ q.todo = r.todo /\ q.behind = r.behind \cup {d} /\ Call(q) = Call(r)
  BY MarkedRun
<1>2. q # NoRun
  <2>1. NoRun.behind = {}
    BY NoRunType
  <2> QED BY <1>1, <2>1
<1> QED BY <1>1, <1>2 DEF Beside

\* The run of another worker after each kind of step.
LEMMA BesideOne ==
    ASSUME DeskOK, NEW w \in Workers, NEW q, run' = [run EXCEPT ![w] = q]
    PROVE  run'[w] = q /\ \A v \in Workers \ {w} : run'[v] = run[v] /\ Beside(run'[v], run[v])
BY OneRun, BesideSame

\* The runs after the store of a document.
LEMMA BesideStored ==
    ASSUME DeskOK, NEW w \in Workers, NEW r, NEW d \in Docs, NEW c \in {"conv", "msg", "track", "resp"},
           Stored(w, r, d, c)
    PROVE  /\ run'[w] = After(r)
           /\ \A v \in Workers \ {w} :
                 /\ Beside(run'[v], run[v])
                 /\ run[v][c] # None => run'[v].behind = run[v].behind \cup {d}
                 /\ run[v][c] = None => run'[v] = run[v]
<1>1. run'[w] = After(r)
  BY DEF Stored
<1>2. ASSUME NEW v \in Workers \ {w}
      PROVE  /\ Beside(run'[v], run[v])
             /\ run[v][c] # None => run'[v].behind = run[v].behind \cup {d}
             /\ run[v][c] = None => run'[v] = run[v]
  <2>1. run[v] \in Runs
    BY DEF DeskOK
  <2>2. CASE run[v][c] = None
    <3>1. run'[v] = run[v]
      BY <2>2 DEF Stored
    <3> QED BY <2>2, <3>1, BesideSame
  <2>3. CASE run[v][c] # None
    <3>1. Marked(run'[v], run[v], d)
      BY <2>3 DEF Stored, Marked
    <3>2. run[v] # NoRun
      BY <2>3, NoRunType
    <3>3. Beside(run'[v], run[v]) /\ run'[v].behind = run[v].behind \cup {d}
      BY <2>1, <3>1, <3>2, BesideMarked
    <3> QED BY <2>3, <3>3
  <2> QED BY <2>2, <2>3
<1> QED BY <1>1, <1>2

\* The runs after the store of a message.
LEMMA BesideStoreMsg ==
    ASSUME DeskOK, NEW w \in Workers, StoreMsg(w)
    PROVE  /\ run'[w] = After(run[w])
           /\ \A v \in Workers \ {w} :
                 /\ Beside(run'[v], run[v])
                 /\ run[v].msg # None => run'[v].behind \cap {"msg", "timeline"} # {}
<1>1. run'[w] = After(run[w])
  BY DEF StoreMsg
<1>2. ASSUME NEW v \in Workers \ {w}
      PROVE  /\ Beside(run'[v], run[v])
             /\ run[v].msg # None => run'[v].behind \cap {"msg", "timeline"} # {}
  <2>1. run[v] \in Runs
    BY DEF DeskOK
  <2>2. CASE run[v].msg = None
    <3>1. run'[v] = run[v]
      BY <2>2 DEF StoreMsg
    <3> QED BY <2>2, <3>1, BesideSame
  <2>3. CASE run[v].msg # None
    <3> DEFINE d == IF run[v].id = run[w].id THEN "msg" ELSE "timeline"
    <3>1. Marked(run'[v], run[v], d) /\ d \in Docs /\ d \in {"msg", "timeline"}
      BY <2>3 DEF StoreMsg, Marked, Docs
    <3>2. run[v] # NoRun
      BY <2>3, NoRunType
    <3> HIDE DEF d
    <3>3. Beside(run'[v], run[v]) /\ run'[v].behind = run[v].behind \cup {d}
      BY <2>1, <3>1, <3>2, BesideMarked
    <3> QED BY <3>1, <3>3
  <2> QED BY <2>2, <2>3
<1> QED BY <1>1, <1>2

\* Every step leaves the others beside.
LEMMA OthersStay ==
    ASSUME DeskOK, NEW w \in Workers, Step(w), NEW v \in Workers \ {w}
    PROVE  Beside(run'[v], run[v])
<1>0. StoreOK
  BY DEF DeskOK
<1>1. CASE \/ Patch(w) \/ Tags(w) \/ MarkRead(w) \/ MarkUnread(w) \/ Reopen(w) \/ Close(w)
           \/ CloseInactive(w) \/ SendMessage(w) \/ AddInternalNote(w) \/ Inbound(w)
  BY <1>0, <1>1, ConvBegins, BesideOne DEF Begun
<1>2. CASE EditMessage(w) \/ DeleteMessage(w) \/ ApplyDeliveryReceipt(w) \/ RunCheck(w)
  BY <1>0, <1>2, MsgBegins, BesideOne DEF Begun
<1>3. CASE SendSurvey(w) \/ Expire(w) \/ SubmitByToken(w)
  BY <1>0, <1>3, SurveyBegins, BesideOne, BesideSame DEF Begun
<1>4. CASE LoadConv(w) \/ FindMsg(w) \/ FindTrack(w) \/ FindResp(w)
  BY <1>4, BesideOne DEF LoadConv, FindMsg, FindTrack, FindResp, Advance, Return
<1>41. CASE FindSurvey(w) \/ Ignore(w)
  BY <1>41, BesideOne DEF FindSurvey, Ignore, Advance, Return
<1>5. CASE Refresh(w) \/ Fire(w) \/ CreateResp(w) \/ EnqueueSend(w) \/ EnqueueExpire(w) \/ Fail(w)
  BY <1>5, BesideOne
  DEF Refresh, Fire, CreateResp, EnqueueSend, EnqueueExpire, Enqueue, Fail, Advance, Return
<1>6. CASE StoreMsg(w)
  BY <1>6, BesideStoreMsg
<1>7. CASE StoreConv(w) \/ StoreTrack(w) \/ StoreResp(w)
  BY <1>7, BesideStored DEF StoreConv, StoreTrack, StoreResp, Docs
<1>8. CASE CreateMsg(w)
  BY <1>8, BesideStored DEF CreateMsg, Docs
<1> QED BY <1>1, <1>2, <1>3, <1>4, <1>41, <1>5, <1>6, <1>7, <1>8 DEF Step

\* The worker's own run: what it is after a call with nothing else to change.
LEMMA PlainCall ==
    ASSUME DeskOK, NEW w \in Workers, run[w] # NoRun, run'[w] = After(run[w])
    PROVE  \/ Len(run[w].todo) = 1 /\ run'[w] = NoRun
           \/ /\ Len(run[w].todo) # 1 /\ run'[w] # NoRun /\ Kept(run'[w], run[w])
              /\ run'[w].behind = run[w].behind /\ Call(run'[w]) = Head(Tail(run[w].todo))
<1>1. CASE Len(run[w].todo) = 1
  BY <1>1, AfterEnds
<1>2. CASE Len(run[w].todo) # 1
  <2>1. run[w] \in Runs /\ run[w].op # None
    BY BusyRun
  <2>2. /\ After(run[w]).todo = Tail(run[w].todo) /\ Kept(After(run[w]), run[w])
        /\ After(run[w]).behind = run[w].behind
    BY <1>2, <2>1 DEF After, Kept, Runs
  <2>3. run'[w] # NoRun
    BY <2>1, <2>2, NoRunType DEF Kept
  <2> QED BY <1>2, <2>2, <2>3 DEF Call
<1> QED BY <1>1, <1>2

\* Where LoadConv leaves its worker.
LEMMA LoadConvRun ==
    ASSUME DeskOK, NEW w \in Workers, LoadConv(w)
    PROVE  /\ run[w] # NoRun /\ Call(run[w]) = "LoadConv" /\ run'[w] # NoRun
           /\ run'[w].op = run[w].op /\ run'[w].msg = run[w].msg /\ run[w].msg = None
           /\ Call(run'[w]) = IF run[w].op = "Check" THEN "Fire" ELSE "CreateMsg"
<1>1. run[w] # NoRun /\ Call(run[w]) = "LoadConv"
  BY AtCall DEF LoadConv
<1>2. /\ run[w] \in Runs /\ Follows(run[w].op, run[w].todo) /\ Shape(run[w], msgs, resps)
      /\ run[w].op # None
  BY <1>1, BusyRun
<1>3. /\ Len(run[w].todo) # 1
      /\ Head(Tail(run[w].todo)) = IF run[w].op = "Check" THEN "Fire" ELSE "CreateMsg"
  BY <1>1, <1>2 DEF Follows, Call, Moves
<1> DEFINE r == [run[w] EXCEPT !.conv = conv, !.behind = @ \ {"conv"}]
<1>4. run'[w] = After(r)
  BY BesideOne DEF LoadConv, Advance
<1>5. After(r).op = run[w].op /\ After(r).msg = run[w].msg /\ After(r).todo = Tail(run[w].todo)
  BY <1>2, <1>3 DEF After, Runs
<1> HIDE DEF r
<1>6. run'[w] # NoRun
  BY <1>2, <1>4, <1>5, NoRunType
<1> QED BY <1>1, <1>2, <1>3, <1>4, <1>5, <1>6 DEF Call, Shape

\* Where FindMsg leaves its worker.
LEMMA FindMsgRun ==
    ASSUME DeskOK, NEW w \in Workers, FindMsg(w)
    PROVE  /\ run[w] # NoRun /\ Call(run[w]) = "FindMsg" /\ run[w].op \in OnMessage
           /\ run[w].msg = None
           /\ run'[w] = NoRun \/ (run'[w].op = run[w].op /\ Call(run'[w]) = "StoreMsg")
<1>1. run[w] # NoRun /\ Call(run[w]) = "FindMsg"
  BY AtCall DEF FindMsg
<1>2. run[w] \in Runs /\ Follows(run[w].op, run[w].todo) /\ Shape(run[w], msgs, resps)
  BY <1>1, BusyRun
<1>3. Len(run[w].todo) # 1 /\ Head(Tail(run[w].todo)) = "StoreMsg" /\ run[w].op \in OnMessage
  BY <1>1, <1>2 DEF Follows, Call, Moves
<1>4. CASE Return(w)
  BY <1>1, <1>2, <1>3, <1>4, BesideOne DEF Return, Shape
<1>5. ASSUME NEW n, Advance(w, [run[w] EXCEPT !.msg = n])
      PROVE  run'[w].op = run[w].op /\ Call(run'[w]) = "StoreMsg"
  <2>1. run'[w] = After([run[w] EXCEPT !.msg = n])
    BY <1>5, BesideOne DEF Advance
  <2>2. /\ After([run[w] EXCEPT !.msg = n]).op = run[w].op
        /\ After([run[w] EXCEPT !.msg = n]).todo = Tail(run[w].todo)
    BY <1>2, <1>3 DEF After, Runs
  <2> QED BY <1>3, <2>1, <2>2 DEF Call
<1>6. CASE \E n : Advance(w, [run[w] EXCEPT !.msg = n])
  BY <1>1, <1>2, <1>3, <1>5, <1>6 DEF Shape
<1> QED BY <1>4, <1>6 DEF FindMsg

\* Where FindTrack leaves its worker.
LEMMA FindTrackRun ==
    ASSUME DeskOK, NEW w \in Workers, FindTrack(w)
    PROVE  /\ run[w] # NoRun /\ Call(run[w]) = "FindTrack" /\ run[w].op \in {"Send"} \cup Closes
           /\ \/ run'[w] = NoRun
              \/ run'[w].op = run[w].op /\ Call(run'[w]) \in {"StoreTrack", "FindResp"}
<1>1. run[w] # NoRun /\ Call(run[w]) = "FindTrack"
  BY AtCall DEF FindTrack
<1>2. run[w] \in Runs /\ Follows(run[w].op, run[w].todo)
  BY <1>1, BusyRun
<1>3. /\ run[w].op \in {"Send"} \cup Closes /\ Moves(run[w].op, run[w].todo, "StoreTrack")
      /\ \/ run[w].op = "Send" /\ Len(Tail(run[w].todo)) = 1
         \/ run[w].op \in Closes /\ Moves(run[w].op, Tail(run[w].todo), "FindResp")
  BY <1>1, <1>2 DEF Follows, Call
<1>4. ASSUME NEW t, Advance(w, [run[w] EXCEPT !.track = t])
      PROVE  run'[w].op = run[w].op /\ Call(run'[w]) = "StoreTrack"
  <2>1. run'[w] = After([run[w] EXCEPT !.track = t])
    BY <1>4, BesideOne DEF Advance
  <2>2. /\ After([run[w] EXCEPT !.track = t]).op = run[w].op
        /\ After([run[w] EXCEPT !.track = t]).todo = Tail(run[w].todo)
    BY <1>2, <1>3 DEF After, Runs, Moves
  <2> QED BY <1>3, <2>1, <2>2 DEF Call, Moves
<1>5. ASSUME Advance(w, After(run[w]))
      PROVE  run'[w] = NoRun \/ (run'[w].op = run[w].op /\ Call(run'[w]) = "FindResp")
  <2> DEFINE r == After(run[w])
  <2>1. run'[w] = After(r)
    BY <1>5, BesideOne DEF Advance
  <2>2. GoesTo(r, run[w], "StoreTrack")
    BY <1>1, <1>2, <1>3, GoesOn
  <2> HIDE DEF r
  <2>3. CASE Len(Tail(run[w].todo)) = 1
    BY <2>1, <2>2, <2>3, AfterEnds DEF GoesTo
  <2>4. CASE Len(Tail(run[w].todo)) # 1 /\ Head(Tail(Tail(run[w].todo))) = "FindResp"
    <3>1. r \in Runs /\ r.todo = Tail(run[w].todo) /\ r.op = run[w].op
      BY <2>2 DEF GoesTo, Kept
    <3>2. After(r).op = r.op /\ After(r).todo = Tail(r.todo)
      BY <2>4, <3>1 DEF After, Runs
    <3> QED BY <2>1, <2>4, <3>1, <3>2 DEF Call
  <2> QED BY <1>3, <2>3, <2>4 DEF Moves
<1>6. CASE \E t : Advance(w, [run[w] EXCEPT !.track = t])
  BY <1>1, <1>3, <1>4, <1>6
<1>7. CASE Advance(w, After(run[w]))
  BY <1>1, <1>3, <1>5, <1>7
<1> QED BY <1>6, <1>7 DEF FindTrack

\* Where Fire leaves its worker, and the alerts it counts.
LEMMA FireRun ==
    ASSUME DeskOK, NEW w \in Workers, Fire(w)
    PROVE  /\ run[w] # NoRun /\ Call(run[w]) = "Fire" /\ run[w].op = "Check"
           /\ \/ run'[w] = NoRun /\ fired' = fired
              \/ /\ run'[w].op = "Check" /\ Call(run'[w]) = "StoreTrack"
                 /\ run'[w].track = Evaluated(run[w].track, run[w].at)
                 /\ run'[w].behind = run[w].behind
                 /\ fired' = [a \in Legs \X Kinds |->
                       IF /\ a \in (NewWarnings(run[w].track, run[w].at) \X {"warning"})
                                   \cup (NewBreaches(run[w].track, run[w].at) \X {"breached"})
                          /\ fired[a] < 2
                       THEN fired[a] + 1 ELSE fired[a]]
<1>1. run[w] # NoRun /\ Call(run[w]) = "Fire"
  BY AtCall DEF Fire
<1>2. run[w] \in Runs /\ Follows(run[w].op, run[w].todo)
  BY <1>1, BusyRun
<1>3. run[w].op = "Check" /\ Len(run[w].todo) # 1 /\ Head(Tail(run[w].todo)) = "StoreTrack"
  BY <1>1, <1>2 DEF Follows, Call, Moves
<1> DEFINE t == Evaluated(run[w].track, run[w].at)
<1>4. CASE Return(w) /\ UNCHANGED fired
  BY <1>1, <1>3, <1>4, BesideOne DEF Return
<1>5. CASE Advance(w, [run[w] EXCEPT !.track = t])
           /\ fired' = [a \in Legs \X Kinds |->
                       IF /\ a \in (NewWarnings(run[w].track, run[w].at) \X {"warning"})
                                   \cup (NewBreaches(run[w].track, run[w].at) \X {"breached"})
                          /\ fired[a] < 2
                       THEN fired[a] + 1 ELSE fired[a]]
  <2>1. run'[w] = After([run[w] EXCEPT !.track = t])
    BY <1>5, BesideOne DEF Advance
  <2>2. /\ After([run[w] EXCEPT !.track = t]).op = run[w].op
        /\ After([run[w] EXCEPT !.track = t]).todo = Tail(run[w].todo)
        /\ After([run[w] EXCEPT !.track = t]).track = t
        /\ After([run[w] EXCEPT !.track = t]).behind = run[w].behind
    <3> HIDE DEF t
    <3> QED BY <1>2, <1>3 DEF After, Runs
  <2>3. run'[w].op = "Check" /\ Call(run'[w]) = "StoreTrack" /\ run'[w].track = t
        /\ run'[w].behind = run[w].behind
    BY <1>3, <2>1, <2>2 DEF Call
  <2> QED BY <1>1, <1>3, <1>5, <2>3
<1> QED BY <1>4, <1>5 DEF Fire

\* Where Refresh leaves its worker, and what it makes the row show.
LEMMA RefreshRun ==
    ASSUME DeskOK, NEW w \in Workers, Refresh(w)
    PROVE  /\ run[w] # NoRun /\ Call(run[w]) = "Refresh" /\ run[w].op \in OnMessage
           /\ run[w].msg # None /\ run[w].id \in DOMAIN msgs
           /\ Spoil(w, "conv", {"conv"})
           /\ \/ run'[w] = NoRun /\ run[w].conv.last.id # run[w].id
              \/ /\ run[w].conv.last.id = run[w].id
                 /\ run'[w].op = run[w].op /\ Call(run'[w]) = "StoreConv"
                 /\ run'[w].msg = run[w].msg /\ run'[w].behind = run[w].behind
                 /\ \/ run[w].op = "Edit" /\ run'[w].conv.last = Snapshot(run[w].id, run[w].msg)
                    \/ run[w].op = "Delete" /\ Latest(msgs) = {} /\ run'[w].conv.last = NoSnapshot
                    \/ /\ run[w].op = "Delete"
                       /\ \E i \in Latest(msgs) : run'[w].conv.last = Snapshot(i, msgs[i])
<1>1. run[w] # NoRun /\ Call(run[w]) = "Refresh"
  BY AtCall DEF Refresh
<1>2. run[w] \in Runs /\ Follows(run[w].op, run[w].todo) /\ Shape(run[w], msgs, resps)
  BY <1>1, BusyRun
<1>3. Len(run[w].todo) # 1 /\ Head(Tail(run[w].todo)) = "StoreConv" /\ run[w].op \in OnMessage
  BY <1>1, <1>2 DEF Follows, Call, Moves
<1>4. /\ run[w].id \in DOMAIN msgs /\ run[w].msg # None
      /\ run[w].conv # None /\ run[w].conv \in Row
  BY <1>1, <1>2, <1>3 DEF Shape, Runs
<1>5. Spoil(w, "conv", {"conv"})
  BY DEF Refresh
<1> DEFINE Gone(q, s) == /\ q.op = run[w].op /\ Call(q) = "StoreConv"
                         /\ q.msg = run[w].msg /\ q.behind = run[w].behind /\ q.conv.last = s
<1>6. ASSUME NEW s, Advance(w, [run[w] EXCEPT !.conv.last = s])
      PROVE  Gone(run'[w], s)
  <2> DEFINE c == [run[w].conv EXCEPT !.last = s]
  <2>1. run'[w] = After([run[w] EXCEPT !.conv = c])
    BY <1>6, BesideOne DEF Advance
  <2>2. c.last = s
    BY <1>4 DEF Row
  <2> HIDE DEF c
  <2>3. /\ run'[w].op = run[w].op /\ run'[w].todo = Tail(run[w].todo)
        /\ run'[w].msg = run[w].msg /\ run'[w].behind = run[w].behind /\ run'[w].conv = c
    BY <1>2, <1>3, <2>1 DEF After, Runs
  <2> QED BY <1>3, <2>2, <2>3 DEF Call
<1>7. ASSUME NEW s, NEW a, Advance(w, [run[w] EXCEPT !.conv.last = s, !.conv.lastAt = a])
      PROVE  Gone(run'[w], s)
  <2> DEFINE c == [run[w].conv EXCEPT !.last = s]
  <2> DEFINE r == [run[w] EXCEPT !.conv = c]
  <2> DEFINE d == [c EXCEPT !.lastAt = a]
  <2>1. c.last = s
    BY <1>4 DEF Row
  <2>2. d.last = s
    BY <1>4 DEF Row
  <2> HIDE DEF c
  <2>3. r.conv = c
    BY <1>2 DEF Runs
  <2>4. run'[w] = After([r EXCEPT !.conv = d])
    BY <1>7, <2>3, BesideOne DEF Advance, c
  <2> HIDE DEF d
  <2>5. /\ run'[w].op = run[w].op /\ run'[w].todo = Tail(run[w].todo)
        /\ run'[w].msg = run[w].msg /\ run'[w].behind = run[w].behind /\ run'[w].conv = d
    BY <1>2, <1>3, <2>4 DEF After, Runs
  <2> QED BY <1>3, <2>2, <2>5 DEF Call
<1>8. CASE run[w].conv.last.id # run[w].id
  <2>1. run'[w] = NoRun
    BY <1>8, BesideOne DEF Refresh, Return
  <2> QED BY <1>1, <1>3, <1>4, <1>5, <1>8, <2>1
<1>9. CASE run[w].conv.last.id = run[w].id /\ run[w].op = "Edit"
  <2>1. Advance(w, [run[w] EXCEPT !.conv.last = Snapshot(run[w].id, run[w].msg)])
    BY <1>9 DEF Refresh
  <2>2. Gone(run'[w], Snapshot(run[w].id, run[w].msg))
    BY <1>6, <2>1
  <2> QED BY <1>1, <1>3, <1>4, <1>5, <1>9, <2>2
<1>10. CASE run[w].conv.last.id = run[w].id /\ run[w].op = "Delete" /\ Latest(msgs) = {}
  <2>1. Advance(w, [run[w] EXCEPT !.conv.last = NoSnapshot])
    BY <1>10 DEF Refresh
  <2>2. Gone(run'[w], NoSnapshot)
    BY <1>6, <2>1
  <2> QED BY <1>1, <1>3, <1>4, <1>5, <1>10, <2>2
<1>11. CASE run[w].conv.last.id = run[w].id /\ run[w].op = "Delete" /\ Latest(msgs) # {}
  <2>1. PICK i \in Latest(msgs) :
           Advance(w, [run[w] EXCEPT !.conv.last = Snapshot(i, msgs[i]), !.conv.lastAt = msgs[i].at])
    BY <1>11 DEF Refresh
  <2>2. Gone(run'[w], Snapshot(i, msgs[i]))
    BY <1>7, <2>1
  <2> QED BY <1>1, <1>3, <1>4, <1>5, <1>11, <2>2
<1> QED BY <1>3, <1>8, <1>9, <1>10, <1>11 DEF OnMessage

\* Where CreateResp leaves its worker.
LEMMA CreateRespRun ==
    ASSUME DeskOK, NEW w \in Workers, CreateResp(w)
    PROVE  /\ run[w] # NoRun /\ Call(run[w]) = "CreateResp" /\ run[w].op \in Closes
           /\ \/ resps # <<>> /\ run'[w] = NoRun /\ resps' = resps
              \/ /\ resps = <<>> /\ resps' = <<NewResponse>>
                 /\ run'[w].op = run[w].op /\ Call(run'[w]) = "EnqueueSend" /\ run'[w].id = 1
<1>1. run[w] # NoRun /\ Call(run[w]) = "CreateResp"
  BY AtCall DEF CreateResp
<1>2. run[w] \in Runs /\ Follows(run[w].op, run[w].todo)
  BY <1>1, BusyRun
<1>3. Len(run[w].todo) # 1 /\ Head(Tail(run[w].todo)) = "EnqueueSend" /\ run[w].op \in Closes
  BY <1>1, <1>2 DEF Follows, Call, Moves
<1>4. CASE resps # <<>>
  BY <1>1, <1>3, <1>4, BesideOne DEF CreateResp, Return
<1>5. CASE resps = <<>>
  <2>1. run'[w] = After([run[w] EXCEPT !.id = 1]) /\ resps' = <<NewResponse>>
    BY <1>5, BesideOne DEF CreateResp, Advance
  <2>2. run'[w].op = run[w].op /\ run'[w].todo = Tail(run[w].todo) /\ run'[w].id = 1
    BY <1>2, <1>3, <2>1 DEF After, Runs
  <2> QED BY <1>1, <1>3, <1>5, <2>1, <2>2 DEF Call
<1> QED BY <1>4, <1>5

\* The calls of which the next one follows by the plan alone.
LEMMA PlainRuns ==
    ASSUME DeskOK, NEW w \in Workers,
           StoreConv(w) \/ StoreMsg(w) \/ StoreTrack(w) \/ StoreResp(w) \/ FindResp(w)
    PROVE  /\ run[w] # NoRun
           /\ run'[w] # NoRun =>
                 /\ Kept(run'[w], run[w]) /\ run'[w].behind = run[w].behind
                 /\ StoreConv(w) =>
                       /\ Call(run'[w]) \in {"FindTrack", "LoadConv", "StoreResp"}
                       /\ run[w].op = "SendSurvey" => Call(run'[w]) = "StoreResp"
                 /\ StoreMsg(w) => Call(run'[w]) = "Refresh" /\ run[w].op \in OnMessage
                 /\ StoreTrack(w) => Call(run'[w]) = "FindResp" /\ run[w].op \in Closes
                 /\ StoreResp(w) => Call(run'[w]) = "EnqueueExpire" /\ run[w].op = "SendSurvey"
                 /\ FindResp(w) => Call(run'[w]) = "CreateResp" /\ run[w].op \in Closes
<1>1. /\ run[w] # NoRun
      /\ StoreConv(w) => Call(run[w]) = "StoreConv"
      /\ StoreMsg(w) => Call(run[w]) = "StoreMsg"
      /\ StoreTrack(w) => Call(run[w]) = "StoreTrack"
      /\ StoreResp(w) => Call(run[w]) = "StoreResp"
      /\ FindResp(w) => Call(run[w]) = "FindResp"
  BY AtCall DEF StoreConv, StoreMsg, StoreTrack, StoreResp, FindResp
<1>2. run'[w] \in {After(run[w]), NoRun}
  <2>1. CASE StoreConv(w) \/ StoreTrack(w) \/ StoreResp(w)
    BY <2>1 DEF StoreConv, StoreTrack, StoreResp, Stored
  <2>2. CASE StoreMsg(w)
    BY <2>2, BesideStoreMsg
  <2>3. CASE FindResp(w)
    BY <2>3, BesideOne DEF FindResp, Advance, Return
  <2> QED BY <2>1, <2>2, <2>3
<1>3. Follows(run[w].op, run[w].todo)
  BY <1>1, BusyRun
<1>4. ASSUME run'[w] # NoRun
      PROVE  /\ Len(run[w].todo) # 1 /\ Kept(run'[w], run[w]) /\ run'[w].behind = run[w].behind
             /\ Call(run'[w]) = Head(Tail(run[w].todo))
  BY <1>1, <1>2, <1>4, PlainCall
<1>5. ASSUME run'[w] # NoRun, StoreConv(w)
      PROVE  /\ Call(run'[w]) \in {"FindTrack", "LoadConv", "StoreResp"}
             /\ run[w].op = "SendSurvey" => Call(run'[w]) = "StoreResp"
  BY <1>1, <1>3, <1>4, <1>5 DEF Follows, Moves, Call, Closes
<1>6. ASSUME run'[w] # NoRun
      PROVE  /\ StoreMsg(w) => Call(run'[w]) = "Refresh" /\ run[w].op \in OnMessage
             /\ StoreTrack(w) => Call(run'[w]) = "FindResp" /\ run[w].op \in Closes
             /\ StoreResp(w) => Call(run'[w]) = "EnqueueExpire" /\ run[w].op = "SendSurvey"
             /\ FindResp(w) => Call(run'[w]) = "CreateResp" /\ run[w].op \in Closes
  BY <1>1, <1>3, <1>4, <1>6 DEF Follows, Moves, Call
<1> QED BY <1>1, <1>4, <1>5, <1>6

\* After its last call, and after a failure, a worker is idle.
LEMMA LastRuns ==
    ASSUME DeskOK, NEW w \in Workers, EnqueueSend(w) \/ EnqueueExpire(w) \/ Fail(w)
    PROVE  run[w] # NoRun /\ run'[w] = NoRun
<1>1. CASE Fail(w)
  BY <1>1, BesideOne DEF Fail, Idle, Return
<1>2. CASE EnqueueSend(w) \/ EnqueueExpire(w)
  <2>1. PICK c \in {"EnqueueSend", "EnqueueExpire"} : At(w, c) /\ Advance(w, run[w])
    BY <1>2 DEF EnqueueSend, EnqueueExpire, Enqueue
  <2>2. run[w] # NoRun /\ Call(run[w]) = c
    BY <2>1, AtCall
  <2>3. Len(run[w].todo) = 1
    BY <2>2, BusyRun DEF Follows, Call
  <2>4. run'[w] = After(run[w])
    BY <2>1, BesideOne DEF Advance
  <2> QED BY <2>2, <2>3, <2>4, AfterEnds
<1> QED BY <1>1, <1>2

\* Where FindSurvey leaves its worker: a survey that is not found puts the task
\* back.
LEMMA FindSurveyRun ==
    ASSUME DeskOK, NEW w \in Workers, FindSurvey(w)
    PROVE  /\ run[w] # NoRun /\ Call(run[w]) = "FindSurvey" /\ run[w].msg = None
           /\ run[w].op \in {"SendSurvey", "Submit"}
           /\ \/ run'[w] = NoRun /\ Retry(w, {run[w].tries + 1})
              \/ /\ run'[w] # NoRun /\ Kept(run'[w], run[w]) /\ run'[w].behind = run[w].behind
                 /\ Call(run'[w]) = IF run[w].op = "SendSurvey" THEN "LoadConv" ELSE "StoreResp"
                 /\ tasks' = tasks
<1>1. run[w] # NoRun /\ Call(run[w]) = "FindSurvey"
  BY AtCall DEF FindSurvey
<1>2. Follows(run[w].op, run[w].todo) /\ Shape(run[w], msgs, resps)
  BY <1>1, BusyRun
<1>3. /\ run[w].op \in {"SendSurvey", "Submit"} /\ Len(run[w].todo) # 1
      /\ Head(Tail(run[w].todo)) = IF run[w].op = "SendSurvey" THEN "LoadConv" ELSE "StoreResp"
  BY <1>1, <1>2 DEF Follows, Call, Moves
<1>4. run[w].msg = None
  BY <1>1, <1>2 DEF Shape
<1>5. CASE Return(w) /\ Retry(w, {run[w].tries + 1})
  BY <1>1, <1>3, <1>4, <1>5, BesideOne DEF Return
<1>6. CASE Advance(w, run[w]) /\ UNCHANGED tasks
  <2>1. run'[w] = After(run[w])
    BY <1>6, BesideOne DEF Advance
  <2>2. /\ run'[w] # NoRun /\ Kept(run'[w], run[w]) /\ run'[w].behind = run[w].behind
        /\ Call(run'[w]) = Head(Tail(run[w].todo))
    BY <1>1, <1>3, <2>1, PlainCall
  <2> QED BY <1>1, <1>3, <1>4, <1>6, <2>2
<1> QED BY <1>5, <1>6 DEF FindSurvey

\* Where an ignored error leaves its worker: in the hooks of a close, or idle.
LEMMA IgnoreRun ==
    ASSUME DeskOK, NEW w \in Workers, Ignore(w)
    PROVE  /\ run[w] # NoRun
           /\ \/ /\ Call(run[w]) \in {"FindTrack", "StoreTrack", "FindResp"}
                 /\ run[w].op \in {"Send", "Check"} \cup Closes
              \/ Call(run[w]) = "EnqueueSend" /\ run[w].op \in Closes
              \/ Call(run[w]) = "EnqueueExpire" /\ run[w].op = "SendSurvey"
           /\ \/ run'[w] = NoRun
              \/ /\ run'[w] # NoRun /\ run'[w].op = run[w].op /\ run[w].op \in Closes
                 /\ Call(run'[w]) \in {"FindResp", "CreateResp"}
<1>1. ASSUME At(w, "FindTrack"), Advance(w, After(run[w]))
      PROVE  /\ run[w] # NoRun /\ Call(run[w]) = "FindTrack" /\ run[w].op \in {"Send"} \cup Closes
             /\ \/ run'[w] = NoRun
                \/ /\ run'[w] # NoRun /\ run'[w].op = run[w].op /\ run[w].op \in Closes
                   /\ Call(run'[w]) = "FindResp"
  <2> DEFINE r == After(run[w])
  <2>1. run[w] # NoRun /\ Call(run[w]) = "FindTrack"
    BY <1>1, AtCall
  <2>2. run[w] \in Runs /\ Follows(run[w].op, run[w].todo) /\ run[w].op # None
    BY <2>1, BusyRun
  <2>3. /\ run[w].op \in {"Send"} \cup Closes /\ Moves(run[w].op, run[w].todo, "StoreTrack")
        /\ \/ run[w].op = "Send" /\ Len(Tail(run[w].todo)) = 1
           \/ run[w].op \in Closes /\ Moves(run[w].op, Tail(run[w].todo), "FindResp")
    BY <2>1, <2>2 DEF Follows, Call
  <2>4. run'[w] = After(r)
    BY <1>1, BesideOne DEF Advance
  <2>5. GoesTo(r, run[w], "StoreTrack")
    BY <2>1, <2>2, <2>3, GoesOn
  <2> HIDE DEF r
  <2>6. CASE Len(Tail(run[w].todo)) = 1
    BY <2>1, <2>3, <2>4, <2>5, <2>6, AfterEnds DEF GoesTo
  <2>7. CASE run[w].op \in Closes /\ Moves(run[w].op, Tail(run[w].todo), "FindResp")
    <3>1. r \in Runs /\ r.todo = Tail(run[w].todo) /\ r.op = run[w].op
      BY <2>5 DEF GoesTo, Kept
    <3>2. Len(r.todo) # 1 /\ Head(Tail(r.todo)) = "FindResp"
      BY <2>7, <3>1 DEF Moves
    <3>3. After(r).op = r.op /\ After(r).todo = Tail(r.todo)
      BY <3>1, <3>2 DEF After, Runs
    <3>4. run'[w] # NoRun
      BY <2>2, <2>4, <3>1, <3>3, NoRunType
    <3> QED BY <2>1, <2>3, <2>4, <2>7, <3>1, <3>2, <3>3, <3>4 DEF Call
  <2> QED BY <2>3, <2>6, <2>7
<1>2. ASSUME NEW c \in {"StoreTrack", "FindResp", "EnqueueSend", "EnqueueExpire"},
             At(w, c), Advance(w, run[w])
      PROVE  /\ run[w] # NoRun
             /\ \/ /\ Call(run[w]) \in {"StoreTrack", "FindResp"}
                   /\ run[w].op \in {"Send", "Check"} \cup Closes
                \/ Call(run[w]) = "EnqueueSend" /\ run[w].op \in Closes
                \/ Call(run[w]) = "EnqueueExpire" /\ run[w].op = "SendSurvey"
             /\ \/ run'[w] = NoRun
                \/ /\ run'[w] # NoRun /\ run'[w].op = run[w].op /\ run[w].op \in Closes
                   /\ Call(run'[w]) \in {"FindResp", "CreateResp"}
  <2>1. run[w] # NoRun /\ Call(run[w]) = c
    BY <1>2, AtCall
  <2>2. Follows(run[w].op, run[w].todo)
    BY <2>1, BusyRun
  <2>3. run'[w] = After(run[w])
    BY <1>2, BesideOne DEF Advance
  <2>4. \/ c \in {"StoreTrack", "FindResp"} /\ run[w].op \in {"Send", "Check"} \cup Closes
        \/ c = "EnqueueSend" /\ run[w].op \in Closes
        \/ c = "EnqueueExpire" /\ run[w].op = "SendSurvey"
    BY <2>1, <2>2 DEF Follows, Call
  <2>5. CASE Len(run[w].todo) = 1
    BY <2>1, <2>3, <2>4, <2>5, AfterEnds
  <2>6. CASE Len(run[w].todo) # 1
    <3>1. run[w].op \in Closes /\ Head(Tail(run[w].todo)) \in {"FindResp", "CreateResp"}
      BY <2>1, <2>2, <2>6 DEF Follows, Call, Moves
    <3>2. run'[w] # NoRun /\ Kept(run'[w], run[w]) /\ Call(run'[w]) = Head(Tail(run[w].todo))
      BY <2>1, <2>3, <2>6, PlainCall
    <3> QED BY <2>1, <2>4, <3>1, <3>2 DEF Kept
  <2> QED BY <2>5, <2>6
<1> QED BY <1>1, <1>2 DEF Ignore

-----------------------------------------------------------------------------
(* One survey.                                                             *)

\* A worker is busy; it holds the survey of the conversation, or the task of
\* sending it, from its creation until the survey is on its way.
Busy(w) == run[w] # NoRun
Holds(w) == Busy(w) /\ (Call(run[w]) = "EnqueueSend" \/ run[w].op = "SendSurvey")

\* The messages of the service: the surveys.
System == {i \in DOMAIN msgs : msgs[i].by = "system"}

\* A task that will send the survey.
SendTasks == {t \in tasks : t.kind = "send"}

\* A worker that is about to queue the survey or to send it.
ToSend(w) == Busy(w) /\ \/ Call(run[w]) = "EnqueueSend"
                        \/ run[w].op = "SendSurvey"
                           /\ Call(run[w]) \in {"FindSurvey", "LoadConv", "CreateMsg"}

\* A worker that has sent it and is about to queue its expiry.
Scheduling(w) == Busy(w) /\ run[w].op = "SendSurvey" /\ Call(run[w]) = "EnqueueExpire"

\* A response for which csat.send still has something to do.
Unsent == resps # <<>> /\ resps[1].status = "sent" /\ ~resps[1].sentAt

\* At most one worker or task holds the survey.  While one still has to send
\* it, none was sent, and at most one ever is; a task that comes back after the
\* survey was sent has nothing to do.
OneHolder ==
    /\ \A v, w \in Workers : Holds(v) /\ Holds(w) => v = w
    /\ \A t, u \in SendTasks : t = u
    /\ SendTasks # {} => \A w \in Workers : ~Holds(w)
    /\ resps = <<>> => System = {}
    /\ "resp" \notin spoiled /\ (\E w \in Workers : ToSend(w)) => System = {}
    /\ "resp" \notin spoiled /\ SendTasks # {} /\ Unsent => System = {}
    /\ "resp" \notin spoiled => \A i, j \in System : i = j
    /\ \A w \in Workers : Scheduling(w) => ~Unsent

\* The run of an operation that has just begun.
LEMMA BegunRun ==
    ASSUME DeskOK, NEW w \in Workers, NEW o, NEW c, NEW i, NEW m, NEW t, NEW s, Begun(w, o, c, i, m, t, s)
    PROVE  /\ run[w] = NoRun /\ o \in Operations /\ run'[w] # NoRun
           /\ run'[w].op = o /\ run'[w].id = i /\ run'[w].msg = m /\ run'[w].track = t
           /\ run'[w].behind = {} /\ Call(run'[w]) = Head(Plan[o])
           /\ UNCHANGED <<conv, msgs, track, resps, env, history>>
<1>1. PICK q \in Runs : IsNew(q, o, c, i, m, t, s) /\ run' = [run EXCEPT ![w] = q]
  BY DEF Begun
<1>2. run'[w] = q
  BY <1>1, BesideOne
<1>3. o \in Operations
  BY OperationNames DEF Begun, Starts
<1>4. o # None
  BY <1>3, NoneAssumption
<1>5. q # NoRun
  BY <1>1, <1>4, NoRunType DEF IsNew
<1> QED BY <1>1, <1>2, <1>3, <1>5 DEF IsNew, Call, Begun

\* No plan begins with the last call of a close.
LEMMA NoSendFirst == \A o \in Operations : Head(Plan[o]) # "EnqueueSend"
<1> SUFFICES ASSUME NEW o \in Operations
             PROVE  Head(Plan[o]) # "EnqueueSend"
  OBVIOUS
<1>1. o \in OnRow \cup Closes \cup OnMessage \cup {"Send", "Note", "Inbound", "Receipt", "Check",
                                               "SendSurvey", "Expire", "Submit"}
  BY OperationNames DEF Surveys
<1> QED BY <1>1, PlanHeads

\* A step that gives nobody the survey.
LEMMA QuietHolder ==
    ASSUME OneHolder, NEW w \in Workers,
           \A v \in Workers \ {w} : Beside(run'[v], run[v]),
           Holds(w)' => Holds(w), ToSend(w)' => ToSend(w),
           Scheduling(w)' => Scheduling(w) \/ ~Unsent',
           SendTasks' \subseteq SendTasks, Unsent' => Unsent,
           System' = System, resps' = <<>> => resps = <<>>, spoiled \subseteq spoiled'
    PROVE  OneHolder'
<1>1. \A v \in Workers : /\ Holds(v)' => Holds(v)
                         /\ ToSend(v)' => ToSend(v)
                         /\ Scheduling(v)' => Scheduling(v) \/ ~Unsent'
  BY DEF Beside, Kept, Holds, ToSend, Scheduling, Busy
<1> QED BY <1>1 DEF OneHolder

\* An operation other than a survey's begins.
LEMMA HolderBegins ==
    ASSUME DeskOK, OneHolder, NEW w \in Workers, Step(w), tasks' \subseteq tasks,
           NEW o, NEW c, NEW i, NEW m, NEW t, NEW s, Begun(w, o, c, i, m, t, s), o # "SendSurvey"
    PROVE  OneHolder'
<1>1. /\ run'[w].op = o /\ o \in Operations /\ Call(run'[w]) = Head(Plan[o])
      /\ UNCHANGED <<msgs, resps>>
  BY BegunRun
<1>2. ~Holds(w)' /\ ~ToSend(w)' /\ ~Scheduling(w)'
  BY <1>1, NoSendFirst DEF Holds, ToSend, Scheduling, Busy
<1>3. SendTasks' \subseteq SendTasks
  BY DEF SendTasks
<1>4. System' = System /\ Unsent' = Unsent
  BY <1>1 DEF System, Unsent
<1>5. spoiled \subseteq spoiled'
  BY Changes
<1> QED BY <1>1, <1>2, <1>3, <1>4, <1>5, OthersStay, QuietHolder

\* A holder's response is there.
LEMMA HolderResp ==
    ASSUME DeskOK, NEW w \in Workers, Holds(w)
    PROVE  resps # <<>> /\ run[w].id = 1
<1>1. run[w] # NoRun /\ (Call(run[w]) = "EnqueueSend" \/ run[w].op = "SendSurvey")
  BY DEF Holds, Busy
<1>2. Shape(run[w], msgs, resps)
  BY <1>1, BusyRun
<1>3. run[w].id \in DOMAIN resps
  BY <1>1, <1>2 DEF Shape, Surveys
<1> QED BY <1>3, StoreTypes DEF DeskOK

\* A task's response is there.
LEMMA TaskResp ==
    ASSUME DeskOK, NEW t \in tasks
    PROVE  t.id = 1 /\ resps # <<>> /\ t.kind \in {"send", "expire"}
<1>1. t \in [kind : {"send", "expire"}, id : DOMAIN resps, tries : 0..(MaxRetry + 1)]
  BY DEF DeskOK, StoreOK
<1>2. t.id = 1 /\ resps # <<>>
  BY <1>1, StoreTypes DEF DeskOK
<1> QED BY <1>1, <1>2

\* The survey's task is taken.
LEMMA HolderSendSurvey ==
    ASSUME DeskOK, OneHolder, NEW w \in Workers, Step(w), NEW k \in tasks, k.kind = "send",
           tasks' = tasks \ {k}, ~resps[k.id].sentAt,
           NEW s, Begun(w, "SendSurvey", None, k.id, None, None, s)
    PROVE  OneHolder'
<1>1. UNCHANGED <<msgs, resps>> /\ spoiled' = spoiled
  BY BegunRun DEF history
<1>2. k \in SendTasks
  BY DEF SendTasks
<1>3. SendTasks' = {}
  BY <1>2 DEF SendTasks, OneHolder
<1>4. \A v \in Workers : ~Holds(v)
  BY <1>2 DEF OneHolder
<1>5. \A v \in Workers \ {w} : ~Holds(v)'
  BY <1>4, OthersStay DEF Beside, Kept, Holds, Busy
<1>51. \A v \in Workers \ {w} : ~ToSend(v)' /\ ~Scheduling(v)'
  BY <1>5 DEF Holds, ToSend, Scheduling
<1>6. System' = System
  BY <1>1 DEF System
<1>7. Unsent
  <2>1. k.id = 1 /\ resps # <<>>
    BY TaskResp
  <2>2. resps[k.id].status = "sent"
    BY DEF Begun, Starts, OnRow, OnMessage, Closes
  <2> QED BY <2>1, <2>2 DEF Unsent
<1>8. "resp" \notin spoiled => System = {}
  BY <1>2, <1>7 DEF OneHolder
<1>9. ~Scheduling(w)'
  <2>1. "SendSurvey" \in Operations
    BY OperationNames DEF Surveys
  <2>2. Call(run'[w]) = Head(Plan["SendSurvey"])
    BY BegunRun
  <2> QED BY <2>1, <2>2, PlanHeads DEF Scheduling
<1> QED BY <1>1, <1>3, <1>5, <1>51, <1>6, <1>8, <1>9 DEF OneHolder

\* The first response is created.
LEMMA HolderCreateResp ==
    ASSUME DeskOK, OneHolder, NEW w \in Workers, Step(w), CreateResp(w)
    PROVE  OneHolder'
<1>1. UNCHANGED <<msgs, tasks, spoiled>>
  BY DEF CreateResp, history
<1>2. System' = System /\ SendTasks' = SendTasks
  BY <1>1 DEF System, SendTasks
<1>3. CASE resps # <<>>
  <2>1. resps' = resps /\ run'[w] = NoRun
    BY <1>3, CreateRespRun
  <2>2. ~Holds(w)' /\ ~ToSend(w)' /\ ~Scheduling(w)' /\ Unsent' = Unsent
    BY <2>1 DEF Holds, ToSend, Scheduling, Busy, Unsent
  <2> QED BY <1>1, <1>2, <2>1, <2>2, OthersStay, QuietHolder
<1>4. CASE resps = <<>>
  <2>1. \A v \in Workers : ~Holds(v)
    BY <1>4, HolderResp
  <2>2. \A v \in Workers \ {w} : ~Holds(v)'
    BY <2>1, OthersStay DEF Beside, Kept, Holds, Busy
  <2>3. SendTasks = {}
    BY <1>4, TaskResp DEF SendTasks
  <2>4. System = {}
    BY <1>4 DEF OneHolder
  <2>5. \A v \in Workers : ~Scheduling(v)'
    <3>1. ~Scheduling(w)'
      BY <1>4, CreateRespRun DEF Scheduling
    <3>2. \A v \in Workers \ {w} : ~Scheduling(v)'
      BY <2>2 DEF Scheduling, Holds
    <3> QED BY <3>1, <3>2
  <2> QED BY <1>2, <2>2, <2>3, <2>4, <2>5 DEF OneHolder
<1> QED BY <1>3, <1>4

\* A close hands the survey over to the task.
LEMMA HolderEnqueueSend ==
    ASSUME DeskOK, OneHolder, NEW w \in Workers, Step(w), EnqueueSend(w)
    PROVE  OneHolder'
<1>1. /\ UNCHANGED <<msgs, resps, spoiled>> /\ At(w, "EnqueueSend")
      /\ tasks' = tasks \cup {[kind |-> "send", id |-> run[w].id, tries |-> 0]}
  BY DEF EnqueueSend, Enqueue, history
<1>2. run[w] # NoRun /\ Call(run[w]) = "EnqueueSend"
  BY <1>1, AtCall
<1>3. Holds(w) /\ ToSend(w)
  BY <1>2 DEF Holds, ToSend, Busy
<1>4. SendTasks = {} /\ \A v \in Workers \ {w} : ~Holds(v)
  BY <1>3 DEF OneHolder
<1>5. \A v \in Workers \ {w} : ~Holds(v)'
  BY <1>4, OthersStay DEF Beside, Kept, Holds, Busy
<1>6. \A v \in Workers : ~Holds(v)'
  BY <1>5, LastRuns DEF Holds, Busy
<1>61. \A v \in Workers : ~ToSend(v)' /\ ~Scheduling(v)'
  BY <1>6 DEF Holds, ToSend, Scheduling
<1>7. System' = System /\ ("resp" \notin spoiled => System = {})
  BY <1>1, <1>3 DEF System, OneHolder
<1>8. \A t, u \in SendTasks' : t = u
  BY <1>1, <1>4 DEF SendTasks
<1>9. resps' # <<>>
  BY <1>1, <1>3, HolderResp
<1> QED BY <1>1, <1>6, <1>61, <1>7, <1>8, <1>9 DEF OneHolder

\* Only the service's own message adds to the surveys.
LEMMA HolderCreateMsg ==
    ASSUME DeskOK, OneHolder, NEW w \in Workers, Step(w), CreateMsg(w)
    PROVE  OneHolder'
<1>1. run[w] # NoRun /\ Call(run[w]) = "CreateMsg"
  BY AtCall DEF CreateMsg
<1>2. PICK n \in Messages : /\ msgs' = Append(msgs, n)
                            /\ n.by = "system" <=> run[w].op = "SendSurvey"
                            /\ Creates(run'[w], run[w], msgs, n)
  BY CreateMsgKeeps
<1>3. UNCHANGED <<resps, tasks, spoiled>>
  BY DEF CreateMsg, history
<1>4. run'[w].op = run[w].op /\ Call(run'[w]) = "StoreConv"
  BY <1>2 DEF Creates
<1>5. ~ToSend(w)' /\ ~Scheduling(w)' /\ (Holds(w)' => Holds(w))
  BY <1>1, <1>4 DEF ToSend, Scheduling, Holds, Busy
<1>51. SendTasks' = SendTasks /\ Unsent' = Unsent
  BY <1>3 DEF SendTasks, Unsent
<1>6. /\ DOMAIN msgs' = DOMAIN msgs \cup {Len(msgs) + 1} /\ msgs'[Len(msgs) + 1] = n
      /\ \A i \in DOMAIN msgs : msgs'[i] = msgs[i]
  <2>1. msgs \in Seq(Messages)
    BY DEF DeskOK, StoreOK
  <2>2. DOMAIN msgs = 1..Len(msgs) /\ Len(msgs) \in Nat
    BY <2>1
  <2>3. /\ DOMAIN msgs' = 1..(Len(msgs) + 1) /\ msgs'[Len(msgs) + 1] = n
        /\ \A i \in 1..Len(msgs) : msgs'[i] = msgs[i]
    BY <1>2, <2>1, AppendProperties
  <2> QED BY <2>2, <2>3
<1>7. CASE run[w].op # "SendSurvey"
  <2>1. System' = System
    BY <1>2, <1>6, <1>7 DEF System
  <2> QED BY <1>3, <1>5, <1>51, <2>1, OthersStay, QuietHolder
<1>8. CASE run[w].op = "SendSurvey"
  <2>1. Holds(w) /\ ToSend(w)
    BY <1>1, <1>8 DEF Holds, ToSend, Busy
  <2>2. "resp" \notin spoiled => System = {}
    BY <2>1 DEF OneHolder
  <2>3. "resp" \notin spoiled => \A i \in System' : i = Len(msgs) + 1
    BY <1>6, <2>2 DEF System
  <2>4. resps' # <<>>
    BY <1>3, <2>1, HolderResp
  <2>5. SendTasks = {} /\ \A v \in Workers \ {w} : ~Holds(v)
    BY <2>1 DEF OneHolder
  <2>6. \A v \in Workers \ {w} : ~Holds(v)'
    BY <2>5, OthersStay DEF Beside, Kept, Holds, Busy
  <2>7. \A v \in Workers : ~ToSend(v)' /\ ~Scheduling(v)'
    BY <1>5, <2>6 DEF Holds, ToSend, Scheduling
  <2> QED BY <1>3, <1>51, <2>3, <2>4, <2>5, <2>6, <2>7 DEF OneHolder
<1> QED BY <1>7, <1>8

\* The holder gives up: its task comes back, and none of the survey was sent
\* unless the response is spoiled or has nothing left to send.
LEMMA HolderLetsGo ==
    ASSUME DeskOK, OneHolder, NEW w \in Workers, Step(w), Holds(w), run'[w] = NoRun,
           UNCHANGED <<msgs, resps>>, spoiled \subseteq spoiled',
           NEW k, tasks' \subseteq tasks \cup {k},
           "resp" \in spoiled' \/ ToSend(w) \/ ~Unsent
    PROVE  OneHolder'
<1>1. SendTasks = {} /\ \A v \in Workers \ {w} : ~Holds(v)
  BY DEF OneHolder
<1>2. \A v \in Workers : ~Holds(v)'
  BY <1>1, OthersStay DEF Beside, Kept, Holds, Busy
<1>3. \A v \in Workers : ~ToSend(v)' /\ ~Scheduling(v)'
  BY <1>2 DEF Holds, ToSend, Scheduling
<1>4. \A t, u \in SendTasks' : t = u
  BY <1>1 DEF SendTasks
<1>5. System' = System /\ Unsent' = Unsent
  BY DEF System, Unsent
<1>6. resps' # <<>>
  BY HolderResp
<1>7. "resp" \notin spoiled' /\ Unsent' => System' = {}
  BY <1>5 DEF OneHolder
<1>8. "resp" \notin spoiled' => \A i, j \in System' : i = j
  BY <1>5 DEF OneHolder
<1> QED BY <1>2, <1>3, <1>4, <1>6, <1>7, <1>8 DEF OneHolder

\* A failed task is run again, but not after it has made its message.
LEMMA HolderFail ==
    ASSUME DeskOK, OneHolder, NEW w \in Workers, Step(w), Fail(w)
    PROVE  OneHolder'
<1>1. /\ UNCHANGED <<msgs, resps>> /\ spoiled' = spoiled \cup Torn(w)
      /\ Retry(w, {run[w].tries, run[w].tries + 1})
  BY DEF Fail
<1>2. run[w] # NoRun /\ run'[w] = NoRun
  BY LastRuns
<1>3. System' = System /\ Unsent' = Unsent
  BY <1>1 DEF System, Unsent
<1>4. ~Holds(w)' /\ ~ToSend(w)' /\ ~Scheduling(w)'
  BY <1>2 DEF Holds, ToSend, Scheduling, Busy
<1>5. CASE run[w].op # "SendSurvey"
  <2>1. SendTasks' \subseteq SendTasks
    <3>1. CASE run[w].op = "Expire"
      <4>1. PICK n : tasks' = tasks \cup {TaskOf(run[w], n)}
        BY <1>1, <3>1, RetryAdds
      <4>2. TaskOf(run[w], n).kind = "expire"
        BY <3>1 DEF TaskOf
      <4> QED BY <4>1, <4>2 DEF SendTasks
    <3>2. CASE run[w].op # "Expire"
      <4>1. tasks' = tasks
        BY <1>1, <1>5, <3>2, RetryAdds
      <4> QED BY <4>1 DEF SendTasks
    <3> QED BY <3>1, <3>2
  <2>2. spoiled \subseteq spoiled' /\ (resps' = <<>> => resps = <<>>)
    BY <1>1
  <2> QED BY <1>1, <1>3, <1>4, <2>1, <2>2, OthersStay, QuietHolder
<1>6. CASE run[w].op = "SendSurvey"
  <2>1. Holds(w)
    BY <1>2, <1>6 DEF Holds, Busy
  <2>2. PICK n : tasks' = tasks \cup {TaskOf(run[w], n)}
    BY <1>1, <1>6, RetryAdds
  <2>3. Follows(run[w].op, run[w].todo)
    BY <1>2, BusyRun
  <2>4. Call(run[w]) \in {"FindSurvey", "LoadConv", "CreateMsg", "StoreConv", "StoreResp", "EnqueueExpire"}
    BY <1>6, <2>3 DEF Follows, Call, Calls, OnMessage, Closes
  <2>5. "resp" \in spoiled' \/ ToSend(w) \/ ~Unsent
    <3>1. CASE Call(run[w]) \in {"FindSurvey", "LoadConv", "CreateMsg"}
      BY <1>2, <1>6, <3>1 DEF ToSend, Busy
    <3>2. CASE Call(run[w]) \in {"StoreConv", "StoreResp"}
      <4>1. "resp" \in Torn(w)
        BY <1>6, <3>2 DEF Torn, Call
      <4> QED BY <1>1, <4>1
    <3>3. CASE Call(run[w]) = "EnqueueExpire"
      <4>1. Scheduling(w)
        BY <1>2, <1>6, <3>3 DEF Scheduling, Busy
      <4> QED BY <4>1 DEF OneHolder
    <3> QED BY <2>4, <3>1, <3>2, <3>3
  <2>6. spoiled \subseteq spoiled'
    BY <1>1
  <2> QED BY <1>1, <1>2, <2>1, <2>2, <2>5, <2>6, HolderLetsGo
<1> QED BY <1>5, <1>6

\* A task whose survey is not found comes back; one that goes on has not sent it.
LEMMA HolderFindSurvey ==
    ASSUME DeskOK, OneHolder, NEW w \in Workers, Step(w), FindSurvey(w)
    PROVE  OneHolder'
<1>1. UNCHANGED <<msgs, resps, spoiled>>
  BY DEF FindSurvey, history
<1>2. System' = System /\ Unsent' = Unsent
  BY <1>1 DEF System, Unsent
<1>3. /\ run[w] # NoRun /\ Call(run[w]) = "FindSurvey"
      /\ run[w].op \in {"SendSurvey", "Submit"}
  BY FindSurveyRun
<1>4. CASE run'[w] = NoRun /\ Retry(w, {run[w].tries + 1})
  <2>1. CASE run[w].op = "SendSurvey"
    <3>1. Holds(w) /\ ToSend(w)
      BY <1>3, <2>1 DEF Holds, ToSend, Busy
    <3>2. PICK n : tasks' = tasks \cup {TaskOf(run[w], n)}
      BY <1>4, <2>1, RetryAdds
    <3> QED BY <1>1, <1>4, <3>1, <3>2, HolderLetsGo
  <2>2. CASE run[w].op = "Submit"
    <3>1. tasks' = tasks
      BY <1>4, <2>2, RetryAdds
    <3>2. SendTasks' = SendTasks
      BY <3>1 DEF SendTasks
    <3>3. ~Holds(w)' /\ ~ToSend(w)' /\ ~Scheduling(w)'
      BY <1>4 DEF Holds, ToSend, Scheduling, Busy
    <3> QED BY <1>1, <1>2, <3>2, <3>3, OthersStay, QuietHolder
  <2> QED BY <1>3, <2>1, <2>2
<1>5. CASE /\ run'[w] # NoRun /\ run'[w].op = run[w].op /\ tasks' = tasks
           /\ Call(run'[w]) = IF run[w].op = "SendSurvey" THEN "LoadConv" ELSE "StoreResp"
  <2>1. (Holds(w)' => Holds(w)) /\ (ToSend(w)' => ToSend(w)) /\ ~Scheduling(w)'
    BY <1>3, <1>5 DEF Holds, ToSend, Scheduling, Busy
  <2>2. SendTasks' = SendTasks
    BY <1>5 DEF SendTasks
  <2> QED BY <1>1, <1>2, <2>1, <2>2, OthersStay, QuietHolder
<1> QED BY <1>4, <1>5, FindSurveyRun DEF Kept

\* An ignored error gives nobody the survey.
LEMMA HolderIgnore ==
    ASSUME DeskOK, OneHolder, NEW w \in Workers, Step(w), Ignore(w)
    PROVE  OneHolder'
<1>1. UNCHANGED <<msgs, resps, tasks>>
  BY DEF Ignore, store
<1>2. System' = System /\ SendTasks' = SendTasks /\ Unsent' = Unsent
  BY <1>1 DEF System, SendTasks, Unsent
<1>3. \/ run'[w] = NoRun
      \/ run'[w].op \in Closes /\ Call(run'[w]) \in {"FindResp", "CreateResp"}
  BY IgnoreRun
<1>4. ~Holds(w)' /\ ~ToSend(w)' /\ ~Scheduling(w)'
  BY <1>3 DEF Holds, ToSend, Scheduling, Busy, Closes
<1>5. spoiled \subseteq spoiled'
  BY Changes
<1> QED BY <1>1, <1>2, <1>4, <1>5, OthersStay, QuietHolder

\* A stored response has nothing left to send.
LEMMA StoredResp ==
    ASSUME DeskOK, NEW w \in Workers, StoreResp(w)
    PROVE  ~Unsent'
<1>1. run[w] # NoRun /\ Call(run[w]) = "StoreResp"
  BY AtCall DEF StoreResp
<1>2. Follows(run[w].op, run[w].todo) /\ RespFresh(run[w], resps)
  BY <1>1, BusyRun
<1>3. run[w].op \in {"SendSurvey", "Expire", "Submit"}
  BY <1>1, <1>2 DEF Follows, Call
<1>4. resps'[1] = run[w].resp
  <2>1. run[w].id \in DOMAIN resps /\ resps'[run[w].id] = run[w].resp
    BY StoreRespKeeps
  <2> QED BY <2>1, StoreTypes DEF DeskOK
<1> QED BY <1>2, <1>3, <1>4 DEF RespFresh, Unsent

\* The other calls.
LEMMA HolderCalls ==
    ASSUME DeskOK, OneHolder, NEW w \in Workers, Step(w),
           \/ LoadConv(w) \/ StoreConv(w) \/ FindMsg(w) \/ StoreMsg(w) \/ Refresh(w) \/ FindTrack(w)
           \/ Fire(w) \/ StoreTrack(w) \/ FindResp(w) \/ StoreResp(w) \/ EnqueueExpire(w)
    PROVE  OneHolder'
<1>1. (Holds(w)' => Holds(w)) /\ (ToSend(w)' => ToSend(w))
  <2>1. CASE LoadConv(w)
    BY <2>1, LoadConvRun DEF Holds, ToSend, Busy
  <2>2. CASE FindMsg(w)
    BY <2>2, FindMsgRun DEF Holds, ToSend, Busy, OnMessage
  <2>3. CASE Refresh(w)
    BY <2>3, RefreshRun DEF Holds, ToSend, Busy, OnMessage
  <2>4. CASE FindTrack(w)
    BY <2>4, FindTrackRun DEF Holds, ToSend, Busy, Closes
  <2>5. CASE Fire(w)
    BY <2>5, FireRun DEF Holds, ToSend, Busy
  <2>6. CASE StoreConv(w)
    BY <2>6, PlainRuns DEF Holds, ToSend, Busy, Kept
  <2>7. CASE StoreMsg(w) \/ StoreTrack(w) \/ StoreResp(w) \/ FindResp(w)
    BY <2>7, PlainRuns DEF Holds, ToSend, Busy, Kept, OnMessage, Closes
  <2>8. CASE EnqueueExpire(w)
    BY <2>8, LastRuns DEF Holds, ToSend, Busy
  <2> QED BY <2>1, <2>2, <2>3, <2>4, <2>5, <2>6, <2>7, <2>8
<1>11. Scheduling(w)' => ~Unsent'
  <2>1. CASE StoreResp(w)
    BY <2>1, StoredResp
  <2>2. CASE LoadConv(w)
    BY <2>2, LoadConvRun DEF Scheduling
  <2>3. CASE FindMsg(w)
    BY <2>3, FindMsgRun DEF Scheduling, Busy
  <2>4. CASE Refresh(w)
    BY <2>4, RefreshRun DEF Scheduling, Busy
  <2>5. CASE FindTrack(w)
    BY <2>5, FindTrackRun DEF Scheduling, Busy
  <2>6. CASE Fire(w)
    BY <2>6, FireRun DEF Scheduling, Busy
  <2>7. CASE StoreConv(w) \/ StoreMsg(w) \/ StoreTrack(w) \/ FindResp(w)
    BY <2>7, PlainRuns DEF Scheduling, Busy
  <2>8. CASE EnqueueExpire(w)
    BY <2>8, LastRuns DEF Scheduling, Busy
  <2> QED BY <2>1, <2>2, <2>3, <2>4, <2>5, <2>6, <2>7, <2>8
<1>2. System' = System
  <2>1. CASE StoreMsg(w)
    BY <2>1, StoreMsgKeeps DEF System
  <2>2. CASE ~StoreMsg(w)
    <3>1. msgs' = msgs
      BY <2>2 DEF LoadConv, StoreConv, FindMsg, Refresh, FindTrack, Fire, StoreTrack, FindResp,
                  StoreResp, EnqueueExpire, Enqueue, store
    <3> QED BY <3>1 DEF System
  <2> QED BY <2>1, <2>2
<1>3. SendTasks' \subseteq SendTasks
  <2>1. CASE EnqueueExpire(w)
    <3>1. tasks' = tasks \cup {[kind |-> "expire", id |-> run[w].id, tries |-> 0]}
      BY <2>1 DEF EnqueueExpire, Enqueue
    <3> QED BY <3>1 DEF SendTasks
  <2>2. CASE ~EnqueueExpire(w)
    <3>1. tasks' = tasks
      BY <2>2 DEF LoadConv, StoreConv, FindMsg, StoreMsg, Refresh, FindTrack, Fire, StoreTrack,
                  FindResp, StoreResp, store
    <3> QED BY <3>1 DEF SendTasks
  <2> QED BY <2>1, <2>2
<1>4. (resps' = <<>> => resps = <<>>) /\ (Unsent' => Unsent)
  <2>1. CASE StoreResp(w)
    <3>1. run[w].id \in DOMAIN resps /\ DOMAIN resps' = DOMAIN resps
      BY <2>1, StoreRespKeeps
    <3>2. DOMAIN <<>> = {}
      OBVIOUS
    <3> QED BY <2>1, <3>1, <3>2, StoredResp
  <2>2. CASE ~StoreResp(w)
    <3>1. resps' = resps
      BY <2>2 DEF LoadConv, StoreConv, FindMsg, StoreMsg, Refresh, FindTrack, Fire, StoreTrack,
                  FindResp, EnqueueExpire, Enqueue, store
    <3> QED BY <3>1 DEF Unsent
  <2> QED BY <2>1, <2>2
<1>5. spoiled \subseteq spoiled'
  BY Changes
<1> QED BY <1>1, <1>11, <1>2, <1>3, <1>4, <1>5, OthersStay, QuietHolder

\* Every step of a worker keeps one holder.
LEMMA HolderStep ==
    ASSUME DeskOK, OneHolder, NEW w \in Workers, Step(w)
    PROVE  OneHolder'
<1>0. StoreOK
  BY DEF DeskOK
<1>1. CASE \/ Patch(w) \/ Tags(w) \/ MarkRead(w) \/ MarkUnread(w) \/ Reopen(w) \/ Close(w)
           \/ CloseInactive(w) \/ SendMessage(w) \/ AddInternalNote(w) \/ Inbound(w)
  <2>1. PICK o, c : /\ o \in OnRow \cup Closes \cup {"Send", "Note", "Inbound"}
                    /\ Begun(w, o, c, 0, None, None, None) /\ tasks' = tasks
    BY <1>0, <1>1, ConvBegins
  <2> QED BY <2>1, HolderBegins DEF OnRow, Closes
<1>2. CASE EditMessage(w) \/ DeleteMessage(w) \/ ApplyDeliveryReceipt(w) \/ RunCheck(w)
  <2>1. PICK o, c, i, m, t : /\ o \in OnMessage \cup {"Receipt", "Check"}
                             /\ Begun(w, o, c, i, m, t, None) /\ tasks' = tasks
    BY <1>0, <1>2, MsgBegins
  <2> QED BY <2>1, HolderBegins DEF OnMessage
<1>3. CASE SendSurvey(w) \/ Expire(w) \/ SubmitByToken(w)
  <2>1. CASE \E k \in tasks : \E s : /\ tasks' = tasks \ {k} /\ k.kind = "send" /\ ~resps[k.id].sentAt
                                      /\ Begun(w, "SendSurvey", None, k.id, None, None, s)
    BY <2>1, HolderSendSurvey
  <2>2. CASE \E o, i, s : tasks' \subseteq tasks /\ o # "SendSurvey" /\ Begun(w, o, None, i, None, None, s)
    BY <2>2, HolderBegins
  <2>3. CASE tasks' \subseteq tasks /\ UNCHANGED <<conv, msgs, track, resps, run, env, history>>
    <3>1. UNCHANGED <<msgs, resps, run, spoiled>>
      BY <2>3 DEF history
    <3>2. System' = System /\ SendTasks' \subseteq SendTasks /\ Unsent' = Unsent
      BY <2>3, <3>1 DEF System, SendTasks, Unsent
    <3>3. /\ Holds(w)' => Holds(w)
          /\ ToSend(w)' => ToSend(w)
          /\ Scheduling(w)' => Scheduling(w)
      BY <3>1 DEF Holds, ToSend, Scheduling, Busy
    <3> QED BY <3>1, <3>2, <3>3, OthersStay, QuietHolder
  <2> QED BY <1>0, <1>3, <2>1, <2>2, <2>3, SurveyBegins
<1>4. CASE \/ LoadConv(w) \/ StoreConv(w) \/ FindMsg(w) \/ StoreMsg(w) \/ Refresh(w) \/ FindTrack(w)
           \/ Fire(w) \/ StoreTrack(w) \/ FindResp(w) \/ StoreResp(w) \/ EnqueueExpire(w)
  BY <1>4, HolderCalls
<1>5. CASE CreateMsg(w) \/ CreateResp(w) \/ EnqueueSend(w) \/ FindSurvey(w) \/ Fail(w) \/ Ignore(w)
  BY <1>5, HolderCreateMsg, HolderCreateResp, HolderEnqueueSend, HolderFindSurvey, HolderFail,
     HolderIgnore
<1> QED BY <1>1, <1>2, <1>3, <1>4, <1>5 DEF Step

\* However often a conversation is closed, by whom and at the same time, at most
\* one survey is sent: the unique index lets one close create the response, and a
\* csat.send task that failed after storing its message, and so runs again, has
\* spoiled the response.
THEOREM OneSurveySent == Spec => []OneSurvey
<1>1. Init => OneHolder
  BY DEF Init, OneHolder, Holds, Busy, System, SendTasks, ToSend, Scheduling
<1>2. ASSUME DeskOK, OneHolder, [Next]_vars
      PROVE  OneHolder'
  <2>1. CASE UNCHANGED <<conv, msgs, track, resps, tasks, run, spoiled, fired, answered, unseen>>
    BY <1>2, <2>1 DEF OneHolder, Holds, Busy, System, SendTasks, ToSend, Scheduling, Unsent
  <2> QED BY <1>2, <2>1, NextChanges, HolderStep
<1>3. ASSUME OneHolder
      PROVE  OneSurvey
  <2>1. SUFFICES ASSUME "resp" \notin spoiled
                 PROVE  Cardinality(System) <= 1
    BY DEF OneSurvey, System
  <2>2. CASE System = {}
    BY <2>2, FS_EmptySet
  <2>3. CASE System # {}
    <3>1. PICK i : i \in System
      BY <2>3
    <3>2. \A j \in System : j = i
      BY <1>3, <2>1, <3>1 DEF OneHolder
    <3>3. System = {i}
      BY <3>1, <3>2
    <3>4. Cardinality({i}) = 1
      BY FS_Singleton
    <3> QED BY <3>3, <3>4
  <2> QED BY <2>2, <2>3
<1> QED BY <1>1, <1>2, <1>3, DeskInvariant, PTL DEF Spec

-----------------------------------------------------------------------------
(* A response does not wait for nothing.                                   *)

\* A task that will send the survey, and one that will expire the response.
SendTask == \E t \in tasks : t.kind = "send"
ExpireTask == \E t \in tasks : t.kind = "expire"

\* A worker that will send the survey, or queue the task that does.
Sends(w) == Busy(w) /\ \/ Call(run[w]) = "EnqueueSend"
                       \/ run[w].op = "SendSurvey" /\ Call(run[w]) # "EnqueueExpire"

\* A worker that will queue the expiry of the response, or expires it.
Expires(w) == Busy(w) /\ (Call(run[w]) = "EnqueueExpire" \/ run[w].op = "Expire")

\* The response waits, and every task for it was queued.
Waiting == "queue" \notin spoiled /\ resps # <<>> /\ resps[1].status = "sent"

\* Before the survey is sent, somebody will send it; then, somebody will
\* expire it.
Moving ==
    Waiting =>
       /\ ~resps[1].sentAt => SendTask \/ \E w \in Workers : Sends(w)
       /\ resps[1].sentAt => ExpireTask \/ \E w \in Workers : Expires(w)

\* A step that leaves the response alone, and of which neither the tasks nor
\* the worker give up what the response waits for.
LEMMA StillMoving ==
    ASSUME Moving, NEW w \in Workers,
           \A v \in Workers \ {w} : Beside(run'[v], run[v]),
           resps' = resps, spoiled \subseteq spoiled',
           Waiting' /\ (SendTask \/ Sends(w)) => SendTask' \/ Sends(w)' \/ resps[1].sentAt,
           Waiting' /\ (ExpireTask \/ Expires(w)) => ExpireTask' \/ Expires(w)'
    PROVE  Moving'
<1>1. \A v \in Workers \ {w} : (Sends(v) => Sends(v)') /\ (Expires(v) => Expires(v)')
  BY DEF Beside, Kept, Sends, Expires, Busy
<1>2. Waiting' => Waiting
  BY DEF Waiting
<1> QED BY <1>1, <1>2 DEF Moving

\* The operations that begin: a survey's takes its task.
LEMMA MovingBegins ==
    ASSUME DeskOK, Moving, NEW w \in Workers, Step(w),
           NEW o, NEW c, NEW i, NEW m, NEW t, NEW s, Begun(w, o, c, i, m, t, s),
           \/ tasks' = tasks
           \/ \E k \in tasks : /\ tasks' = tasks \ {k}
                               /\ \/ k.kind = "send" /\ o = "SendSurvey"
                                  \/ k.kind = "expire" /\ o = "Expire"
    PROVE  Moving'
<1>1. /\ run[w] = NoRun /\ run'[w] # NoRun /\ o \in Operations
      /\ run'[w].op = o /\ Call(run'[w]) = Head(Plan[o]) /\ UNCHANGED <<resps, history>>
  BY BegunRun
<1>2. ~Sends(w) /\ ~Expires(w) /\ spoiled' = spoiled
  BY <1>1 DEF Sends, Expires, Busy, history
<1>3. o = "SendSurvey" => Sends(w)'
  BY <1>1, PlanHeads DEF Sends, Busy
<1>4. o = "Expire" => Expires(w)'
  BY <1>1 DEF Expires, Busy
<1>5. (SendTask => SendTask' \/ Sends(w)') /\ (ExpireTask => ExpireTask' \/ Expires(w)')
  BY <1>3, <1>4 DEF SendTask, ExpireTask
<1> QED BY <1>1, <1>2, <1>5, OthersStay, StillMoving

\* A task that finds nothing to do is not what the response waits for.
LEMMA MovingSkips ==
    ASSUME DeskOK, Moving, NEW w \in Workers, Step(w), NEW k \in tasks, tasks' = tasks \ {k},
           k.kind = "send" => resps[k.id].status # "sent" \/ resps[k.id].sentAt,
           k.kind = "expire" => resps[k.id].status # "sent",
           UNCHANGED <<conv, msgs, track, resps, run, env, history>>
    PROVE  Moving'
<1>1. UNCHANGED <<resps, run, spoiled>>
  BY DEF history
<1>2. k.id = 1
  BY TaskResp
<1>3. Sends(w)' = Sends(w) /\ Expires(w)' = Expires(w)
  BY <1>1 DEF Sends, Expires, Busy
<1>4. Waiting' => (k.kind = "send" => resps[1].sentAt) /\ k.kind # "expire"
  BY <1>1, <1>2 DEF Waiting
<1>5. Waiting' => /\ SendTask => SendTask' \/ resps[1].sentAt
                  /\ ExpireTask => ExpireTask'
  BY <1>4 DEF SendTask, ExpireTask
<1> QED BY <1>1, <1>3, <1>5, OthersStay, StillMoving

\* The close that creates the response goes on to queue its task.
LEMMA MovingCreateResp ==
    ASSUME DeskOK, Moving, NEW w \in Workers, Step(w), CreateResp(w)
    PROVE  Moving'
<1>1. UNCHANGED <<tasks, spoiled>>
  BY DEF CreateResp, history
<1>2. CASE resps # <<>>
  <2>1. run[w] # NoRun /\ Call(run[w]) = "CreateResp" /\ run[w].op \in Closes /\ resps' = resps
    BY <1>2, CreateRespRun
  <2>2. ~Sends(w) /\ ~Expires(w)
    BY <2>1 DEF Sends, Expires, Closes
  <2>3. (SendTask => SendTask') /\ (ExpireTask => ExpireTask')
    BY <1>1 DEF SendTask, ExpireTask
  <2> QED BY <1>1, <2>1, <2>2, <2>3, OthersStay, StillMoving
<1>3. CASE resps = <<>>
  <2>1. /\ resps' = <<NewResponse>> /\ Call(run'[w]) = "EnqueueSend"
        /\ run'[w].op \in Closes
    BY <1>3, CreateRespRun
  <2>2. run'[w] # NoRun
    BY <2>1, NoneAssumption, OperationNames DEF NoRun
  <2>3. Sends(w)'
    BY <2>1, <2>2 DEF Sends, Busy
  <2>4. ~resps'[1].sentAt
    BY <2>1 DEF NewResponse
  <2> QED BY <2>3, <2>4 DEF Moving
<1> QED BY <1>2, <1>3

\* The survey's last step but one leaves a response that expires; an expiry
\* and an answer end the wait.
LEMMA MovingStoreResp ==
    ASSUME DeskOK, Moving, NEW w \in Workers, Step(w), StoreResp(w)
    PROVE  Moving'
<1>1. run[w] # NoRun /\ Call(run[w]) = "StoreResp"
  BY AtCall DEF StoreResp
<1>2. Follows(run[w].op, run[w].todo) /\ RespFresh(run[w], resps)
  BY <1>1, BusyRun
<1>3. resps'[1] = run[w].resp
  <2>1. run[w].id \in DOMAIN resps /\ resps'[run[w].id] = run[w].resp
    BY StoreRespKeeps
  <2> QED BY <2>1, StoreTypes DEF DeskOK
<1>4. CASE run[w].op \in {"Expire", "Submit"}
  BY <1>2, <1>3, <1>4 DEF RespFresh, Moving, Waiting
<1>5. CASE run[w].op = "SendSurvey"
  <2>1. Len(run[w].todo) # 1
    BY <1>1, <1>2, <1>5 DEF Follows, Moves, Call
  <2>2. run'[w] = After(run[w])
    BY BesideStored DEF StoreResp, Docs
  <2>3. run'[w] # NoRun
    BY <1>1, <2>1, <2>2, PlainCall
  <2>4. Expires(w)'
    BY <2>3, PlainRuns DEF Expires, Busy
  <2>5. resps'[1].sentAt
    BY <1>2, <1>3, <1>5 DEF RespFresh
  <2> QED BY <2>4, <2>5 DEF Moving
<1> QED BY <1>1, <1>2, <1>4, <1>5 DEF Follows, Call

\* Tasks are queued: by a close, and by a survey that was sent.
LEMMA MovingEnqueues ==
    ASSUME DeskOK, Moving, NEW w \in Workers, Step(w), EnqueueSend(w) \/ EnqueueExpire(w)
    PROVE  Moving'
<1>1. UNCHANGED <<resps, spoiled>>
  BY DEF EnqueueSend, EnqueueExpire, Enqueue, history
<1>2. CASE EnqueueSend(w)
  <2>1. run[w] # NoRun /\ Call(run[w]) = "EnqueueSend"
    BY <1>2, AtCall DEF EnqueueSend, Enqueue
  <2>2. run[w].op \in Closes
    BY <2>1, BusyRun DEF Follows, Call
  <2>3. ~Expires(w)
    BY <2>1, <2>2 DEF Expires, Closes
  <2>4. tasks' = tasks \cup {[kind |-> "send", id |-> run[w].id, tries |-> 0]}
    BY <1>2 DEF EnqueueSend, Enqueue
  <2>5. SendTask' /\ (ExpireTask => ExpireTask')
    <3>1. [kind |-> "send", id |-> run[w].id, tries |-> 0] \in tasks' /\ tasks \subseteq tasks'
      BY <2>4
    <3>2. [kind |-> "send", id |-> run[w].id, tries |-> 0].kind = "send"
      OBVIOUS
    <3>3. SendTask'
      BY <3>1, <3>2 DEF SendTask
    <3> QED BY <3>1, <3>3 DEF ExpireTask
  <2> QED BY <1>1, <2>3, <2>5, OthersStay, StillMoving
<1>3. CASE EnqueueExpire(w)
  <2>1. run[w] # NoRun /\ Call(run[w]) = "EnqueueExpire"
    BY <1>3, AtCall DEF EnqueueExpire, Enqueue
  <2>2. ~Sends(w)
    BY <2>1 DEF Sends
  <2>3. tasks' = tasks \cup {[kind |-> "expire", id |-> run[w].id, tries |-> 0]}
    BY <1>3 DEF EnqueueExpire, Enqueue
  <2>4. ExpireTask' /\ (SendTask => SendTask')
    <3>1. [kind |-> "expire", id |-> run[w].id, tries |-> 0] \in tasks' /\ tasks \subseteq tasks'
      BY <2>3
    <3>2. [kind |-> "expire", id |-> run[w].id, tries |-> 0].kind = "expire"
      OBVIOUS
    <3>3. ExpireTask'
      BY <3>1, <3>2 DEF ExpireTask
    <3> QED BY <3>1, <3>3 DEF SendTask
  <2> QED BY <1>1, <2>2, <2>4, OthersStay, StillMoving
<1> QED BY <1>2, <1>3

\* A task that ends without success comes back; only a task that was not queued
\* is lost.
LEMMA MovingBack ==
    ASSUME Moving, NEW w \in Workers, \A v \in Workers \ {w} : Beside(run'[v], run[v]),
           resps' = resps, spoiled \subseteq spoiled', NEW counts, Retry(w, counts),
           Call(run[w]) \in {"EnqueueSend", "EnqueueExpire"} => "queue" \in spoiled'
    PROVE  Moving'
<1>1. tasks \subseteq tasks'
  <2>1. CASE run[w].op \in {"SendSurvey", "Expire"}
    BY <2>1, RetryAdds
  <2>2. CASE run[w].op \notin {"SendSurvey", "Expire"}
    BY <2>2, RetryAdds
  <2> QED BY <2>1, <2>2
<1>2. (SendTask => SendTask') /\ (ExpireTask => ExpireTask')
  BY <1>1 DEF SendTask, ExpireTask
<1>3. ASSUME run[w].op \in {"SendSurvey", "Expire"}
      PROVE  IF run[w].op = "SendSurvey" THEN SendTask' ELSE ExpireTask'
  <2>1. PICK n \in counts : tasks' = tasks \cup {TaskOf(run[w], n)}
    BY <1>3, RetryAdds
  <2>2. TaskOf(run[w], n).kind = IF run[w].op = "SendSurvey" THEN "send" ELSE "expire"
    BY DEF TaskOf
  <2>3. TaskOf(run[w], n) \in tasks'
    BY <2>1
  <2>4. CASE run[w].op = "SendSurvey"
    BY <2>2, <2>3, <2>4 DEF SendTask
  <2>5. CASE run[w].op # "SendSurvey"
    BY <2>2, <2>3, <2>5 DEF ExpireTask
  <2> QED BY <2>4, <2>5
<1>4. /\ Waiting' /\ Sends(w) => SendTask'
      /\ Waiting' /\ Expires(w) => ExpireTask'
  BY <1>3 DEF Waiting, Sends, Expires
<1> QED BY <1>2, <1>4, StillMoving

\* A failure.
LEMMA MovingFail ==
    ASSUME DeskOK, Moving, NEW w \in Workers, Step(w), Fail(w)
    PROVE  Moving'
<1>1. /\ resps' = resps /\ spoiled' = spoiled \cup Torn(w)
      /\ Retry(w, {run[w].tries, run[w].tries + 1})
  BY DEF Fail
<1>2. Call(run[w]) \in {"EnqueueSend", "EnqueueExpire"} => "queue" \in Torn(w)
  BY DEF Torn, Call
<1>3. spoiled \subseteq spoiled'
  BY <1>1
<1> QED BY <1>1, <1>2, <1>3, OthersStay, MovingBack

\* A survey that is not found.
LEMMA MovingFindSurvey ==
    ASSUME DeskOK, Moving, NEW w \in Workers, Step(w), FindSurvey(w)
    PROVE  Moving'
<1>1. resps' = resps /\ spoiled' = spoiled
  BY DEF FindSurvey, history
<1>2. /\ run[w] # NoRun /\ Call(run[w]) = "FindSurvey"
      /\ run[w].op \in {"SendSurvey", "Submit"}
  BY FindSurveyRun
<1>3. CASE Retry(w, {run[w].tries + 1})
  BY <1>1, <1>2, <1>3, OthersStay, MovingBack
<1>4. CASE /\ run'[w] # NoRun /\ run'[w].op = run[w].op /\ tasks' = tasks
           /\ Call(run'[w]) = IF run[w].op = "SendSurvey" THEN "LoadConv" ELSE "StoreResp"
  <2>1. (Sends(w) => Sends(w)') /\ ~Expires(w)
    BY <1>2, <1>4 DEF Sends, Expires, Busy
  <2>2. (SendTask => SendTask') /\ (ExpireTask => ExpireTask')
    BY <1>4 DEF SendTask, ExpireTask
  <2> QED BY <1>1, <2>1, <2>2, OthersStay, StillMoving
<1> QED BY <1>3, <1>4, FindSurveyRun DEF Kept

\* An ignored error: a task that is not queued is lost, the rest has nothing to
\* do with the survey.
LEMMA MovingIgnore ==
    ASSUME DeskOK, Moving, NEW w \in Workers, Step(w), Ignore(w)
    PROVE  Moving'
<1>1. UNCHANGED <<resps, tasks>> /\ spoiled' = spoiled \cup Torn(w)
  BY DEF Ignore, store
<1>2. CASE Call(run[w]) \in {"EnqueueSend", "EnqueueExpire"}
  <2>1. "queue" \in Torn(w)
    BY <1>2 DEF Torn, Call
  <2>2. ~Waiting'
    BY <1>1, <2>1 DEF Waiting
  <2> QED BY <2>2 DEF Moving
<1>3. CASE /\ Call(run[w]) \in {"FindTrack", "StoreTrack", "FindResp"}
           /\ run[w].op \in {"Send", "Check"} \cup Closes
  <2>1. ~Sends(w) /\ ~Expires(w)
    BY <1>3 DEF Sends, Expires, Closes
  <2>2. (SendTask => SendTask') /\ (ExpireTask => ExpireTask')
    BY <1>1 DEF SendTask, ExpireTask
  <2>3. spoiled \subseteq spoiled'
    BY <1>1
  <2> QED BY <1>1, <2>1, <2>2, <2>3, OthersStay, StillMoving
<1> QED BY <1>2, <1>3, IgnoreRun

\* The other calls are the survey's own, or of an operation that has nothing
\* to do with it.
LEMMA MovingCalls ==
    ASSUME DeskOK, Moving, NEW w \in Workers, Step(w),
           \/ LoadConv(w) \/ CreateMsg(w) \/ StoreConv(w) \/ FindMsg(w) \/ StoreMsg(w) \/ Refresh(w)
           \/ FindTrack(w) \/ Fire(w) \/ StoreTrack(w) \/ FindResp(w)
    PROVE  Moving'
<1>1. UNCHANGED <<resps, tasks>>
  BY DEF LoadConv, CreateMsg, StoreConv, FindMsg, StoreMsg, Refresh, FindTrack, Fire, StoreTrack,
         FindResp, store
<1>2. spoiled \subseteq spoiled'
  BY Changes
<1>3. (SendTask => SendTask') /\ (ExpireTask => ExpireTask')
  BY <1>1 DEF SendTask, ExpireTask
<1>4. (Sends(w) => Sends(w)') /\ (Expires(w) => Expires(w)')
  <2>1. CASE LoadConv(w)
    BY <2>1, LoadConvRun DEF Sends, Expires, Busy
  <2>2. CASE CreateMsg(w)
    <3>1. run[w] # NoRun /\ Call(run[w]) = "CreateMsg"
      BY <2>2, AtCall DEF CreateMsg
    <3>2. run[w].op # None /\ Follows(run[w].op, run[w].todo)
      BY <3>1, BusyRun
    <3>3. run[w].op # "Expire"
      BY <3>1, <3>2 DEF Follows, Call
    <3>4. run'[w].op = run[w].op /\ Call(run'[w]) = "StoreConv"
      BY <2>2, CreateMsgKeeps DEF Creates
    <3>5. run'[w] # NoRun
      BY <3>2, <3>4, NoRunType
    <3> QED BY <3>1, <3>3, <3>4, <3>5 DEF Sends, Expires, Busy
  <2>3. CASE StoreConv(w)
    <3>1. run[w] # NoRun /\ Call(run[w]) = "StoreConv"
      BY <2>3, AtCall DEF StoreConv
    <3>2. Follows(run[w].op, run[w].todo)
      BY <3>1, BusyRun
    <3>3. run[w].op # "Expire"
      BY <3>1, <3>2 DEF Follows, Call, OnRow, OnMessage, Closes
    <3>4. run[w].op = "SendSurvey" => Len(run[w].todo) # 1
      BY <3>1, <3>2 DEF Follows, Call, Moves, OnRow, OnMessage, Closes
    <3>5. run'[w] = After(run[w])
      BY <2>3, BesideStored DEF StoreConv, Docs
    <3>6. run[w].op = "SendSurvey" => run'[w] # NoRun
      BY <3>1, <3>4, <3>5, PlainCall
    <3>7. run[w].op = "SendSurvey" => run'[w].op = "SendSurvey" /\ Call(run'[w]) = "StoreResp"
      BY <2>3, <3>6, PlainRuns DEF Kept
    <3> QED BY <3>1, <3>3, <3>6, <3>7 DEF Sends, Expires, Busy
  <2>4. CASE \/ FindMsg(w) \/ StoreMsg(w) \/ Refresh(w) \/ FindTrack(w) \/ Fire(w) \/ StoreTrack(w)
             \/ FindResp(w)
    <3>1. PICK d \in {"FindMsg", "StoreMsg", "Refresh", "FindTrack", "Fire", "StoreTrack", "FindResp"} :
             At(w, d)
      BY <2>4 DEF FindMsg, StoreMsg, Refresh, FindTrack, Fire, StoreTrack, FindResp
    <3>2. run[w] # NoRun /\ Call(run[w]) = d
      BY <3>1, AtCall
    <3>3. Follows(run[w].op, run[w].todo)
      BY <3>2, BusyRun
    <3>4. run[w].op \notin {"SendSurvey", "Expire"}
      BY <3>2, <3>3 DEF Follows, Call, OnMessage, Closes
    <3> QED BY <3>2, <3>4 DEF Sends, Expires
  <2> QED BY <2>1, <2>2, <2>3, <2>4
<1> QED BY <1>1, <1>2, <1>3, <1>4, OthersStay, StillMoving

\* Every step of a worker keeps the response moving.
LEMMA MovingStep ==
    ASSUME DeskOK, Moving, NEW w \in Workers, Step(w)
    PROVE  Moving'
<1>0. StoreOK
  BY DEF DeskOK
<1>1. CASE \/ Patch(w) \/ Tags(w) \/ MarkRead(w) \/ MarkUnread(w) \/ Reopen(w) \/ Close(w)
           \/ CloseInactive(w) \/ SendMessage(w) \/ AddInternalNote(w) \/ Inbound(w)
  BY <1>0, <1>1, ConvBegins, MovingBegins
<1>2. CASE EditMessage(w) \/ DeleteMessage(w) \/ ApplyDeliveryReceipt(w) \/ RunCheck(w)
  BY <1>0, <1>2, MsgBegins, MovingBegins
<1>3. CASE SendSurvey(w) \/ Expire(w) \/ SubmitByToken(w)
  BY <1>0, <1>3, SurveyBegins, MovingBegins, MovingSkips
<1>4. CASE \/ LoadConv(w) \/ CreateMsg(w) \/ StoreConv(w) \/ FindMsg(w) \/ StoreMsg(w) \/ Refresh(w)
           \/ FindTrack(w) \/ Fire(w) \/ StoreTrack(w) \/ FindResp(w)
  BY <1>4, MovingCalls
<1>5. CASE CreateResp(w) \/ StoreResp(w) \/ EnqueueSend(w) \/ EnqueueExpire(w)
  BY <1>5, MovingCreateResp, MovingStoreResp, MovingEnqueues
<1>6. CASE FindSurvey(w) \/ Fail(w) \/ Ignore(w)
  BY <1>6, MovingFindSurvey, MovingFail, MovingIgnore
<1> QED BY <1>1, <1>2, <1>3, <1>4, <1>5, <1>6 DEF Step

\* A response that waits never waits for nothing, whatever fails and whoever stores
\* it: there is a task that will send or expire it (csat/service/service.go), which
\* the queue has archived if it failed more than MaxRetry times, or a worker about
\* to enqueue one, unless a task could not be put into the queue.
THEOREM SurveysMoveOn == Spec => []SurveyMovesOn
<1>1. Init => Moving
  BY DEF Init, Moving, Waiting
<1>2. ASSUME DeskOK, Moving, [Next]_vars
      PROVE  Moving'
  <2>1. CASE UNCHANGED <<conv, msgs, track, resps, tasks, run, spoiled, fired, answered, unseen>>
    BY <1>2, <2>1 DEF Moving, Waiting, SendTask, ExpireTask, Sends, Expires, Busy
  <2> QED BY <1>2, <2>1, NextChanges, MovingStep
<1>3. ASSUME DeskOK, Moving
      PROVE  SurveyMovesOn
  <2>1. SUFFICES ASSUME NEW i \in DOMAIN resps, resps[i].status = "sent", "queue" \notin spoiled
                 PROVE  \/ \E t \in tasks : t.id = i
                        \/ \E w \in Workers :
                              /\ run[w].id = i
                              /\ At(w, "EnqueueSend") \/ run[w].op \in {"SendSurvey", "Expire"}
    BY DEF SurveyMovesOn
  <2>2. i = 1 /\ resps # <<>>
    BY <1>3, StoreTypes DEF DeskOK
  <2>3. Waiting
    BY <2>1, <2>2 DEF Waiting
  <2>4. CASE SendTask \/ ExpireTask
    BY <1>3, <2>2, <2>4, TaskResp DEF SendTask, ExpireTask
  <2>5. ASSUME NEW w \in Workers, Sends(w) \/ Expires(w)
        PROVE  run[w].id = 1 /\ (At(w, "EnqueueSend") \/ run[w].op \in {"SendSurvey", "Expire"})
    <3>1. run[w] # NoRun
      BY <2>5 DEF Sends, Expires, Busy
    <3>2. Follows(run[w].op, run[w].todo) /\ Shape(run[w], msgs, resps)
      BY <1>3, <3>1, BusyRun
    <3>3. Call(run[w]) = "EnqueueExpire" => run[w].op = "SendSurvey"
      BY <3>2 DEF Follows, Call
    <3>4. Call(run[w]) = "EnqueueSend" \/ run[w].op \in {"SendSurvey", "Expire"}
      BY <2>5, <3>3 DEF Sends, Expires
    <3>5. run[w].id \in DOMAIN resps
      BY <3>2, <3>4 DEF Shape, Surveys
    <3>6. run[w].id = 1
      BY <1>3, <3>5, StoreTypes DEF DeskOK
    <3> QED BY <3>1, <3>4, <3>6 DEF At, Idle, Call
  <2> QED BY <1>3, <2>2, <2>3, <2>4, <2>5 DEF Moving
<1> QED BY <1>1, <1>2, <1>3, DeskInvariant, PTL DEF Spec

-----------------------------------------------------------------------------
(* Alerts.                                                                 *)

\* A check has fired its alerts and not yet stored their flags.
Alerting(w) == run[w].op = "Check" /\ Call(run[w]) = "StoreTrack"

\* A check between its alerts and its store that is bound to spoil the
\* tracking: its copy is old, or another one is about to make it so.
AlertsDoomed == \E v \in Workers :
    Alerting(v) /\ ("track" \in run[v].behind \/ \E w \in Workers \ {v} : Alerting(w))

\* The flag of an alert is stored or about to be.
Said(l, k) == \/ l \in (IF k = "warning" THEN track.warned ELSE track.breached)
              \/ \E w \in Workers : Alerting(w) /\ l \in (IF k = "warning" THEN run[w].track.warned ELSE run[w].track.breached)

\* Until the tracking is spoiled, or bound to be: no alert was fired twice,
\* each one fired has its flag, and none was for a breach when it is met.
AlertsInv == "track" \notin spoiled => AlertsDoomed \/
    /\ \A l \in Legs, k \in Kinds : fired[<<l, k>>] <= 1 /\ (fired[<<l, k>>] > 0 => Said(l, k))
    /\ track.status = "met" => \A l \in Legs : fired[<<l, "breached">>] = 0

\* An idle worker has no alert to store.
LEMMA IdleNoAlert ==
    /\ \A w : run[w] = NoRun => ~Alerting(w)
    /\ \A w : run'[w] = NoRun => ~Alerting(w)'
<1>1. NoRun.op # "Check"
  BY NoneAssumption, NoRunType, OperationNames
<1> QED BY <1>1 DEF Alerting

\* Others neither fire nor lose an alert.
LEMMA BesideAlert ==
    ASSUME NEW v, Beside(run'[v], run[v])
    PROVE  /\ Alerting(v)' <=> Alerting(v)
           /\ run'[v].track = run[v].track /\ run[v].behind \subseteq run'[v].behind
BY DEF Beside, Kept, Alerting

\* A step that neither fires nor stores an alert.
LEMMA AlertsSame ==
    ASSUME AlertsInv, NEW w \in Workers,
           \A v \in Workers \ {w} : Beside(run'[v], run[v]),
           ~Alerting(w), ~Alerting(w)', track' = track, fired' = fired, spoiled \subseteq spoiled'
    PROVE  AlertsInv'
<1>1. \A v \in Workers : /\ Alerting(v)' <=> Alerting(v)
                         /\ Alerting(v) => /\ run'[v].track = run[v].track
                                           /\ run[v].behind \subseteq run'[v].behind
  BY BesideAlert
<1>2. AlertsDoomed => AlertsDoomed'
  BY <1>1 DEF AlertsDoomed
<1>3. \A l, k : Said(l, k) => Said(l, k)'
  BY <1>1 DEF Said
<1> QED BY <1>2, <1>3 DEF AlertsInv

\* A new alert is for a leg without its flag.
LEMMA AlertsFire ==
    ASSUME DeskOK, AlertsInv, NEW w \in Workers, Step(w), Fire(w)
    PROVE  AlertsInv'
<1>1. run[w] # NoRun /\ Call(run[w]) = "Fire" /\ run[w].op = "Check"
  BY FireRun
<1>2. ~Alerting(w)
  BY <1>1 DEF Alerting
<1>3. track' = track /\ spoiled' = spoiled
  BY DEF Fire, store
<1>4. CASE run'[w] = NoRun /\ fired' = fired
  BY <1>2, <1>3, <1>4, IdleNoAlert, OthersStay, AlertsSame
<1>5. CASE ~(run'[w] = NoRun /\ fired' = fired)
  <2> DEFINE t == run[w].track
             now == run[w].at
             alerts == (NewWarnings(t, now) \X {"warning"}) \cup (NewBreaches(t, now) \X {"breached"})
  <2>1. /\ run'[w].op = "Check" /\ Call(run'[w]) = "StoreTrack"
        /\ run'[w].track = Evaluated(t, now) /\ run'[w].behind = run[w].behind
        /\ fired' = [a \in Legs \X Kinds |->
                       IF a \in alerts /\ fired[a] < 2 THEN fired[a] + 1 ELSE fired[a]]
    BY <1>5, FireRun
  <2>2. Alerting(w)'
    BY <2>1 DEF Alerting
  <2>3. CASE "track" \in run[w].behind \/ \E v \in Workers \ {w} : Alerting(v)
    <3>1. AlertsDoomed'
      BY <2>1, <2>2, <2>3, OthersStay, BesideAlert DEF AlertsDoomed
    <3> QED BY <3>1 DEF AlertsInv
  <2>4. CASE "track" \notin run[w].behind /\ \A v \in Workers \ {w} : ~Alerting(v)
    <3>1. SUFFICES ASSUME "track" \notin spoiled
                   PROVE  AlertsInv'
      BY <1>3 DEF AlertsInv
    <3>2. ~AlertsDoomed
      BY <1>2, <2>4 DEF AlertsDoomed
    <3>3. t = track /\ t.status = "running"
      BY <1>1, <2>4, BusyRun DEF TrackFresh
    <3>4. track \in Tracking /\ fired \in [Legs \X Kinds -> 0..2]
      BY DEF DeskOK, StoreOK
    <3>5. ASSUME NEW l \in Legs, NEW k \in Kinds
          PROVE  fired'[<<l, k>>] <= 1 /\ (fired'[<<l, k>>] > 0 => Said(l, k)')
      <4> DEFINE a == <<l, k>>
                 flags == IF k = "warning" THEN t.warned ELSE t.breached
      <4>1. a \in Legs \X Kinds /\ fired[a] \in 0..2
        BY <3>4
      <4>2. fired[a] <= 1 /\ (fired[a] > 0 => l \in flags)
        <5>1. fired[a] <= 1 /\ (fired[a] > 0 => Said(l, k))
          BY <3>1, <3>2 DEF AlertsInv
        <5>2. \A v \in Workers : ~Alerting(v)
          BY <1>2, <2>4
        <5>3. Said(l, k) => l \in flags
          BY <3>3, <5>2 DEF Said
        <5> QED BY <5>1, <5>3
      <4>3. a \in alerts => l \notin flags
        BY DEF NewWarnings, NewBreaches, Kinds
      <4>4. l \in flags \/ a \in alerts => Said(l, k)'
        <5>1. /\ run'[w].track.warned = t.warned \cup NewBreaches(t, now) \cup NewWarnings(t, now)
              /\ run'[w].track.breached = t.breached \cup NewBreaches(t, now)
          BY <2>1, <3>3, <3>4 DEF Evaluated, Tracking
        <5>2. a \in alerts => \/ k = "warning" /\ l \in NewWarnings(t, now)
                              \/ k = "breached" /\ l \in NewBreaches(t, now)
          OBVIOUS
        <5> QED BY <2>2, <5>1, <5>2 DEF Said, Kinds
      <4>5. fired'[a] = IF a \in alerts /\ fired[a] < 2 THEN fired[a] + 1 ELSE fired[a]
        BY <2>1, <4>1
      <4> HIDE DEF a, flags, alerts, t, now
      <4>6. a \in alerts => fired[a] = 0
        BY <4>1, <4>2, <4>3
      <4>7. fired'[a] <= 1
        BY <4>1, <4>2, <4>5, <4>6
      <4>8. fired'[a] > 0 => Said(l, k)'
        BY <4>1, <4>2, <4>4, <4>5
      <4> QED BY <4>7, <4>8 DEF a
    <3>6. track'.status # "met"
      BY <1>3, <3>3
    <3> QED BY <3>5, <3>6 DEF AlertsInv
  <2> QED BY <2>3, <2>4
<1> QED BY <1>4, <1>5

\* A check that stores its flags stores what was fired; another store shows a
\* check in flight to be late.
LEMMA AlertsStoreTrack ==
    ASSUME DeskOK, AlertsInv, NEW w \in Workers, Step(w), StoreTrack(w)
    PROVE  AlertsInv'
<1>1. run[w] # NoRun /\ Call(run[w]) = "StoreTrack"
  BY AtCall DEF StoreTrack
<1>2. /\ track' = run[w].track /\ fired' = fired
      /\ spoiled' = IF run[w].behind \cap {"track"} # {} THEN spoiled \cup {"track"} ELSE spoiled
  BY DEF StoreTrack, Spoil
<1>3. \A v \in Workers \ {w} :
         /\ Beside(run'[v], run[v])
         /\ run[v].track # None => run'[v].behind = run[v].behind \cup {"track"}
  BY BesideStored DEF StoreTrack, Docs
<1>4. ~Alerting(w)'
  <2>1. run'[w] # NoRun => Call(run'[w]) = "FindResp"
    BY PlainRuns
  <2> QED BY <2>1, IdleNoAlert DEF Alerting
<1>5. SUFFICES ASSUME "track" \notin spoiled'
               PROVE  AlertsInv'
  BY DEF AlertsInv
<1>6. "track" \notin spoiled /\ "track" \notin run[w].behind
  BY <1>2, <1>5
<1>7. CASE \E v \in Workers \ {w} : Alerting(v)
  <2>1. PICK v \in Workers \ {w} : Alerting(v)
    BY <1>7
  <2>2. run[v].track # None
    <3>1. run[v] # NoRun
      BY <2>1, IdleNoAlert
    <3> QED BY <2>1, <3>1, BusyRun DEF Shape, Alerting
  <2>3. Alerting(v)' /\ "track" \in run'[v].behind
    BY <1>3, <2>1, <2>2, BesideAlert
  <2> QED BY <2>3 DEF AlertsInv, AlertsDoomed
<1>8. CASE \A v \in Workers \ {w} : ~Alerting(v)
  <2>1. ~AlertsDoomed
    BY <1>6, <1>8 DEF AlertsDoomed
  <2>2. /\ track.warned \subseteq run[w].track.warned
        /\ track.breached \subseteq run[w].track.breached
        /\ run[w].op = "Check" => run[w].track.status = "running"
        /\ run[w].track.status = "met" => track.status = "met" \/ run[w].track.breached = {}
    BY <1>1, <1>6, BusyRun DEF TrackFresh
  <2>3. \A l \in Legs, k \in Kinds : fired[<<l, k>>] <= 1 /\ (fired[<<l, k>>] > 0 => Said(l, k))
    BY <1>6, <2>1 DEF AlertsInv
  <2>4. track.status = "met" => \A l \in Legs : fired[<<l, "breached">>] = 0
    BY <1>6, <2>1 DEF AlertsInv
  <2>5. ASSUME NEW l, NEW k, Said(l, k)
        PROVE  l \in (IF k = "warning" THEN run[w].track.warned ELSE run[w].track.breached)
    BY <1>8, <2>2, <2>5 DEF Said
  <2>6. \A l, k : Said(l, k) => Said(l, k)'
    BY <1>2, <2>5 DEF Said
  <2>7. ASSUME track'.status = "met", NEW l \in Legs
        PROVE  fired[<<l, "breached">>] = 0
    <3>1. run[w].op # "Check"
      BY <1>2, <2>2, <2>7
    <3>2. CASE track.status = "met"
      BY <2>4, <3>2
    <3>3. CASE run[w].track.breached = {}
      <4>1. ~Said(l, "breached")
        BY <2>5, <3>3
      <4>2. "breached" \in Kinds
        BY DEF Kinds
      <4>3. fired[<<l, "breached">>] \in 0..2
        BY <4>2 DEF DeskOK, StoreOK
      <4>4. ~(fired[<<l, "breached">>] > 0)
        BY <2>3, <4>1, <4>2
      <4> QED BY <4>3, <4>4
    <3> QED BY <1>2, <2>2, <2>7, <3>2, <3>3
  <2> QED BY <1>2, <2>3, <2>6, <2>7 DEF AlertsInv
<1> QED BY <1>7, <1>8

\* A check that dies between its alerts and its store.
LEMMA AlertsFail ==
    ASSUME DeskOK, AlertsInv, NEW w \in Workers, Step(w), Fail(w)
    PROVE  AlertsInv'
<1>1. track' = track /\ fired' = fired /\ spoiled' = spoiled \cup Torn(w)
  BY DEF Fail
<1>2. ~Alerting(w)'
  BY LastRuns, IdleNoAlert
<1>3. CASE Alerting(w)
  <2>1. "track" \in Torn(w)
    BY <1>3 DEF Torn, Alerting, Call
  <2> QED BY <1>1, <2>1 DEF AlertsInv
<1>4. CASE ~Alerting(w)
  <2>1. spoiled \subseteq spoiled'
    BY <1>1
  <2> QED BY <1>1, <1>2, <1>4, <2>1, OthersStay, AlertsSame
<1> QED BY <1>3, <1>4

\* An ignored error: the flag of a check is lost and the tracking spoiled.
LEMMA AlertsIgnore ==
    ASSUME DeskOK, AlertsInv, NEW w \in Workers, Step(w), Ignore(w)
    PROVE  AlertsInv'
<1>1. track' = track /\ fired' = fired /\ spoiled' = spoiled \cup Torn(w)
  BY DEF Ignore, store
<1>2. ~Alerting(w)'
  BY IgnoreRun, IdleNoAlert DEF Alerting
<1>3. CASE Alerting(w)
  <2>1. "track" \in Torn(w)
    BY <1>3 DEF Torn, Alerting, Call
  <2> QED BY <1>1, <2>1 DEF AlertsInv
<1>4. CASE ~Alerting(w)
  <2>1. spoiled \subseteq spoiled'
    BY <1>1
  <2> QED BY <1>1, <1>2, <1>4, <2>1, OthersStay, AlertsSame
<1> QED BY <1>3, <1>4

\* The beginnings have no alert to store.
LEMMA NoAlertBegins ==
    ASSUME DeskOK, NEW w \in Workers, NEW o, NEW c, NEW i, NEW m, NEW t, NEW s, Begun(w, o, c, i, m, t, s)
    PROVE  ~Alerting(w) /\ ~Alerting(w)'
<1>1. run[w] = NoRun /\ o \in Operations /\ run'[w].op = o /\ Call(run'[w]) = Head(Plan[o])
  BY BegunRun
<1>2. o = "Check" => Head(Plan[o]) = "LoadConv"
  BY <1>1, PlanHeads
<1> QED BY <1>1, <1>2, IdleNoAlert DEF Alerting

\* The other calls do not touch the tracking.
LEMMA AlertsCalls ==
    ASSUME DeskOK, AlertsInv, NEW w \in Workers, Step(w),
           \/ LoadConv(w) \/ CreateMsg(w) \/ StoreConv(w) \/ FindMsg(w) \/ StoreMsg(w) \/ Refresh(w)
           \/ FindTrack(w) \/ FindResp(w) \/ CreateResp(w) \/ EnqueueSend(w) \/ StoreResp(w)
           \/ EnqueueExpire(w) \/ FindSurvey(w)
    PROVE  AlertsInv'
<1>1. track' = track /\ fired' = fired
  BY DEF LoadConv, CreateMsg, StoreConv, FindMsg, StoreMsg, Refresh, FindTrack, FindResp, CreateResp,
         EnqueueSend, StoreResp, EnqueueExpire, Enqueue, FindSurvey, store, history
<1>2. ~Alerting(w)
  <2>1. PICK d \in {"LoadConv", "CreateMsg", "StoreConv", "FindMsg", "StoreMsg", "Refresh", "FindTrack",
                    "FindResp", "CreateResp", "EnqueueSend", "StoreResp", "EnqueueExpire",
                    "FindSurvey"} : At(w, d)
    BY DEF LoadConv, CreateMsg, StoreConv, FindMsg, StoreMsg, Refresh, FindTrack, FindResp, CreateResp,
           EnqueueSend, StoreResp, EnqueueExpire, Enqueue, FindSurvey
  <2> QED BY <2>1, AtCall DEF Alerting
<1>3. ~Alerting(w)'
  <2>1. CASE LoadConv(w)
    BY <2>1, LoadConvRun DEF Alerting
  <2>2. CASE CreateMsg(w)
    BY <2>2, CreateMsgKeeps DEF Alerting, Creates
  <2>3. CASE FindMsg(w)
    BY <2>3, FindMsgRun, IdleNoAlert DEF Alerting
  <2>4. CASE Refresh(w)
    BY <2>4, RefreshRun, IdleNoAlert DEF Alerting
  <2>5. CASE FindTrack(w)
    BY <2>5, FindTrackRun, IdleNoAlert DEF Alerting, Closes
  <2>6. CASE StoreConv(w) \/ StoreMsg(w) \/ StoreResp(w) \/ FindResp(w)
    BY <2>6, PlainRuns, IdleNoAlert DEF Alerting
  <2>7. CASE CreateResp(w)
    BY <2>7, CreateRespRun, IdleNoAlert DEF Alerting
  <2>8. CASE EnqueueSend(w) \/ EnqueueExpire(w)
    BY <2>8, LastRuns, IdleNoAlert
  <2>9. CASE FindSurvey(w)
    BY <2>9, FindSurveyRun, IdleNoAlert DEF Alerting, Kept
  <2> QED BY <2>1, <2>2, <2>3, <2>4, <2>5, <2>6, <2>7, <2>8, <2>9
<1>4. spoiled \subseteq spoiled'
  BY Changes
<1> QED BY <1>1, <1>2, <1>3, <1>4, OthersStay, AlertsSame

\* Every step of a worker keeps the alerts and the tracking in agreement.
LEMMA AlertsStep ==
    ASSUME DeskOK, AlertsInv, NEW w \in Workers, Step(w)
    PROVE  AlertsInv'
<1>0. StoreOK
  BY DEF DeskOK
<1>1. ASSUME UNCHANGED <<track, fired, spoiled>>, ~Alerting(w), ~Alerting(w)'
      PROVE  AlertsInv'
  BY <1>1, OthersStay, AlertsSame
<1>2. CASE \/ Patch(w) \/ Tags(w) \/ MarkRead(w) \/ MarkUnread(w) \/ Reopen(w) \/ Close(w)
           \/ CloseInactive(w) \/ SendMessage(w) \/ AddInternalNote(w) \/ Inbound(w)
  BY <1>0, <1>1, <1>2, ConvBegins, NoAlertBegins, BeginsLeave
<1>3. CASE EditMessage(w) \/ DeleteMessage(w) \/ ApplyDeliveryReceipt(w) \/ RunCheck(w)
  BY <1>0, <1>1, <1>3, MsgBegins, NoAlertBegins, BeginsLeave
<1>4. CASE SendSurvey(w) \/ Expire(w) \/ SubmitByToken(w)
  <2>1. UNCHANGED <<track, fired, spoiled>>
    BY <1>4, BeginsLeave
  <2>2. CASE \E o, i, s : Begun(w, o, None, i, None, None, s)
    BY <1>1, <2>1, <2>2, NoAlertBegins
  <2>3. CASE run' = run /\ run[w] = NoRun
    BY <1>1, <2>1, <2>3, IdleNoAlert
  <2>4. CASE run' = run /\ run[w] # NoRun
    BY <1>4, <2>4 DEF SendSurvey, Expire, SubmitByToken, TakeTask, Begin, Idle
  <2> QED BY <1>0, <1>4, <2>2, <2>3, <2>4, SurveyBegins
<1>5. CASE \/ LoadConv(w) \/ CreateMsg(w) \/ StoreConv(w) \/ FindMsg(w) \/ StoreMsg(w) \/ Refresh(w)
           \/ FindTrack(w) \/ FindResp(w) \/ CreateResp(w) \/ EnqueueSend(w) \/ StoreResp(w)
           \/ EnqueueExpire(w) \/ FindSurvey(w)
  BY <1>5, AlertsCalls
<1>6. CASE Fire(w) \/ StoreTrack(w) \/ Fail(w) \/ Ignore(w)
  BY <1>6, AlertsFire, AlertsStoreTrack, AlertsFail, AlertsIgnore
<1> QED BY <1>2, <1>3, <1>4, <1>5, <1>6 DEF Step

\* Between checks, and unless the tracking was spoiled, no alert was fired twice,
\* and a conversation whose breach was announced is not finalised as met: a check
\* (sla_service.go) stores the flags of what it fired, and every hook that stores
\* the tracking in between makes its copy old.
THEOREM AlertsDoAgree == Spec => []AlertsAgree
<1>1. Init => AlertsInv
  BY DEF Init, AlertsInv, Started
<1>2. ASSUME DeskOK, AlertsInv, [Next]_vars
      PROVE  AlertsInv'
  <2>1. CASE UNCHANGED <<conv, msgs, track, resps, tasks, run, spoiled, fired, answered, unseen>>
    BY <1>2, <2>1 DEF AlertsInv, AlertsDoomed, Said, Alerting
  <2> QED BY <1>2, <2>1, NextChanges, AlertsStep
<1>3. ASSUME AlertsInv
      PROVE  AlertsAgree
  <2>1. SUFFICES ASSUME "track" \notin spoiled, \A w \in Workers : run[w].op # "Check"
                 PROVE  /\ \A a \in Legs \X Kinds : fired[a] <= 1
                        /\ track.status = "met" => \A l \in Legs : fired[<<l, "breached">>] = 0
    BY DEF AlertsAgree
  <2>2. ~AlertsDoomed
    BY <2>1 DEF AlertsDoomed, Alerting
  <2> QED BY <1>3, <2>1, <2>2 DEF AlertsInv
<1> QED BY <1>1, <1>2, <1>3, DeskInvariant, PTL DEF Spec

-----------------------------------------------------------------------------
(* The inbox row.                                                          *)

\* Message i is a shown one that the inbox row may show: the latest by its
\* timestamp or by its arrival.
Placed(i, ms) == i \in Shown(ms) /\ (i \in Latest(ms) \/ \A j \in Shown(ms) : j <= i)

\* The snapshot s is the one the inbox row should have.
Shows(s, ms) == \/ Shown(ms) = {} /\ s = NoSnapshot
                \/ \E i \in Shown(ms) : s = Snapshot(i, ms[i]) /\ Placed(i, ms)

\* A worker has stored a message and has yet to store the row that shows it.
Committed(w) == run[w].msg # None /\ \/ Call(run[w]) = "StoreConv"
                                     \/ Call(run[w]) = "Refresh" /\ run[w].conv.last.id = run[w].id

\* A worker decides what to show from a row that is no longer current.
RefreshesOld(w) == run[w].msg # None /\ Call(run[w]) = "Refresh" /\ "conv" \in run[w].behind

\* A worker has a copy that is out of date.
Outdated(w) == run[w].behind \cap {"conv", "msg", "timeline"} # {}

\* Some worker is bound to spoil the row.
RowDoomed ==
    \E v \in Workers :
       \/ RefreshesOld(v)
       \/ Committed(v) /\ (Outdated(v) \/ \E w \in Workers \ {v} : Committed(w))

\* Neither a stale store nor a failure has touched the row or a message.
Unspoiled == spoiled \cap {"conv", "msg"} = {}

\* The row is right when no worker is about to store one, and the one a worker
\* is about to store is right.
RowRight ==
    /\ (\A w \in Workers : ~Committed(w)) => Shows(conv.last, msgs)
    /\ \A w \in Workers : Committed(w) /\ Call(run[w]) = "StoreConv" => Shows(run[w].conv.last, msgs)
    /\ \A w \in Workers : Committed(w) /\ Call(run[w]) = "Refresh" /\ run[w].op = "Edit" =>
          Placed(run[w].id, msgs)

\* Until the row is spoiled, or bound to be, it is right.
SnapInv == Unspoiled => RowDoomed \/ RowRight

\* A set of numbers has a least one.
LEMMA LeastNatural ==
    ASSUME NEW S, S \subseteq Nat, S # {}
    PROVE  \E m \in S : \A n \in S : m <= n
<1>1. PICK m \in S : \A n \in S : <<n, m>> \notin OpToRel(<, Nat)
  BY NatLessThanWellFounded, WFMin
<1>2. \A n \in S : ~(n < m)
  BY <1>1 DEF OpToRel
<1> QED BY <1>2

\* When no message is the latest, none is shown.
LEMMA SomeLatest ==
    ASSUME NEW ms \in Seq(Messages), NEW now \in Nat, \A i \in DOMAIN ms : ms[i].at <= now,
           Latest(ms) = {}
    PROVE  Shown(ms) = {}
<1> DEFINE Ages == {now - ms[i].at : i \in Shown(ms)}
<1>0. \A i \in DOMAIN ms : ms[i] \in Messages
  OBVIOUS
<1>1. \A i \in DOMAIN ms : ms[i].at \in Nat
  BY <1>0 DEF Messages
<1>2. Shown(ms) \subseteq DOMAIN ms
  BY DEF Shown
<1>3. Ages \subseteq Nat
  BY <1>1, <1>2
<1>4. SUFFICES ASSUME Shown(ms) # {}
               PROVE  FALSE
  OBVIOUS
<1>5. PICK m \in Ages : \A n \in Ages : m <= n
  <2>1. PICK i : i \in Shown(ms)
    BY <1>4
  <2>2. now - ms[i].at \in Ages
    BY <2>1
  <2> HIDE DEF Ages
  <2> QED BY <1>3, <2>2, LeastNatural
<1>6. PICK i \in Shown(ms) : m = now - ms[i].at
  BY <1>5
<1>7. ASSUME NEW j \in Shown(ms)
      PROVE  ms[j].at <= ms[i].at
  <2>1. now - ms[i].at <= now - ms[j].at
    BY <1>5, <1>6
  <2> QED BY <1>1, <1>2, <2>1
<1>8. i \in Latest(ms)
  BY <1>7 DEF Latest
<1> QED BY <1>8

\* A worker without a message has no row to store.
LEMMA NotCommitted ==
    /\ \A w : run[w] = NoRun => ~Committed(w) /\ ~RefreshesOld(w)
    /\ \A w : run'[w] = NoRun => ~Committed(w)' /\ ~RefreshesOld(w)'
BY NoRunType DEF Committed, RefreshesOld

\* Others keep the row they are about to store.
LEMMA BesideRow ==
    ASSUME NEW v, Beside(run'[v], run[v])
    PROVE  /\ Committed(v)' <=> Committed(v)
           /\ RefreshesOld(v) => RefreshesOld(v)'
           /\ Outdated(v) => Outdated(v)'
           /\ Call(run'[v]) = Call(run[v]) /\ run'[v].op = run[v].op /\ run'[v].id = run[v].id
           /\ run'[v].conv = run[v].conv /\ run'[v].msg = run[v].msg
BY DEF Beside, Kept, Committed, RefreshesOld, Outdated

\* Who is doomed stays so, whatever the others do.
LEMMA DoomStays ==
    ASSUME NEW w \in Workers, \A v \in Workers \ {w} : Beside(run'[v], run[v]), RowDoomed,
           RefreshesOld(w) => RefreshesOld(w)',
           Committed(w) => Committed(w)',
           Committed(w) /\ Outdated(w) => Outdated(w)'
    PROVE  RowDoomed'
<1>1. \A v \in Workers : /\ Committed(v) => Committed(v)'
                         /\ RefreshesOld(v) => RefreshesOld(v)'
                         /\ Committed(v) /\ Outdated(v) => Outdated(v)'
  BY BesideRow
<1> QED BY <1>1 DEF RowDoomed

\* A step that leaves the row and the messages alone.
LEMMA SnapSame ==
    ASSUME SnapInv, NEW w \in Workers, \A v \in Workers \ {w} : Beside(run'[v], run[v]),
           ~Committed(w), ~Committed(w)', ~RefreshesOld(w),
           conv' = conv, msgs' = msgs, spoiled \subseteq spoiled'
    PROVE  SnapInv'
<1>1. \A v \in Workers \ {w} :
         /\ Committed(v)' <=> Committed(v)
         /\ Call(run'[v]) = Call(run[v]) /\ run'[v].op = run[v].op /\ run'[v].id = run[v].id
         /\ run'[v].conv = run[v].conv
  BY BesideRow
<1>2. RowDoomed => RowDoomed'
  BY DoomStays
<1>3. RowRight => RowRight'
  BY <1>1 DEF RowRight
<1>4. Unspoiled' => Unspoiled
  BY DEF Unspoiled
<1> QED BY <1>2, <1>3, <1>4 DEF SnapInv

\* A worker that is doomed stays so until it spoils the row.
LEMMA NoDoom ==
    ASSUME ~RowDoomed, NEW w \in Workers, Committed(w)
    PROVE  ~Outdated(w) /\ \A v \in Workers \ {w} : ~Committed(v)
BY DEF RowDoomed

\* The row a committed worker will store is there.
LEMMA CommittedConv ==
    ASSUME DeskOK, NEW w \in Workers, Committed(w)
    PROVE  run[w] # NoRun /\ run[w].conv # None /\ run[w].conv \in Row
<1>1. run[w] # NoRun
  BY NotCommitted
<1>2. run[w] \in Runs /\ Follows(run[w].op, run[w].todo) /\ Shape(run[w], msgs, resps)
  BY <1>1, BusyRun
<1>3. Call(run[w]) \in {"StoreConv", "Refresh"}
  BY DEF Committed
<1>4. run[w].op \in OnRow \cup OnMessage \cup Closes \cup {"Send", "Note", "Inbound", "SendSurvey"}
  BY <1>2, <1>3 DEF Follows, Call, Closes
<1>5. run[w].conv # None
  BY <1>2, <1>3, <1>4 DEF Shape
<1> QED BY <1>1, <1>2, <1>5 DEF Runs

\* A message is created, and the row that shows it is on its way.
LEMMA SnapCreateMsg ==
    ASSUME DeskOK, SnapInv, NEW w \in Workers, Step(w), CreateMsg(w)
    PROVE  SnapInv'
<1>1. run[w] # NoRun /\ Call(run[w]) = "CreateMsg"
  BY AtCall DEF CreateMsg
<1>2. PICK n \in Messages : /\ msgs' = Append(msgs, n) /\ ~n.deleted
                            /\ Creates(run'[w], run[w], msgs, n)
  BY CreateMsgKeeps
<1>3. ~Committed(w) /\ ~RefreshesOld(w)
  BY <1>1 DEF Committed, RefreshesOld
<1>4. /\ Call(run'[w]) = "StoreConv" /\ run'[w].msg = n
      /\ run'[w].conv.last = Snapshot(Len(msgs) + 1, n)
  BY <1>2 DEF Creates
<1>5. Committed(w)'
  BY <1>4, NoneAssumption DEF Committed
<1>6. \A v \in Workers \ {w} : Committed(v)' <=> Committed(v)
  BY OthersStay, BesideRow
<1>7. CASE \E v \in Workers \ {w} : Committed(v)
  BY <1>5, <1>6, <1>7 DEF SnapInv, RowDoomed
<1>8. CASE \A v \in Workers \ {w} : ~Committed(v)
  <2>1. msgs \in Seq(Messages)
    BY DEF DeskOK, StoreOK
  <2>2. DOMAIN msgs' = 1..(Len(msgs) + 1) /\ msgs'[Len(msgs) + 1] = n /\ Len(msgs) \in Nat
    BY <1>2, <2>1, AppendProperties
  <2>3. Len(msgs) + 1 \in Shown(msgs')
    BY <1>2, <2>2 DEF Shown
  <2>4. \A j \in Shown(msgs') : j <= Len(msgs) + 1
    BY <2>2 DEF Shown
  <2>5. Shows(run'[w].conv.last, msgs')
    BY <1>4, <2>2, <2>3, <2>4 DEF Shows, Placed
  <2>6. RowRight'
    BY <1>4, <1>5, <1>6, <1>8, <2>5 DEF RowRight
  <2> QED BY <2>6 DEF SnapInv
<1> QED BY <1>7, <1>8

\* The row is stored.
LEMMA SnapStoreConv ==
    ASSUME DeskOK, SnapInv, NEW w \in Workers, Step(w), StoreConv(w)
    PROVE  SnapInv'
<1>1. run[w] # NoRun /\ Call(run[w]) = "StoreConv"
  BY AtCall DEF StoreConv
<1>2. /\ conv' = run[w].conv /\ msgs' = msgs
      /\ spoiled' = IF Outdated(w) THEN spoiled \cup {"conv"} ELSE spoiled
  BY DEF StoreConv, Spoil, Outdated
<1>3. \A v \in Workers \ {w} :
         /\ Beside(run'[v], run[v])
         /\ run[v].conv # None => run'[v].behind = run[v].behind \cup {"conv"}
  BY BesideStored DEF StoreConv, Docs
<1>4. ~Committed(w)'
  <2>1. run'[w] # NoRun => Call(run'[w]) \in {"FindTrack", "LoadConv", "StoreResp"}
    BY PlainRuns
  <2> QED BY <2>1, NotCommitted DEF Committed
<1>5. SUFFICES ASSUME Unspoiled'
               PROVE  SnapInv'
  BY DEF SnapInv
<1>6. Unspoiled /\ ~Outdated(w)
  BY <1>2, <1>5 DEF Unspoiled
<1>7. CASE \E v \in Workers \ {w} : Committed(v)
  <2>1. PICK v \in Workers \ {w} : Committed(v)
    BY <1>7
  <2>2. "conv" \in run'[v].behind
    BY <1>3, <2>1, CommittedConv
  <2>3. Committed(v)' /\ Outdated(v)'
    BY <1>3, <2>1, <2>2, BesideRow DEF Outdated
  <2> QED BY <2>3 DEF SnapInv, RowDoomed
<1>8. CASE \A v \in Workers \ {w} : ~Committed(v)
  <2>1. CASE \E v \in Workers \ {w} : RefreshesOld(v)
    <3>1. RowDoomed'
      BY <1>3, <2>1, BesideRow DEF RowDoomed
    <3> QED BY <3>1 DEF SnapInv
  <2>2. CASE \A v \in Workers \ {w} : ~RefreshesOld(v)
    <3>1. ~RefreshesOld(w)
      BY <1>1 DEF RefreshesOld
    <3>2. ~RowDoomed
      BY <1>6, <1>8, <2>2, <3>1 DEF RowDoomed
    <3>3. RowRight
      BY <1>6, <3>2 DEF SnapInv
    <3>4. Shows(run[w].conv.last, msgs)
      <4>1. CASE run[w].msg # None
        <5>1. Committed(w)
          BY <1>1, <4>1 DEF Committed
        <5> QED BY <1>1, <3>3, <5>1 DEF RowRight
      <4>2. CASE run[w].msg = None
        <5>1. ~Committed(w)
          BY <4>2 DEF Committed
        <5>2. Shows(conv.last, msgs)
          BY <1>8, <3>3, <5>1 DEF RowRight
        <5>3. Follows(run[w].op, run[w].todo) /\ Shape(run[w], msgs, resps) /\ ConvFresh(run[w], conv)
          BY <1>1, BusyRun
        <5>4. run[w].op \in OnRow \cup OnMessage \cup Closes \cup {"Send", "Note", "Inbound", "SendSurvey"}
          BY <1>1, <5>3 DEF Follows, Call, Closes
        <5>5. run[w].conv # None
          BY <1>1, <5>3, <5>4 DEF Shape
        <5>6. run[w].conv.last = conv.last
          BY <1>6, <4>2, <5>3, <5>5 DEF ConvFresh, Outdated
        <5> QED BY <5>2, <5>6
      <4> QED BY <4>1, <4>2
    <3>5. \A v \in Workers : ~Committed(v)'
      BY <1>3, <1>4, <1>8, BesideRow
    <3>6. RowRight'
      BY <1>2, <3>4, <3>5 DEF RowRight
    <3> QED BY <3>6 DEF SnapInv
  <2> QED BY <2>1, <2>2
<1> QED BY <1>7, <1>8

\* What an edit, a deletion and a receipt leave of a message.
LEMMA ChangedFields ==
    ASSUME NEW o, NEW m \in Messages, NEW n, Changed(o, m, n)
    PROVE  /\ o \in {"Edit", "Delete", "Receipt"}
           /\ o # "Delete" => n.deleted = m.deleted
           /\ o = "Delete" => n.deleted
           /\ o # "Edit" => n.edited = m.edited
BY DEF Changed, Messages

\* A message keeps its place when others are deleted.
LEMMA PlacedKept ==
    ASSUME NEW ms, NEW ns, \A j \in DOMAIN ms : ns[j].at = ms[j].at,
           Shown(ns) \subseteq Shown(ms), NEW i \in Shown(ns), Placed(i, ms)
    PROVE  Placed(i, ns)
<1>1. CASE \A j \in Shown(ms) : j <= i
  BY <1>1 DEF Placed
<1>2. CASE i \in Latest(ms)
  <2>1. \A j \in Shown(ms) : j \in DOMAIN ms
    BY DEF Shown
  <2>2. \A j \in Shown(ns) : ns[j].at <= ns[i].at
    BY <1>2, <2>1 DEF Latest
  <2> QED BY <2>2 DEF Placed, Latest
<1> QED BY <1>1, <1>2 DEF Placed

\* So does the snapshot of a message that is left alone.
LEMMA ShowsKept ==
    ASSUME NEW ms, NEW ns, NEW s, \A j \in DOMAIN ms : ns[j].at = ms[j].at,
           Shown(ns) \subseteq Shown(ms), Shows(s, ms),
           \A i \in Shown(ms) : s = Snapshot(i, ms[i]) => i \in Shown(ns) /\ ns[i].edited = ms[i].edited
    PROVE  Shows(s, ns)
<1>1. CASE Shown(ms) = {} /\ s = NoSnapshot
  BY <1>1 DEF Shows
<1>2. CASE \E i \in Shown(ms) : s = Snapshot(i, ms[i]) /\ Placed(i, ms)
  <2>1. PICK i \in Shown(ms) : s = Snapshot(i, ms[i]) /\ Placed(i, ms)
    BY <1>2
  <2>2. i \in Shown(ns) /\ s = Snapshot(i, ns[i])
    BY <2>1 DEF Snapshot
  <2>3. Placed(i, ns)
    BY <2>1, <2>2, PlacedKept
  <2> QED BY <2>2, <2>3 DEF Shows
<1> QED BY <1>1, <1>2 DEF Shows

\* A message is stored: the row needs a refresh when it shows the message.
LEMMA SnapStoreMsg ==
    ASSUME DeskOK, SnapInv, NEW w \in Workers, Step(w), StoreMsg(w)
    PROVE  SnapInv'
<1> DEFINE i == run[w].id
           n == run[w].msg
<1>0. StoreOK
  BY DEF DeskOK
<1>1. run[w] # NoRun /\ Call(run[w]) = "StoreMsg"
  BY AtCall DEF StoreMsg
<1>2. /\ conv' = conv
      /\ spoiled' = IF run[w].behind \cap {"msg"} # {} THEN spoiled \cup {"msg"} ELSE spoiled
  BY DEF StoreMsg, Spoil
<1>3. /\ i \in DOMAIN msgs /\ n \in Messages /\ DOMAIN msgs' = DOMAIN msgs /\ msgs'[i] = n
      /\ \A j \in DOMAIN msgs \ {i} : msgs'[j] = msgs[j]
      /\ \A j \in DOMAIN msgs : msgs'[j].at = msgs[j].at
  BY StoreMsgKeeps
<1>4. \A v \in Workers \ {w} :
         /\ Beside(run'[v], run[v])
         /\ run[v].msg # None => run'[v].behind \cap {"msg", "timeline"} # {}
  BY BesideStoreMsg
<1>5. Shape(run[w], msgs, resps) /\ ConvFresh(run[w], conv) /\ MsgFresh(run[w], msgs)
  BY <1>1, BusyRun
<1>6. ~Committed(w) /\ ~RefreshesOld(w)
  BY <1>1 DEF Committed, RefreshesOld
<1>7. /\ run'[w] # NoRun =>
           /\ run'[w].msg = n /\ run'[w].conv = run[w].conv /\ run'[w].id = i
           /\ run'[w].op = run[w].op /\ run'[w].behind = run[w].behind
           /\ Call(run'[w]) = "Refresh" /\ run[w].op \in OnMessage
  BY PlainRuns DEF Kept
<1>8. SUFFICES ASSUME Unspoiled'
               PROVE  RowDoomed' \/ RowRight'
  BY DEF SnapInv
<1>9. Unspoiled /\ "msg" \notin run[w].behind
  BY <1>2, <1>8 DEF Unspoiled
<1>10. Changed(run[w].op, msgs[i], n)
  BY <1>1, <1>5, <1>9 DEF MsgFresh
<1>11. msgs[i] \in Messages /\ i # 0
  BY <1>0, <1>3, StoreTypes
<1>12. /\ run[w].op \in {"Edit", "Delete", "Receipt"}
       /\ run[w].op # "Delete" => n.deleted = msgs[i].deleted
       /\ run[w].op = "Delete" => n.deleted
       /\ run[w].op # "Edit" => n.edited = msgs[i].edited
  BY <1>10, <1>11, ChangedFields
<1>13. /\ Shown(msgs') \subseteq Shown(msgs) /\ Shown(msgs) \ {i} \subseteq Shown(msgs')
       /\ run[w].op # "Delete" => Shown(msgs') = Shown(msgs)
  <2>1. \A j \in DOMAIN msgs : msgs'[j].deleted => j = i \/ msgs[j].deleted
    BY <1>3
  <2>2. msgs[i].deleted => n.deleted
    <3>1. msgs[i].deleted \in BOOLEAN /\ n.deleted \in BOOLEAN
      BY <1>3, <1>11 DEF Messages
    <3> QED BY <1>12, <3>1
  <2>3. \A j \in DOMAIN msgs : msgs[j].deleted => msgs'[j].deleted
    BY <1>3, <2>2
  <2>4. run[w].op # "Delete" => \A j \in DOMAIN msgs : msgs'[j].deleted = msgs[j].deleted
    BY <1>3, <1>12
  <2>5. /\ Shown(msgs') = {j \in DOMAIN msgs : ~msgs'[j].deleted}
        /\ Shown(msgs) = {j \in DOMAIN msgs : ~msgs[j].deleted}
    BY <1>3 DEF Shown
  <2> QED BY <2>1, <2>3, <2>4, <2>5
<1>14. CASE \E v \in Workers \ {w} : Committed(v)
  <2>1. PICK v \in Workers \ {w} : Committed(v)
    BY <1>14
  <2>2. run'[v].behind \cap {"msg", "timeline"} # {}
    BY <1>4, <2>1 DEF Committed
  <2>3. Committed(v)' /\ Outdated(v)'
    BY <1>4, <2>1, <2>2, BesideRow DEF Outdated
  <2> QED BY <2>3 DEF RowDoomed
<1>15. CASE \E v \in Workers \ {w} : RefreshesOld(v)
  BY <1>4, <1>15, BesideRow DEF RowDoomed
<1>16. CASE \A v \in Workers \ {w} : ~Committed(v) /\ ~RefreshesOld(v)
  <2>1. ~RowDoomed
    BY <1>6, <1>16 DEF RowDoomed
  <2>2. Shows(conv.last, msgs)
    BY <1>6, <1>9, <1>16, <2>1 DEF SnapInv, RowRight
  <2>3. \A v \in Workers \ {w} : ~Committed(v)'
    BY <1>4, <1>16, BesideRow
  <2>4. ASSUME run[w].op = "Receipt" \/ conv.last.id # i
        PROVE  Shows(conv.last, msgs')
    <3>1. ASSUME NEW j \in Shown(msgs), conv.last = Snapshot(j, msgs[j])
          PROVE  j \in Shown(msgs') /\ msgs'[j].edited = msgs[j].edited
      <4>1. conv.last.id = j /\ j \in DOMAIN msgs
        BY <3>1 DEF Snapshot, Shown
      <4>2. CASE j # i
        BY <1>3, <1>13, <3>1, <4>1, <4>2
      <4>3. CASE j = i
        BY <1>3, <1>12, <1>13, <2>4, <3>1, <4>1, <4>3
      <4> QED BY <4>2, <4>3
    <3> QED BY <1>3, <1>13, <2>2, <3>1, ShowsKept
  <2>5. CASE run'[w] = NoRun
    <3>1. ~Committed(w)'
      BY <2>5, NotCommitted
    <3>2. run[w].op = "Receipt"
      <4>1. Follows(run[w].op, run[w].todo) /\ run'[w] = After(run[w])
        BY <1>1, BusyRun, BesideStoreMsg
      <4>2. Len(run[w].todo) = 1
        BY <1>1, <2>5, <4>1, PlainCall
      <4> QED BY <1>1, <4>1, <4>2 DEF Follows, Moves, Call
    <3>3. RowRight'
      BY <1>2, <2>3, <2>4, <3>1, <3>2 DEF RowRight
    <3> QED BY <3>3
  <2>6. CASE run'[w] # NoRun
    <3>1. run[w].conv # None
      BY <1>5, <1>7, <2>6 DEF Shape
    <3>2. n # None
      BY <1>3, NoneAssumption
    <3>3. CASE "conv" \in run[w].behind
      <4>1. RefreshesOld(w)'
        BY <1>7, <2>6, <3>2, <3>3 DEF RefreshesOld
      <4> QED BY <4>1 DEF RowDoomed
    <3>4. CASE "conv" \notin run[w].behind
      <4>1. run[w].conv.last = conv.last
        BY <1>1, <1>5, <3>1, <3>4 DEF ConvFresh
      <4>2. Committed(w)' <=> conv.last.id = i
        BY <1>7, <2>6, <3>2, <4>1 DEF Committed
      <4>3. CASE conv.last.id # i
        <5>1. RowRight'
          BY <1>2, <2>3, <2>4, <4>2, <4>3 DEF RowRight
        <5> QED BY <5>1
      <4>4. CASE conv.last.id = i
        <5>1. run[w].op = "Edit" => Placed(i, msgs')
          <6>1. i \in Shown(msgs) /\ Placed(i, msgs)
            <7>1. conv.last # NoSnapshot
              BY <1>11, <4>4 DEF NoSnapshot
            <7>2. PICK j \in Shown(msgs) : conv.last = Snapshot(j, msgs[j]) /\ Placed(j, msgs)
              BY <2>2, <7>1 DEF Shows
            <7>3. j = i
              BY <4>4, <7>2 DEF Snapshot
            <7> QED BY <7>2, <7>3
          <6> QED BY <1>3, <1>13, <6>1, PlacedKept
        <5>2. RowRight'
          BY <1>7, <2>3, <2>6, <4>2, <4>4, <5>1 DEF RowRight
        <5> QED BY <5>2
      <4> QED BY <4>3, <4>4
    <3> QED BY <3>3, <3>4
  <2> QED BY <2>5, <2>6
<1> QED BY <1>14, <1>15, <1>16

\* The refresh puts into the copy what the row has to show.
LEMMA SnapRefresh ==
    ASSUME DeskOK, SnapInv, NEW w \in Workers, Step(w), Refresh(w)
    PROVE  SnapInv'
<1>0. StoreOK
  BY DEF DeskOK
<1>1. /\ run[w] # NoRun /\ Call(run[w]) = "Refresh" /\ run[w].op \in OnMessage
      /\ run[w].msg # None /\ run[w].id \in DOMAIN msgs
      /\ spoiled' = IF run[w].behind \cap {"conv"} # {} THEN spoiled \cup {"conv"} ELSE spoiled
  BY RefreshRun DEF Spoil
<1>2. conv' = conv /\ msgs' = msgs
  BY DEF Refresh, store
<1>3. SUFFICES ASSUME Unspoiled'
               PROVE  SnapInv'
  BY DEF SnapInv
<1>4. Unspoiled /\ "conv" \notin run[w].behind /\ spoiled' = spoiled
  BY <1>1, <1>3 DEF Unspoiled
<1>5. ~RefreshesOld(w)
  BY <1>4 DEF RefreshesOld
<1>6. CASE run'[w] = NoRun /\ run[w].conv.last.id # run[w].id
  <2>1. ~Committed(w) /\ ~Committed(w)'
    BY <1>1, <1>6, NotCommitted DEF Committed
  <2> QED BY <1>2, <1>4, <1>5, <2>1, OthersStay, SnapSame
<1>7. CASE ~(run'[w] = NoRun /\ run[w].conv.last.id # run[w].id)
  <2>1. /\ run[w].conv.last.id = run[w].id
        /\ run'[w].op = run[w].op /\ Call(run'[w]) = "StoreConv"
        /\ run'[w].msg = run[w].msg /\ run'[w].behind = run[w].behind
        /\ \/ run[w].op = "Edit" /\ run'[w].conv.last = Snapshot(run[w].id, run[w].msg)
           \/ run[w].op = "Delete" /\ Latest(msgs) = {} /\ run'[w].conv.last = NoSnapshot
           \/ /\ run[w].op = "Delete"
              /\ \E i \in Latest(msgs) : run'[w].conv.last = Snapshot(i, msgs[i])
    BY <1>7, RefreshRun
  <2>2. Committed(w) /\ Committed(w)'
    BY <1>1, <2>1 DEF Committed
  <2>3. Outdated(w) => Outdated(w)'
    BY <2>1 DEF Outdated
  <2>4. CASE RowDoomed
    <3>1. RowDoomed'
      BY <1>5, <2>2, <2>3, <2>4, OthersStay, DoomStays
    <3> QED BY <3>1 DEF SnapInv
  <2>5. CASE ~RowDoomed
    <3>1. ~Outdated(w) /\ \A v \in Workers \ {w} : ~Committed(v)
      BY <2>2, <2>5, NoDoom
    <3>2. RowRight
      BY <1>4, <2>5 DEF SnapInv
    <3>3. Shows(run'[w].conv.last, msgs)
      <4>1. CASE run[w].op = "Edit"
        <5>1. Placed(run[w].id, msgs)
          BY <1>1, <2>2, <3>2, <4>1 DEF RowRight
        <5>2. msgs[run[w].id] = run[w].msg
          BY <1>1, <3>1, <4>1, BusyRun DEF MsgFresh, Outdated
        <5>3. run'[w].conv.last = Snapshot(run[w].id, run[w].msg)
          BY <2>1, <4>1
        <5>4. run[w].id \in Shown(msgs)
          BY <5>1 DEF Placed
        <5> QED BY <5>1, <5>2, <5>3, <5>4 DEF Shows
      <4>2. CASE Latest(msgs) = {} /\ run'[w].conv.last = NoSnapshot
        <5>1. Shown(msgs) = {}
          BY <1>0, <4>2, SomeLatest DEF StoreOK
        <5> QED BY <4>2, <5>1 DEF Shows
      <4>3. CASE \E i \in Latest(msgs) : run'[w].conv.last = Snapshot(i, msgs[i])
        <5>1. \A i \in Latest(msgs) : i \in Shown(msgs) /\ Placed(i, msgs)
          BY DEF Latest, Placed
        <5> QED BY <4>3, <5>1 DEF Shows
      <4> QED BY <2>1, <4>1, <4>2, <4>3
    <3>4. \A v \in Workers \ {w} : ~Committed(v)'
      BY <3>1, OthersStay, BesideRow
    <3>5. RowRight'
      BY <1>2, <2>1, <2>2, <3>3, <3>4 DEF RowRight
    <3> QED BY <3>5 DEF SnapInv
  <2> QED BY <2>4, <2>5
<1> QED BY <1>6, <1>7

\* A worker that dies with a message its row does not show.
LEMMA SnapFail ==
    ASSUME DeskOK, SnapInv, NEW w \in Workers, Step(w), Fail(w)
    PROVE  SnapInv'
<1>1. conv' = conv /\ msgs' = msgs /\ spoiled' = spoiled \cup Torn(w)
  BY DEF Fail
<1>2. ~Committed(w)'
  BY LastRuns, NotCommitted
<1>3. CASE Call(run[w]) \in {"StoreConv", "Refresh"} /\ run[w].msg # None
  <2>1. "conv" \in Torn(w)
    BY <1>3 DEF Torn, Call
  <2> QED BY <1>1, <2>1 DEF SnapInv, Unspoiled
<1>4. CASE ~(Call(run[w]) \in {"StoreConv", "Refresh"} /\ run[w].msg # None)
  <2>1. ~Committed(w) /\ ~RefreshesOld(w)
    BY <1>4 DEF Committed, RefreshesOld
  <2>2. spoiled \subseteq spoiled'
    BY <1>1
  <2> QED BY <1>1, <1>2, <2>1, <2>2, OthersStay, SnapSame
<1> QED BY <1>3, <1>4

\* An ignored error is none of a row or a message.
LEMMA SnapIgnore ==
    ASSUME DeskOK, SnapInv, NEW w \in Workers, Step(w), Ignore(w)
    PROVE  SnapInv'
<1>1. conv' = conv /\ msgs' = msgs /\ spoiled' = spoiled \cup Torn(w)
  BY DEF Ignore, store
<1>2. ~Committed(w) /\ ~RefreshesOld(w) /\ ~Committed(w)'
  BY IgnoreRun, NotCommitted DEF Committed, RefreshesOld
<1>3. spoiled \subseteq spoiled'
  BY <1>1
<1> QED BY <1>1, <1>2, <1>3, OthersStay, SnapSame

\* The beginnings have no row to store.
LEMMA NoRowBegins ==
    ASSUME DeskOK, NEW w \in Workers, NEW o, NEW c, NEW i, NEW m, NEW t, NEW s, Begun(w, o, c, i, m, t, s)
    PROVE  ~Committed(w) /\ ~Committed(w)' /\ ~RefreshesOld(w)
<1>1. /\ run[w] = NoRun /\ o \in Operations /\ run'[w].op = o /\ run'[w].msg = m
      /\ Call(run'[w]) = Head(Plan[o])
  BY BegunRun
<1>2. m # None => o = "Receipt"
  BY DEF Begun, Starts
<1>3. o = "Receipt" => Head(Plan[o]) = "StoreMsg"
  BY <1>1, PlanHeads
<1> QED BY <1>1, <1>2, <1>3, NotCommitted DEF Committed

\* The other calls touch neither the row nor a message.
LEMMA SnapCalls ==
    ASSUME DeskOK, SnapInv, NEW w \in Workers, Step(w),
           \/ LoadConv(w) \/ FindMsg(w) \/ FindTrack(w) \/ Fire(w) \/ StoreTrack(w) \/ FindResp(w)
           \/ CreateResp(w) \/ EnqueueSend(w) \/ StoreResp(w) \/ EnqueueExpire(w) \/ FindSurvey(w)
    PROVE  SnapInv'
<1>1. conv' = conv /\ msgs' = msgs
  BY DEF LoadConv, FindMsg, FindTrack, Fire, StoreTrack, FindResp, CreateResp, EnqueueSend, StoreResp,
         EnqueueExpire, Enqueue, FindSurvey, store
<1>2. ~Committed(w) /\ ~RefreshesOld(w)
  <2>1. PICK d \in {"LoadConv", "FindMsg", "FindTrack", "Fire", "StoreTrack", "FindResp", "CreateResp",
                    "EnqueueSend", "StoreResp", "EnqueueExpire", "FindSurvey"} : At(w, d)
    BY DEF LoadConv, FindMsg, FindTrack, Fire, StoreTrack, FindResp, CreateResp, EnqueueSend,
           StoreResp, EnqueueExpire, Enqueue, FindSurvey
  <2> QED BY <2>1, AtCall DEF Committed, RefreshesOld
<1>3. ~Committed(w)'
  <2>1. CASE LoadConv(w)
    BY <2>1, LoadConvRun DEF Committed
  <2>2. CASE FindMsg(w)
    BY <2>2, FindMsgRun, NotCommitted DEF Committed
  <2>3. CASE FindTrack(w)
    BY <2>3, FindTrackRun, NotCommitted DEF Committed
  <2>4. CASE Fire(w)
    BY <2>4, FireRun, NotCommitted DEF Committed
  <2>5. CASE StoreTrack(w) \/ StoreResp(w) \/ FindResp(w)
    BY <2>5, PlainRuns, NotCommitted DEF Committed
  <2>6. CASE CreateResp(w)
    BY <2>6, CreateRespRun, NotCommitted DEF Committed
  <2>7. CASE EnqueueSend(w) \/ EnqueueExpire(w)
    BY <2>7, LastRuns, NotCommitted
  <2>8. CASE FindSurvey(w)
    BY <2>8, FindSurveyRun, NotCommitted DEF Committed, Kept
  <2> QED BY <2>1, <2>2, <2>3, <2>4, <2>5, <2>6, <2>7, <2>8
<1>4. spoiled \subseteq spoiled'
  BY Changes
<1> QED BY <1>1, <1>2, <1>3, <1>4, OthersStay, SnapSame

\* Every step of a worker keeps the row right, or bound to be spoiled.
LEMMA SnapStep ==
    ASSUME DeskOK, SnapInv, NEW w \in Workers, Step(w)
    PROVE  SnapInv'
<1>0. StoreOK
  BY DEF DeskOK
<1>1. ASSUME UNCHANGED <<conv, msgs, spoiled>>, ~Committed(w), ~Committed(w)', ~RefreshesOld(w)
      PROVE  SnapInv'
  BY <1>1, OthersStay, SnapSame
<1>2. CASE \/ Patch(w) \/ Tags(w) \/ MarkRead(w) \/ MarkUnread(w) \/ Reopen(w) \/ Close(w)
           \/ CloseInactive(w) \/ SendMessage(w) \/ AddInternalNote(w) \/ Inbound(w)
  BY <1>0, <1>1, <1>2, ConvBegins, NoRowBegins, BeginsLeave
<1>3. CASE EditMessage(w) \/ DeleteMessage(w) \/ ApplyDeliveryReceipt(w) \/ RunCheck(w)
  BY <1>0, <1>1, <1>3, MsgBegins, NoRowBegins, BeginsLeave
<1>4. CASE SendSurvey(w) \/ Expire(w) \/ SubmitByToken(w)
  <2>1. UNCHANGED <<conv, msgs, spoiled>>
    BY <1>4, BeginsLeave
  <2>2. CASE \E o, i, s : Begun(w, o, None, i, None, None, s)
    BY <1>1, <2>1, <2>2, NoRowBegins
  <2>3. CASE run' = run /\ run[w] = NoRun
    BY <1>1, <2>1, <2>3, NotCommitted
  <2>4. CASE run' = run /\ run[w] # NoRun
    BY <1>4, <2>4 DEF SendSurvey, Expire, SubmitByToken, TakeTask, Begin, Idle
  <2> QED BY <1>0, <1>4, <2>2, <2>3, <2>4, SurveyBegins
<1>5. CASE \/ LoadConv(w) \/ FindMsg(w) \/ FindTrack(w) \/ Fire(w) \/ StoreTrack(w) \/ FindResp(w)
           \/ CreateResp(w) \/ EnqueueSend(w) \/ StoreResp(w) \/ EnqueueExpire(w) \/ FindSurvey(w)
  BY <1>5, SnapCalls
<1>6. CASE CreateMsg(w) \/ StoreConv(w) \/ StoreMsg(w) \/ Refresh(w) \/ Fail(w) \/ Ignore(w)
  BY <1>6, SnapCreateMsg, SnapStoreConv, SnapStoreMsg, SnapRefresh, SnapFail, SnapIgnore
<1> QED BY <1>2, <1>3, <1>4, <1>5, <1>6 DEF Step

\* When nobody is at it and neither it nor a message was spoiled, the inbox row
\* shows the latest message that is left, by its timestamp or by its arrival,
\* with its text, whatever was sent, edited and deleted (LastMessage,
\* conversation_service.go).
THEOREM SnapshotIsCurrent == Spec => []SnapshotCurrent
<1>1. Init => SnapInv
  <2>1. SUFFICES ASSUME Init
                 PROVE  SnapInv
    OBVIOUS
  <2>2. conv.last = NoSnapshot /\ msgs = <<>> /\ \A w \in Workers : run[w] = NoRun
    BY <2>1 DEF Init
  <2>3. Shown(msgs) = {}
    BY <2>2 DEF Shown
  <2>4. \A w \in Workers : ~Committed(w)
    BY <2>2, NotCommitted
  <2> QED BY <2>2, <2>3, <2>4 DEF SnapInv, RowRight, Shows
<1>2. ASSUME DeskOK, SnapInv, [Next]_vars
      PROVE  SnapInv'
  <2>1. CASE UNCHANGED <<conv, msgs, track, resps, tasks, run, spoiled, fired, answered, unseen>>
    BY <1>2, <2>1 DEF SnapInv, Unspoiled, RowDoomed, RowRight, RefreshesOld, Outdated, Committed
  <2> QED BY <1>2, <2>1, NextChanges, SnapStep
<1>3. ASSUME SnapInv
      PROVE  SnapshotCurrent
  <2>1. SUFFICES ASSUME Quiet, Unspoiled
                 PROVE  \/ Shown(msgs) = {} /\ conv.last = NoSnapshot
                        \/ \E i \in Shown(msgs) :
                              /\ conv.last = Snapshot(i, msgs[i])
                              /\ i \in Latest(msgs) \/ \A j \in Shown(msgs) : j <= i
    BY DEF SnapshotCurrent, Unspoiled
  <2>2. \A w \in Workers : ~Committed(w) /\ ~RefreshesOld(w)
    BY <2>1, NotCommitted DEF Quiet, Idle
  <2>3. Shows(conv.last, msgs)
    BY <1>3, <2>1, <2>2 DEF SnapInv, RowDoomed, RowRight
  <2> QED BY <2>3 DEF Shows, Placed
<1> QED BY <1>1, <1>2, <1>3, DeskInvariant, PTL DEF Spec
=============================================================================
