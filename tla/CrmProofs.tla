----------------------------- MODULE CrmProofs ------------------------------
(***************************************************************************)
(* Theorems about the documents of Crm under Automation, for any users,      *)
(* workers and bounds: deals are sound, and cards stay in columns of their   *)
(* pipeline; and the type invariant of the two together.                     *)
(***************************************************************************)
EXTENDS AutomationProofs, SequenceTheorems, WellFoundedInduction

-----------------------------------------------------------------------------
(* The documents.                                                          *)

Sound(d) ==
    /\ d.closed <=> d.status # "open"
    /\ d.items # <<>> => d.value = Sum(d.items)

SoundCard == {d \in Deal : Sound(d)}

\* The calls a request on a deal, and one on a pipeline, has yet to make.
DealCalls == {<<"Insert">>, <<"Insert", "Link", "StoreDeal">>, <<"Link", "StoreDeal">>,
              <<"StoreDeal">>, <<"Enter", "StoreDeal">>, <<"Enter", "StoreDeal", "NextDeal">>,
              <<"StoreDeal", "NextDeal">>, <<"NextDeal">>}
PipeCalls == {<<"InsertPipe">>, <<"ClearDefault", "StorePipe">>, <<"StorePipe">>,
              <<"StageHasDeals", "StorePipe">>}
Inserts == {<<"Insert">>, <<"Insert", "Link", "StoreDeal">>}

\* The collections: a deal names a pipeline that was made.
Documents(ds, ps) ==
    /\ ds \in Seq(SoundCard \cup {Gone})
    /\ ps \in Seq(Pipe \cup {Gone})
    /\ \A i \in DOMAIN ds : ds[i] # Gone => ds[i].pipe \in DOMAIN ps

\* Deal i was made, and is in pipeline p unless it was deleted.
OnFile(ds, i, p) == i \in DOMAIN ds /\ (ds[i] # Gone => ds[i].pipe = p)

\* A request holds sound copies of documents that were made.
GoodRequest(r, ds, ps) ==
    /\ r \in [calls : DealCalls \cup PipeCalls, d : {r.d}, deal : {r.deal}, p : {r.p},
              pipe : {r.pipe}, arg : {r.arg}, behind : BOOLEAN]
    /\ r.calls \in DealCalls =>
          /\ r.deal \in SoundCard /\ r.deal.pipe = r.p /\ r.p \in DOMAIN ps
          /\ r.calls \notin Inserts => OnFile(ds, r.d, r.p)
    /\ r.calls \in PipeCalls =>
          /\ r.pipe \in Pipe
          /\ r.calls # <<"InsertPipe">> => r.p \in DOMAIN ps

\* The copies an evaluation has yet to move are of deals of its request's
\* pipeline.
GoodCopies(e, r, ds) ==
    r # Gone =>
        /\ e.at = "moving"
        /\ \A i \in DOMAIN e.deals : e.deals[i] # Gone =>
              e.deals[i] \in SoundCard /\ e.deals[i].pipe = r.p /\ OnFile(ds, i, r.p)

Filed ==
    /\ Documents(deals, pipes)
    /\ stageIds \in Nat
    /\ req = [u \in Users |-> req[u]]
    /\ \A u \in Users : req[u] # Gone => GoodRequest(req[u], deals, pipes)
    /\ \A w \in Workers : GoodCopies(eval[w], req[w], deals)

-----------------------------------------------------------------------------
(* What the operators on documents preserve.                               *)

\* A set of numbers that is not empty has a least one.
LEMMA LeastNatural ==
    ASSUME NEW S, S \subseteq Nat, S # {}
    PROVE  \E m \in S : \A n \in S : m <= n
<1>1. PICK m \in S : \A n \in S : <<n, m>> \notin OpToRel(<, Nat)
  BY NatLessThanWellFounded, WFMin
<1>2. \A n \in S : ~(n < m)
  BY <1>1 DEF OpToRel
<1> QED BY <1>2

\* The greatest of a set of positions is one of them.
LEMMA MaxSteps ==
    ASSUME NEW n \in Nat, NEW t \in SUBSET (1..n), t # {}
    PROVE  Max(t) \in t /\ \A y \in t : y <= Max(t)
<1> DEFINE S == {n - y : y \in t}
<1>1. S \subseteq Nat /\ S # {}
  <2>1. \A y \in t : n - y \in Nat
    OBVIOUS
  <2>2. PICK y : y \in t
    OBVIOUS
  <2>3. n - y \in S
    BY <2>2
  <2> QED BY <2>1, <2>3
<1>2. PICK m \in S : \A k \in S : m <= k
  BY <1>1, LeastNatural
<1>3. PICK x \in t : m = n - x
  BY <1>2
<1>4. ASSUME NEW y \in t PROVE x >= y
  <2>1. n - x <= n - y
    BY <1>2, <1>3
  <2> QED BY <2>1
<1>5. Max(t) \in t /\ \A y \in t : Max(t) >= y
  BY <1>4 DEF Max
<1>6. \A y \in t : y \in Nat
  OBVIOUS
<1> QED BY <1>5, <1>6

\* f is the recursion that the sum of the first n lines unfolds to: the last
\* position of the set is taken out and its line added.
Adds(s, n, f) ==
    f = [t \in SUBSET (1..n) |-> IF t = {} THEN 0 ELSE f[t \ {Max(t)}] + s[Max(t)]]

\* There is such a function, and whichever it is, it gives numbers.
Summed(s, n) == (\E f : Adds(s, n, f)) /\ \A f : Adds(s, n, f) => f \in [SUBSET (1..n) -> Nat]

\* A function for n - 1 lines extends to one for n, and one for n restricts to
\* one for n - 1.
LEMMA SumStep ==
    ASSUME NEW s, NEW n \in Nat \ {0}, s[n] \in Nat, Summed(s, n - 1) PROVE Summed(s, n)
<1> DEFINE D == SUBSET (1..n) E == SUBSET (1..(n - 1))
<1>1. /\ \A t \in E : t \in D /\ n \notin t
      /\ \A t \in D : (n \notin t => t \in E) /\ t \ {n} \in E
  OBVIOUS
<1>2. ASSUME NEW t \in D, n \in t PROVE Max(t) = n
  <2>1. Max(t) \in t /\ n <= Max(t)
    BY <1>2, MaxSteps
  <2>2. Max(t) \in 1..n
    BY <2>1
  <2> QED BY <2>1, <2>2
<1>3. ASSUME NEW t \in E, t # {} PROVE t \ {Max(t)} \in E
  OBVIOUS
<1>4. \E f : Adds(s, n, f)
  <2>1. PICK g : Adds(s, n - 1, g)
    BY DEF Summed
  <2>2. \A t \in E : g[t] = IF t = {} THEN 0 ELSE g[t \ {Max(t)}] + s[Max(t)]
    BY <2>1 DEF Adds
  <2> DEFINE f == [t \in D |-> IF n \in t THEN g[t \ {n}] + s[n] ELSE g[t]]
  <2>3. \A t \in E : f[t] = g[t]
    BY <1>1
  <2>4. ASSUME NEW t \in D PROVE f[t] = IF t = {} THEN 0 ELSE f[t \ {Max(t)}] + s[Max(t)]
    <3>1. CASE n \in t
      <4>1. t # {} /\ Max(t) = n /\ t \ {n} \in E
        BY <1>1, <1>2, <3>1
      <4>2. f[t] = g[t \ {n}] + s[n] /\ f[t \ {n}] = g[t \ {n}]
        BY <2>3, <3>1, <4>1
      <4> HIDE DEF f
      <4> QED BY <4>1, <4>2
    <3>2. CASE n \notin t
      <4>1. t \in E
        BY <1>1, <3>2
      <4>2. f[t] = g[t]
        BY <2>3, <4>1
      <4>3. t # {} => f[t \ {Max(t)}] = g[t \ {Max(t)}]
        BY <1>3, <2>3, <4>1
      <4> HIDE DEF f
      <4> QED BY <2>2, <4>1, <4>2, <4>3
    <3> QED BY <3>1, <3>2
  <2>5. f = [t \in D |-> f[t]]
    OBVIOUS
  <2> HIDE DEF f
  <2>6. f = [t \in D |-> IF t = {} THEN 0 ELSE f[t \ {Max(t)}] + s[Max(t)]]
    BY <2>4, <2>5
  <2> QED BY <2>6 DEF Adds
<1>5. ASSUME NEW f, Adds(s, n, f) PROVE f \in [D -> Nat]
  <2>1. /\ f = [t \in D |-> f[t]]
        /\ \A t \in D : f[t] = IF t = {} THEN 0 ELSE f[t \ {Max(t)}] + s[Max(t)]
    BY <1>5 DEF Adds
  <2> DEFINE g == [t \in E |-> f[t]]
  <2>2. \A t \in E : g[t] = f[t]
    OBVIOUS
  <2>3. ASSUME NEW t \in E PROVE g[t] = IF t = {} THEN 0 ELSE g[t \ {Max(t)}] + s[Max(t)]
    <3>1. t \in D /\ g[t] = f[t] /\ (t # {} => g[t \ {Max(t)}] = f[t \ {Max(t)}])
      BY <1>1, <1>3, <2>2
    <3> HIDE DEF g
    <3> QED BY <2>1, <3>1
  <2>4. g = [t \in E |-> g[t]]
    OBVIOUS
  <2> HIDE DEF g
  <2>5. g = [t \in E |-> IF t = {} THEN 0 ELSE g[t \ {Max(t)}] + s[Max(t)]]
    BY <2>3, <2>4
  <2>6. \A t \in E : g[t] \in Nat
    BY <2>5 DEF Adds, Summed
  <2>7. ASSUME NEW t \in D PROVE f[t] \in Nat
    <3>1. CASE n \in t
      <4>1. t # {} /\ Max(t) = n /\ t \ {n} \in E
        BY <1>1, <1>2, <3>1
      <4>2. f[t] = f[t \ {n}] + s[n]
        BY <2>1, <4>1
      <4>3. f[t \ {n}] \in Nat
        BY <2>2, <2>6, <4>1
      <4> QED BY <4>2, <4>3
    <3>2. CASE n \notin t
      BY <1>1, <2>2, <2>6, <3>2
    <3> QED BY <3>1, <3>2
  <2> QED BY <2>1, <2>7
<1> QED BY <1>4, <1>5 DEF Summed

\* RecalcValue gives a number whatever the lines: the first number of lines for
\* which it did not would contradict SumStep.
LEMMA SumIsNumber == ASSUME NEW s \in Seq(Nat) PROVE Sum(s) \in Nat
<1>0. Len(s) \in Nat /\ DOMAIN s = 1..Len(s) /\ \A i \in 1..Len(s) : s[i] \in Nat
  BY LenProperties, ElementOfSeq
<1> DEFINE Bad == {n \in 0..Len(s) : ~Summed(s, n)}
<1>1. Summed(s, 0)
  <2>1. SUBSET (1..0) = {{}}
    OBVIOUS
  <2> DEFINE z == [t \in {{}} |-> 0]
  <2>2. \A f : Adds(s, 0, f) <=> f = z
    BY <2>1 DEF Adds
  <2>3. z \in [{{}} -> Nat]
    OBVIOUS
  <2> HIDE DEF z
  <2> QED BY <2>1, <2>2, <2>3 DEF Summed
<1>2. CASE Bad = {}
  <2>1. Summed(s, Len(s))
    BY <1>0, <1>2
  <2> DEFINE f == CHOOSE f : Adds(s, Len(s), f)
  <2>2. Adds(s, Len(s), f)
    BY <2>1 DEF Summed
  <2>3. Sum(s) = f[DOMAIN s]
    BY <1>0 DEF Sum, FoldLeft, MapThenFoldSet, Adds
  <2> HIDE DEF f
  <2>4. f \in [SUBSET (1..Len(s)) -> Nat]
    BY <2>1, <2>2 DEF Summed
  <2> QED BY <1>0, <2>3, <2>4
<1>3. CASE Bad # {}
  <2>1. Bad \subseteq Nat
    BY <1>0
  <2>2. PICK n \in Bad : \A k \in Bad : n <= k
    BY <1>3, <2>1, LeastNatural
  <2>3. n \in 0..Len(s) /\ ~Summed(s, n)
    BY <2>2
  <2>4. n # 0
    BY <1>1, <2>3
  <2>5. n - 1 \in 0..Len(s) /\ n \in Nat \ {0} /\ n \in 1..Len(s) /\ ~(n <= n - 1)
    BY <1>0, <2>3, <2>4
  <2>6. n - 1 \notin Bad
    BY <2>2, <2>5
  <2>7. Summed(s, n - 1)
    BY <2>5, <2>6
  <2> QED BY <1>0, <2>3, <2>5, <2>7, SumStep
<1> QED BY <1>2, <1>3

LEMMA RemoveAtSteps ==
    ASSUME NEW S, NEW s \in Seq(S), NEW i \in DOMAIN s
    PROVE  /\ RemoveAt(s, i) \in Seq(S)
           /\ \A j \in DOMAIN s \ {i} : \E k \in DOMAIN RemoveAt(s, i) : RemoveAt(s, i)[k] = s[j]
<1> DEFINE a == SubSeq(s, 1, i - 1) b == SubSeq(s, i + 1, Len(s))
<1>1. Len(s) \in Nat /\ DOMAIN s = 1..Len(s) /\ i \in 1..Len(s) /\ \A j \in 1..Len(s) : s[j] \in S
  BY LenProperties, ElementOfSeq
<1>2. /\ a \in Seq(S) /\ Len(a) = i - 1
      /\ \A j \in 1..(i - 1) : a[j] = s[j]
  <2>1. \A j \in 1..(i - 1) : s[j] \in S
    BY <1>1
  <2>2. /\ a \in Seq(S) /\ Len(a) = IF 1 <= i - 1 THEN (i - 1) - 1 + 1 ELSE 0
        /\ \A j \in 1..((i - 1) - 1 + 1) : a[j] = s[1 + j - 1]
    BY <1>1, <2>1, SubSeqProperties
  <2> QED BY <1>1, <2>2
<1>3. /\ b \in Seq(S) /\ Len(b) = Len(s) - i
      /\ \A j \in 1..(Len(s) - i) : b[j] = s[i + j]
  <2>1. \A j \in (i + 1)..Len(s) : s[j] \in S
    BY <1>1
  <2>2. /\ b \in Seq(S) /\ Len(b) = IF i + 1 <= Len(s) THEN Len(s) - (i + 1) + 1 ELSE 0
        /\ \A j \in 1..(Len(s) - (i + 1) + 1) : b[j] = s[(i + 1) + j - 1]
    BY <1>1, <2>1, SubSeqProperties
  <2> HIDE DEF b
  <2>3. Len(b) = Len(s) - i /\ Len(s) - (i + 1) + 1 = Len(s) - i
    BY <1>1, <2>2
  <2>4. ASSUME NEW j \in 1..(Len(s) - i) PROVE b[j] = s[i + j]
    <3>1. (i + 1) + j - 1 = i + j
      BY <1>1
    <3> QED BY <2>2, <2>3, <3>1
  <2> QED BY <2>2, <2>3, <2>4
<1> DEFINE c == a \o b
<1>4. /\ c \in Seq(S) /\ Len(c) = Len(s) - 1
      /\ \A k \in 1..(Len(s) - 1) : c[k] = IF k <= i - 1 THEN s[k] ELSE s[k + 1]
  <2>1. /\ c \in Seq(S) /\ Len(c) = Len(a) + Len(b)
        /\ \A k \in 1..(Len(a) + Len(b)) : c[k] = IF k <= Len(a) THEN a[k] ELSE b[k - Len(a)]
    BY <1>2, <1>3, ConcatProperties
  <2> HIDE DEF a, b, c
  <2>2. Len(a) + Len(b) = Len(s) - 1
    BY <1>1, <1>2, <1>3
  <2>3. ASSUME NEW k \in 1..(Len(s) - 1) PROVE c[k] = IF k <= i - 1 THEN s[k] ELSE s[k + 1]
    <3>1. CASE k <= i - 1
      BY <1>1, <1>2, <2>1, <2>2, <3>1
    <3>2. CASE ~(k <= i - 1)
      <4>1. k - (i - 1) \in 1..(Len(s) - i) /\ i + (k - (i - 1)) = k + 1
        BY <1>1, <3>2
      <4>2. c[k] = b[k - (i - 1)]
        BY <1>2, <2>1, <2>2, <3>2
      <4> QED BY <1>3, <3>2, <4>1, <4>2
    <3> QED BY <3>1, <3>2
  <2> QED BY <2>1, <2>2, <2>3
<1>5. RemoveAt(s, i) = c
  BY DEF RemoveAt
<1> HIDE DEF c
<1>6. DOMAIN c = 1..(Len(s) - 1)
  BY <1>4, LenProperties
<1>7. ASSUME NEW j \in DOMAIN s \ {i} PROVE \E k \in DOMAIN c : c[k] = s[j]
  <2>1. CASE j < i
    BY <1>1, <1>4, <1>6, <2>1
  <2>2. CASE j > i
    <3>1. j - 1 \in 1..(Len(s) - 1) /\ ~(j - 1 <= i - 1) /\ (j - 1) + 1 = j
      BY <1>1, <2>2
    <3> QED BY <1>4, <1>6, <3>1
  <2> QED BY <1>1, <2>1, <2>2
<1> QED BY <1>4, <1>5, <1>7

LEMMA StageOfSteps ==
    ASSUME NEW p \in Pipe, NEW id \in IdsOf(p)
    PROVE  StageOf(p, id) \in Stage /\ StageOf(p, id).id = id
<1>1. p.stages \in Seq(Stage)
  BY DEF Pipe
<1>2. \E i \in DOMAIN p.stages : p.stages[i].id = id
  BY DEF IdsOf
<1>3. \A i \in DOMAIN p.stages : p.stages[i] \in Stage
  BY <1>1, LenProperties, ElementOfSeq
<1> QED BY <1>2, <1>3 DEF StageOf

LEMMA ApplyStageSound ==
    ASSUME NEW d \in SoundCard, NEW s \in Stage
    PROVE  /\ ApplyStage(d, s) \in SoundCard
           /\ ApplyStage(d, s).pipe = d.pipe /\ ApplyStage(d, s).stage = s.id
<1> DEFINE e == ApplyStage(d, s)
<1>1. d \in Deal /\ Sound(d) /\ s.id \in Nat /\ s.ends \subseteq {"won", "lost"}
  BY DEF SoundCard, Stage, Ends
<1>2. /\ e \in Deal /\ e.pipe = d.pipe /\ e.stage = s.id
      /\ e.items = d.items /\ e.value = d.value
      /\ e.status = IF "won" \in s.ends THEN "won" ELSE IF "lost" \in s.ends THEN "lost" ELSE "open"
      /\ e.closed = (s.ends # {})
  BY <1>1 DEF ApplyStage, Deal
<1> HIDE DEF e
<1>3. e.closed <=> e.status # "open"
  BY <1>1, <1>2
<1> QED BY <1>1, <1>2, <1>3 DEF SoundCard, Sound, e

LEMMA LostSound ==
    ASSUME NEW d \in SoundCard, NEW p \in Pipe
    PROVE  /\ Lost(d, p) \in SoundCard /\ Lost(d, p).pipe = d.pipe
           /\ Lost(d, p).stage = d.stage \/ Lost(d, p).stage \in IdsOf(p)
<1> DEFINE ending == {s \in IdsOf(p) : "lost" \in StageOf(p, s).ends}
           t == CHOOSE s \in ending : TRUE
<1>1. CASE ending = {}
  <2>1. Lost(d, p) = [d EXCEPT !.status = "lost", !.closed = TRUE]
    BY <1>1 DEF Lost
  <2>2. d \in Deal /\ Sound(d)
    BY DEF SoundCard
  <2> QED BY <2>1, <2>2 DEF SoundCard, Deal, Sound
<1>2. CASE ending # {}
  <2>1. t \in IdsOf(p)
    BY <1>2
  <2>2. Lost(d, p) = ApplyStage(d, StageOf(p, t))
    BY <1>2 DEF Lost
  <2> HIDE DEF t
  <2>3. StageOf(p, t) \in Stage /\ StageOf(p, t).id = t
    BY <2>1, StageOfSteps
  <2> QED BY <2>1, <2>2, <2>3, ApplyStageSound
<1> QED BY <1>1, <1>2

\* RecalcValue makes the value of a deal the sum of its lines.
LEMMA RecalcSound ==
    ASSUME NEW d \in SoundCard, NEW s \in Seq(Nat)
    PROVE  LET e == Recalc([d EXCEPT !.items = s])
           IN  e \in SoundCard /\ e.pipe = d.pipe /\ e.stage = d.stage
<1> DEFINE e == Recalc([d EXCEPT !.items = s])
<1>1. d \in Deal /\ Sound(d) /\ Sum(s) \in Nat
  BY SumIsNumber DEF SoundCard
<1>2. e = [d EXCEPT !.items = s, !.value = Sum(s)]
  BY <1>1 DEF Recalc, Deal
<1> HIDE DEF e
<1>3. /\ e \in Deal /\ e.pipe = d.pipe /\ e.stage = d.stage /\ e.items = s /\ e.value = Sum(s)
      /\ e.closed = d.closed /\ e.status = d.status
  BY <1>1, <1>2 DEF Deal
<1> QED BY <1>1, <1>3 DEF SoundCard, Sound, e

LEMMA ChangedIsList ==
    ASSUME NEW items \in Seq(Nat), NEW s \in Changed(items) PROVE s \in Seq(Nat)
<1>1. ASSUME NEW t \in Totals PROVE Append(items, t) \in Seq(Nat)
  BY CrmAssumption, AppendProperties
<1>2. ASSUME NEW i \in DOMAIN items, NEW t \in Totals PROVE [items EXCEPT ![i] = t] \in Seq(Nat)
  BY CrmAssumption, LenProperties, ExceptSeq
<1>3. ASSUME NEW i \in DOMAIN items PROVE RemoveAt(items, i) \in Seq(Nat)
  BY RemoveAtSteps
<1>4. CASE s \in {Append(items, t) : t \in Totals}
  BY <1>1, <1>4
<1>5. CASE \E i \in DOMAIN items : s \in {RemoveAt(items, i)} \cup {[items EXCEPT ![i] = t] : t \in Totals}
  BY <1>2, <1>3, <1>5
<1>6. \/ s \in {Append(items, t) : t \in Totals}
      \/ s \in UNION {{RemoveAt(items, i)} \cup {[items EXCEPT ![i] = t] : t \in Totals} : i \in DOMAIN items}
  BY DEF Changed
<1> QED BY <1>4, <1>5, <1>6

LEMMA EditsSound ==
    ASSUME NEW d \in SoundCard, NEW e \in Edits(d)
    PROVE  e \in SoundCard /\ e.pipe = d.pipe /\ e.stage = d.stage
<1>1. d \in Deal /\ Sound(d) /\ d.items \in Seq(Nat) /\ Totals \subseteq Nat
  BY CrmAssumption DEF SoundCard, Deal
<1>2. CASE e \in Typed(d)
  <2>1. CASE d.items = <<>>
    <3>1. PICK v \in Totals : e = [d EXCEPT !.value = v]
      BY <1>2, <2>1 DEF Typed
    <3>2. v \in Nat
      BY <1>1
    <3> QED BY <1>1, <2>1, <3>1, <3>2 DEF SoundCard, Deal, Sound
  <2> QED BY <1>2, <2>1 DEF Typed
<1>3. CASE e \in Lines(d)
  <2>1. PICK items \in Changed(d.items) : e = Recalc([d EXCEPT !.items = items])
    BY <1>3 DEF Lines
  <2> QED BY <1>1, <2>1, ChangedIsList, RecalcSound
<1> QED BY <1>2, <1>3 DEF Edits

-----------------------------------------------------------------------------
(* Requests.                                                               *)

\* Documents are never taken out of a collection, and a deal stays in its
\* pipeline.
Grow(ds, ps, es, qs) ==
    /\ DOMAIN ds \subseteq DOMAIN es /\ DOMAIN ps \subseteq DOMAIN qs
    /\ \A i \in DOMAIN ds : es[i] # Gone => ds[i] # Gone /\ es[i].pipe = ds[i].pipe

\* Which calls a request has yet to make when it makes one.
LEMMA CallSteps ==
    ASSUME NEW c \in DealCalls \cup PipeCalls
    PROVE  /\ Head(c) = "Insert" => c \in Inserts
           /\ Head(c) = "Link" => c = <<"Link", "StoreDeal">>
           /\ Head(c) = "Enter" => c \in {<<"Enter", "StoreDeal">>, <<"Enter", "StoreDeal", "NextDeal">>}
           /\ Head(c) = "StoreDeal" => c \in {<<"StoreDeal">>, <<"StoreDeal", "NextDeal">>}
           /\ Head(c) = "NextDeal" => c = <<"NextDeal">>
           /\ Head(c) = "InsertPipe" => c = <<"InsertPipe">>
           /\ Head(c) = "ClearDefault" => c = <<"ClearDefault", "StorePipe">>
           /\ Head(c) = "StageHasDeals" => c = <<"StageHasDeals", "StorePipe">>
           /\ Head(c) = "StorePipe" => c = <<"StorePipe">>
           /\ c \in DealCalls => c \notin PipeCalls
           /\ c \in DealCalls /\ Len(c) # 1 => Tail(c) \in DealCalls \ Inserts
           /\ c \in PipeCalls /\ Len(c) # 1 => Tail(c) = <<"StorePipe">>
           /\ c = <<"InsertPipe">> => Len(c) = 1
<1>1. CASE c = <<"Insert">>
  BY <1>1 DEF DealCalls, PipeCalls, Inserts
<1>2. CASE c = <<"Insert", "Link", "StoreDeal">>
  BY <1>2 DEF DealCalls, PipeCalls, Inserts
<1>3. CASE c = <<"Link", "StoreDeal">>
  BY <1>3 DEF DealCalls, PipeCalls, Inserts
<1>4. CASE c = <<"StoreDeal">>
  BY <1>4 DEF DealCalls, PipeCalls, Inserts
<1>5. CASE c = <<"Enter", "StoreDeal">>
  BY <1>5 DEF DealCalls, PipeCalls, Inserts
<1>6. CASE c = <<"Enter", "StoreDeal", "NextDeal">>
  BY <1>6 DEF DealCalls, PipeCalls, Inserts
<1>7. CASE c = <<"StoreDeal", "NextDeal">>
  BY <1>7 DEF DealCalls, PipeCalls, Inserts
<1>8. CASE c = <<"NextDeal">>
  BY <1>8 DEF DealCalls, PipeCalls, Inserts
<1>9. CASE c = <<"InsertPipe">>
  BY <1>9 DEF DealCalls, PipeCalls, Inserts
<1>10. CASE c = <<"ClearDefault", "StorePipe">>
  BY <1>10 DEF DealCalls, PipeCalls, Inserts
<1>11. CASE c = <<"StorePipe">>
  BY <1>11 DEF DealCalls, PipeCalls, Inserts
<1>12. CASE c = <<"StageHasDeals", "StorePipe">>
  BY <1>12 DEF DealCalls, PipeCalls, Inserts
<1> QED BY <1>1, <1>2, <1>3, <1>4, <1>5, <1>6, <1>7, <1>8, <1>9, <1>10, <1>11, <1>12 DEF DealCalls, PipeCalls

LEMMA GoodKept ==
    ASSUME NEW r, NEW ds, NEW ps, NEW es, NEW qs,
           GoodRequest(r, ds, ps), Grow(ds, ps, es, qs)
    PROVE  GoodRequest(r, es, qs)
<1>1. ASSUME OnFile(ds, r.d, r.p) PROVE OnFile(es, r.d, r.p)
  BY <1>1 DEF OnFile, Grow
<1> QED BY <1>1 DEF GoodRequest, Grow

LEMMA CopiesKept ==
    ASSUME NEW e, NEW r, NEW ds, NEW ps, NEW es, NEW qs,
           GoodCopies(e, r, ds), Grow(ds, ps, es, qs)
    PROVE  GoodCopies(e, r, es)
BY DEF GoodCopies, OnFile, Grow

\* A request that falls behind is otherwise what it was.
LEMMA BehindIsGood ==
    ASSUME NEW r, NEW ds, NEW ps, GoodRequest(r, ds, ps)
    PROVE  /\ GoodRequest([r EXCEPT !.behind = TRUE], ds, ps)
           /\ [r EXCEPT !.behind = TRUE].p = r.p
<1> DEFINE f == [r EXCEPT !.behind = TRUE]
<1>1. /\ f.calls = r.calls /\ f.d = r.d /\ f.deal = r.deal /\ f.p = r.p
      /\ f.pipe = r.pipe /\ f.arg = r.arg /\ f.behind = TRUE
      /\ f \in [calls : DealCalls \cup PipeCalls, d : {f.d}, deal : {f.deal}, p : {f.p},
                pipe : {f.pipe}, arg : {f.arg}, behind : BOOLEAN]
  BY DEF GoodRequest
<1> HIDE DEF f
<1> QED BY <1>1 DEF GoodRequest, f

\* What is left of a request after its call.
LEMMA DoneIsGood ==
    ASSUME NEW r, NEW ds, NEW ps, GoodRequest(r, ds, ps), Done(r) # Gone,
           r.calls \in Inserts => OnFile(ds, r.d, r.p)
    PROVE  GoodRequest(Done(r), ds, ps) /\ Done(r).p = r.p
<1> DEFINE f == [r EXCEPT !.calls = Tail(@)]
<1>1. Done(r) = f /\ Len(r.calls) # 1
  BY DEF Done
<1>2. r.calls \in DealCalls \cup PipeCalls
  BY DEF GoodRequest
<1>3. /\ r.calls \in DealCalls => r.calls \notin PipeCalls /\ Tail(r.calls) \in DealCalls \ Inserts
      /\ r.calls \in PipeCalls => Tail(r.calls) = <<"StorePipe">> /\ r.calls # <<"InsertPipe">>
  BY <1>1, <1>2, CallSteps
<1>4. <<"StorePipe">> \in PipeCalls /\ <<"StorePipe">> \notin DealCalls
  BY DEF PipeCalls, DealCalls
<1>5. Tail(r.calls) \in DealCalls \cup PipeCalls
  BY <1>2, <1>3, <1>4
<1>6. /\ f.calls = Tail(r.calls) /\ f.d = r.d /\ f.deal = r.deal /\ f.p = r.p
      /\ f.pipe = r.pipe /\ f.arg = r.arg /\ f.behind = r.behind
      /\ f \in [calls : DealCalls \cup PipeCalls, d : {f.d}, deal : {f.deal}, p : {f.p},
                pipe : {f.pipe}, arg : {f.arg}, behind : BOOLEAN]
  BY <1>5 DEF GoodRequest
<1> HIDE DEF f
<1>7. ASSUME f.calls \in DealCalls PROVE r.calls \in DealCalls
  BY <1>2, <1>3, <1>4, <1>6, <1>7
<1>8. ASSUME f.calls \in PipeCalls PROVE r.calls \in PipeCalls /\ r.calls # <<"InsertPipe">>
  <2>1. Tail(r.calls) \notin DealCalls
    BY <1>5, <1>6, <1>8, CallSteps
  <2> QED BY <1>2, <1>3, <2>1
<1>9. f.calls \in DealCalls => OnFile(ds, f.d, f.p)
  BY <1>6, <1>7 DEF GoodRequest
<1> QED BY <1>1, <1>6, <1>7, <1>8, <1>9 DEF GoodRequest

-----------------------------------------------------------------------------
(* The documents and the copies of them stay good.                         *)

\* Nobody but u goes on; the others fall behind at most.
Follow(u) ==
    /\ req' = [v \in Users |-> req'[v]]
    /\ \A v \in Users \ {u} :
          \/ req'[v] = req[v]
          \/ req[v] # Gone /\ req'[v] = [req[v] EXCEPT !.behind = TRUE]

LEMMA FiledStep ==
    ASSUME Filed, NEW u \in Users, Follow(u), stageIds' \in Nat,
           Documents(deals', pipes'), Grow(deals, pipes, deals', pipes'),
           req'[u] # Gone => GoodRequest(req'[u], deals', pipes'),
           \A w \in Workers \ {u} : eval'[w] = eval[w],
           u \in Workers => GoodCopies(eval'[u], req'[u], deals')
    PROVE  Filed'
<1>1. ASSUME NEW v \in Users, req'[v] # Gone PROVE GoodRequest(req'[v], deals', pipes')
  <2>1. CASE v # u
    <3>1. req[v] # Gone
      BY <1>1, <2>1 DEF Follow
    <3>2. GoodRequest(req[v], deals', pipes')
      BY <3>1, GoodKept DEF Filed
    <3>3. GoodRequest([req[v] EXCEPT !.behind = TRUE], deals', pipes')
      BY <3>2, BehindIsGood
    <3> QED BY <2>1, <3>2, <3>3 DEF Follow
  <2> QED BY <1>1, <2>1
<1>2. ASSUME NEW w \in Workers PROVE GoodCopies(eval'[w], req'[w], deals')
  <2>1. CASE w # u
    <3>1. w \in Users /\ GoodCopies(eval[w], req[w], deals) /\ eval'[w] = eval[w]
      BY <2>1, AutomationAssumption DEF Filed
    <3>2. GoodCopies(eval'[w], req[w], deals')
      BY <3>1, CopiesKept
    <3>3. ASSUME req[w] # Gone, req'[w] = [req[w] EXCEPT !.behind = TRUE]
          PROVE  req'[w].p = req[w].p
      <4>1. GoodRequest(req[w], deals, pipes)
        BY <3>1, <3>3 DEF Filed
      <4> QED BY <3>3, <4>1, BehindIsGood
    <3>4. req'[w] = req[w] \/ (req[w] # Gone /\ req'[w].p = req[w].p)
      BY <2>1, <3>1, <3>3 DEF Follow
    <3> QED BY <3>2, <3>4 DEF GoodCopies
  <2> QED BY <2>1
<1> QED BY <1>1, <1>2 DEF Filed, Follow

LEMMA NothingStored ==
    ASSUME Filed, UNCHANGED <<deals, pipes>>
    PROVE  Documents(deals', pipes') /\ Grow(deals, pipes, deals', pipes')
BY DEF Filed, Grow

LEMMA GoesFollow ==
    ASSUME Filed, NEW u \in Users, NEW r, Goes(u, r)
    PROVE  Follow(u) /\ req'[u] = r
BY DEF Filed, Goes, Follow

LEMMA MovesFollow ==
    ASSUME NEW u \in Users, NEW r, NEW p, Moves(u, r, p)
    PROVE  Follow(u) /\ req'[u] = r
BY DEF Moves, Follow

\* A user asks for something.
LEMMA AskFiled ==
    ASSUME Filed, NEW u \in Users \ Workers, NEW r, Ask(u, r), GoodRequest(r, deals, pipes),
           UNCHANGED <<deals, pipes, eval>>, stageIds' \in Nat
    PROVE  Filed'
<1>1. Follow(u) /\ req'[u] = r
  BY GoesFollow DEF Ask, Goes
<1>2. Documents(deals', pipes') /\ Grow(deals, pipes, deals', pipes')
  BY NothingStored
<1>3. GoodRequest(req'[u], deals', pipes') /\ u \in Users /\ u \notin Workers
  BY <1>1
<1>4. \A w \in Workers \ {u} : eval'[w] = eval[w]
  OBVIOUS
<1> QED BY <1>1, <1>2, <1>3, <1>4, FiledStep

\* A request makes its call.
LEMMA CallFiled ==
    ASSUME Filed, NEW u \in Users, req[u] # Gone, Follow(u),
           UNCHANGED <<stageIds, eval>>,
           Documents(deals', pipes'), Grow(deals, pipes, deals', pipes'),
           req'[u] # Gone => GoodRequest(req'[u], deals', pipes') /\ req'[u].p = req[u].p
    PROVE  Filed'
<1>1. ASSUME u \in Workers PROVE GoodCopies(eval'[u], req'[u], deals')
  <2>1. GoodCopies(eval'[u], req[u], deals')
    BY <1>1, CopiesKept DEF Filed
  <2> QED BY <2>1 DEF GoodCopies
<1>2. stageIds' \in Nat
  BY DEF Filed
<1>3. \A w \in Workers \ {u} : eval'[w] = eval[w]
  OBVIOUS
<1> QED BY <1>1, <1>2, <1>3, FiledStep

-----------------------------------------------------------------------------
(* The requests.                                                           *)

LEMMA DealRequest ==
    ASSUME NEW ds, NEW ps, NEW calls \in DealCalls, NEW d, NEW deal \in SoundCard,
           NEW p \in DOMAIN ps, deal.pipe = p, NEW pipe, NEW arg,
           calls \notin Inserts => OnFile(ds, d, p)
    PROVE  GoodRequest(Request(calls, d, deal, p, pipe, arg), ds, ps)
<1>1. calls \notin PipeCalls
  BY CallSteps
<1> QED BY <1>1 DEF Request, GoodRequest

LEMMA PipeRequest ==
    ASSUME NEW ds, NEW ps, NEW calls \in PipeCalls, NEW d, NEW deal, NEW p, NEW pipe \in Pipe,
           NEW arg, calls # <<"InsertPipe">> => p \in DOMAIN ps
    PROVE  GoodRequest(Request(calls, d, deal, p, pipe, arg), ds, ps)
<1>1. calls \notin DealCalls
  BY CallSteps
<1> QED BY <1>1 DEF Request, GoodRequest

LEMMA DealThere ==
    ASSUME NEW ds, NEW ps, Documents(ds, ps), NEW i \in DOMAIN ds, ds[i] # Gone
    PROVE  ds[i] \in SoundCard /\ ds[i].pipe \in DOMAIN ps /\ OnFile(ds, i, ds[i].pipe)
BY LenProperties, ElementOfSeq DEF Documents, OnFile

LEMMA PipeThere ==
    ASSUME NEW ds, NEW ps, Documents(ds, ps), NEW p \in DOMAIN ps, ps[p] # Gone
    PROVE  ps[p] \in Pipe /\ p \in Nat
BY LenProperties, ElementOfSeq DEF Documents

\* A pipeline with other stages, and with another flag.
LEMMA RestagedIsPipe ==
    ASSUME NEW p \in Pipe, NEW s \in Seq(Stage)
    PROVE  [p EXCEPT !.stages = s] \in Pipe /\ [p EXCEPT !.stages = s].stages = s
BY DEF Pipe

LEMMA FlaggedIsPipe ==
    ASSUME NEW p \in Pipe, NEW flag \in BOOLEAN
    PROVE  /\ [p EXCEPT !.default = flag] \in Pipe
           /\ IdsOf([p EXCEPT !.default = flag]) = IdsOf(p)
BY DEF Pipe, IdsOf

\* The stages the requests on a pipeline make of those they read.
LEMMA AddedStage ==
    ASSUME NEW s \in Seq(Stage), NEW id \in Nat, NEW ends \in SUBSET Ends
    PROVE  LET t == Append(s, [id |-> id, ends |-> ends])
           IN  /\ t \in Seq(Stage)
               /\ \A j \in DOMAIN s : j \in DOMAIN t /\ t[j].id = s[j].id
<1> DEFINE x == [id |-> id, ends |-> ends] t == Append(s, x)
<1>1. x \in Stage
  BY DEF Stage
<1> HIDE DEF x
<1>2. t \in Seq(Stage) /\ Len(t) = Len(s) + 1 /\ \A j \in 1..Len(s) : t[j] = s[j]
  BY <1>1, AppendProperties
<1>3. DOMAIN s = 1..Len(s) /\ DOMAIN t = 1..(Len(s) + 1) /\ Len(s) \in Nat
  BY <1>2, LenProperties
<1> QED BY <1>2, <1>3 DEF x

WithEnds(s, i, ends) == [s EXCEPT ![i].ends = ends]

LEMMA UpdatedStage ==
    ASSUME NEW s \in Seq(Stage), NEW i \in DOMAIN s, NEW ends \in SUBSET Ends
    PROVE  /\ WithEnds(s, i, ends) \in Seq(Stage)
           /\ \A j \in DOMAIN s :
                 j \in DOMAIN WithEnds(s, i, ends) /\ WithEnds(s, i, ends)[j].id = s[j].id
<1> DEFINE x == [s[i] EXCEPT !.ends = ends] t == WithEnds(s, i, ends)
<1>1. DOMAIN s = 1..Len(s) /\ s[i] \in Stage
  BY LenProperties, ElementOfSeq
<1>2. x \in Stage /\ x.id = s[i].id
  BY <1>1 DEF Stage
<1>3. t = [s EXCEPT ![i] = x]
  BY DEF WithEnds
<1> HIDE DEF x, t
<1>4. t \in Seq(Stage)
  BY <1>1, <1>2, <1>3, ExceptSeq
<1>5. \A j \in DOMAIN s : j \in DOMAIN t /\ t[j].id = s[j].id
  BY <1>2, <1>3
<1> QED BY <1>4, <1>5 DEF t

LEMMA ReorderedStages ==
    ASSUME NEW s \in Seq(Stage), NEW t \in SetToSeqs({s[i] : i \in DOMAIN s})
    PROVE  /\ t \in Seq(Stage)
           /\ \A j \in DOMAIN s : \E k \in DOMAIN t : t[k].id = s[j].id
<1> DEFINE S == {s[i] : i \in DOMAIN s} D == 1..Cardinality(S)
<1>1. DOMAIN s = 1..Len(s) /\ Len(s) \in Nat /\ S \subseteq Stage
  BY LenProperties, ElementOfSeq
<1>2. IsFiniteSet(S)
  <2>1. s \in [1..Len(s) -> S] /\ \A x \in S : \E i \in 1..Len(s) : s[i] = x
    BY <1>1, LenProperties
  <2>2. s \in Surjection(1..Len(s), S)
    BY <2>1 DEF Surjection
  <2>3. IsFiniteSet(1..Len(s))
    BY <1>1, FS_Interval
  <2> QED BY <2>2, <2>3, FS_Surjection
<1>3. Cardinality(S) \in Nat
  BY <1>2, FS_CardinalityType
<1>4. t \in [D -> S] /\ \A i, j \in D : i # j => t[i] # t[j]
  BY DEF SetToSeqs
<1> HIDE DEF S, D
<1>5. t \in Injection(D, S)
  BY <1>4 DEF Injection, IsInjective
<1>6. Cardinality(D) = Cardinality(S)
  BY <1>3, FS_Interval DEF D
<1>7. t \in Surjection(D, S)
  BY <1>2, <1>5, <1>6, FS_Injection
<1>8. t \in Seq(Stage)
  <2>1. t \in [1..Cardinality(S) -> Stage]
    BY <1>1, <1>4 DEF D
  <2> QED BY <1>3, <2>1, SeqDef
<1>9. ASSUME NEW j \in DOMAIN s PROVE \E k \in DOMAIN t : t[k].id = s[j].id
  <2>1. s[j] \in S
    BY DEF S
  <2> QED BY <1>4, <1>7, <2>1 DEF Surjection
<1> QED BY <1>8, <1>9

\* The deal a request starts with.
LEMMA NewDealSound ==
    ASSUME NEW p \in Nat, NEW v \in Totals
    PROVE  NewDeal(p, v) \in SoundCard /\ NewDeal(p, v).pipe = p
<1>1. v \in Nat /\ <<>> \in Seq(Nat)
  BY CrmAssumption, EmptySeq
<1> QED BY <1>1 DEF NewDeal, SoundCard, Deal, Sound

LEMMA ResolvedIsStage ==
    ASSUME NEW p \in Pipe, p.stages # <<>>, NEW named, NEW s \in Resolved(p, named)
    PROVE  s \in IdsOf(p)
<1>1. p.stages \in Seq(Stage)
  BY DEF Pipe
<1>2. 1 \in DOMAIN p.stages /\ Head(p.stages) = p.stages[1]
  BY <1>1, EmptySeq, LenProperties
<1>3. Head(p.stages).id \in IdsOf(p)
  BY <1>2 DEF IdsOf
<1> QED BY <1>3 DEF Resolved

\* Stage s is a column of pipeline p.
Column(ps, s, p) == p \in DOMAIN ps /\ ps[p] # Gone /\ s \in IdsOf(ps[p])

\* What a request is to store of a pipeline, n, holds the stages of p, but for
\* one it has yet to ask about.
Keeps(p, n, calls, arg) ==
    \A id \in IdsOf(p) :
        id \in IdsOf(n) \/ (calls = <<"StageHasDeals", "StorePipe">> /\ id = arg)

\* A new request: its copies are what the collections hold.
Current(r) ==
    /\ GoodRequest(r, deals, pipes) /\ ~r.behind
    /\ r.calls \in DealCalls =>
          \/ Column(pipes, r.deal.stage, r.p)
          \/ \E i \in DOMAIN deals :
                deals[i] # Gone /\ deals[i].pipe = r.p /\ deals[i].stage = r.deal.stage
    /\ r.calls \in PipeCalls =>
          r.p \notin DOMAIN pipes \/ (pipes[r.p] # Gone /\ Keeps(pipes[r.p], r.pipe, r.calls, r.arg))

Asked(u) ==
    \E r : Ask(u, r) /\ Current(r) /\ stageIds' \in Nat /\ UNCHANGED <<deals, pipes, overtaken>>

LEMMA DealCurrent ==
    ASSUME NEW calls \in DealCalls, NEW d, NEW deal, NEW p, NEW pipe, NEW arg,
           GoodRequest(Request(calls, d, deal, p, pipe, arg), deals, pipes),
           \/ Column(pipes, deal.stage, p)
           \/ \E i \in DOMAIN deals :
                 deals[i] # Gone /\ deals[i].pipe = p /\ deals[i].stage = deal.stage
    PROVE  Current(Request(calls, d, deal, p, pipe, arg))
<1> DEFINE r == Request(calls, d, deal, p, pipe, arg)
<1>1. r.calls = calls /\ r.deal = deal /\ r.p = p /\ r.behind = FALSE
  BY DEF Request
<1>2. calls \notin PipeCalls
  BY CallSteps
<1> HIDE DEF r
<1>3. GoodRequest(r, deals, pipes)
  BY DEF r
<1> QED BY <1>1, <1>2, <1>3 DEF Current, r

LEMMA PipeCurrent ==
    ASSUME NEW calls \in PipeCalls, NEW d, NEW deal, NEW p, NEW pipe, NEW arg,
           GoodRequest(Request(calls, d, deal, p, pipe, arg), deals, pipes),
           p \notin DOMAIN pipes \/ (pipes[p] # Gone /\ Keeps(pipes[p], pipe, calls, arg))
    PROVE  Current(Request(calls, d, deal, p, pipe, arg))
<1> DEFINE r == Request(calls, d, deal, p, pipe, arg)
<1>1. r.calls = calls /\ r.pipe = pipe /\ r.p = p /\ r.arg = arg /\ r.behind = FALSE
  BY DEF Request
<1>2. calls \notin DealCalls
  BY CallSteps
<1> HIDE DEF r
<1>3. GoodRequest(r, deals, pipes)
  BY DEF r
<1> QED BY <1>1, <1>2, <1>3 DEF Current, r

LEMMA RestagedKeeps ==
    ASSUME NEW p \in Pipe, NEW s \in Seq(Stage), NEW calls, NEW arg,
           \A j \in DOMAIN p.stages :
               \/ \E k \in DOMAIN s : s[k].id = p.stages[j].id
               \/ calls = <<"StageHasDeals", "StorePipe">> /\ p.stages[j].id = arg
    PROVE  [p EXCEPT !.stages = s] \in Pipe /\ Keeps(p, [p EXCEPT !.stages = s], calls, arg)
<1> DEFINE n == [p EXCEPT !.stages = s]
<1>1. n \in Pipe /\ n.stages = s
  BY RestagedIsPipe
<1> HIDE DEF n
<1>2. Keeps(p, n, calls, arg)
  BY <1>1 DEF Keeps, IdsOf
<1> QED BY <1>1, <1>2 DEF n

\* What users ask for, but for the two deletions, which wait for nothing.
LEMMA RequestsAsk ==
    ASSUME Filed, NEW u \in Users, NEW names, Requests(u, names)
    PROVE  DeleteDeal(u) \/ DeletePipe(u) \/ Asked(u)
<1>0. Documents(deals, pipes) /\ stageIds \in Nat
  BY DEF Filed
<1>1. CASE CreateDeal(u)
  <2>1. PICK p \in DOMAIN pipes, v \in Totals, calls \in {<<"Insert">>, <<"Insert", "Link", "StoreDeal">>} :
           /\ pipes[p] # Gone /\ pipes[p].stages # <<>>
           /\ \E s \in Resolved(pipes[p], Len(calls) = 1) :
                 Ask(u, Request(calls, 0, ApplyStage(NewDeal(p, v), StageOf(pipes[p], s)), p, Gone, 0))
           /\ UNCHANGED <<deals, pipes, stageIds, overtaken>>
    BY <1>1 DEF CreateDeal
  <2>2. PICK s \in Resolved(pipes[p], Len(calls) = 1) :
           Ask(u, Request(calls, 0, ApplyStage(NewDeal(p, v), StageOf(pipes[p], s)), p, Gone, 0))
    BY <2>1
  <2>3. pipes[p] \in Pipe /\ p \in Nat
    BY <1>0, <2>1, PipeThere
  <2>4. StageOf(pipes[p], s) \in Stage /\ StageOf(pipes[p], s).id = s /\ s \in IdsOf(pipes[p])
    BY <2>1, <2>3, ResolvedIsStage, StageOfSteps
  <2> DEFINE deal == ApplyStage(NewDeal(p, v), StageOf(pipes[p], s))
  <2>5. deal \in SoundCard /\ deal.pipe = p /\ deal.stage = s
    BY <2>3, <2>4, NewDealSound, ApplyStageSound
  <2> HIDE DEF deal
  <2>6. calls \in DealCalls /\ calls \in Inserts
    BY DEF DealCalls, Inserts
  <2>7. GoodRequest(Request(calls, 0, deal, p, Gone, 0), deals, pipes)
    BY <2>5, <2>6, DealRequest
  <2>8. Current(Request(calls, 0, deal, p, Gone, 0))
    <3>1. Column(pipes, deal.stage, p)
      BY <2>1, <2>4, <2>5 DEF Column
    <3> QED BY <2>6, <2>7, <3>1, DealCurrent
  <2> QED BY <1>0, <2>1, <2>2, <2>8 DEF Asked, deal
<1>2. CASE EditDeal(u)
  <2>1. PICK i \in DOMAIN deals :
           /\ deals[i] # Gone
           /\ \E d \in Edits(deals[i]) : Ask(u, Request(<<"StoreDeal">>, i, d, d.pipe, Gone, 0))
           /\ UNCHANGED <<deals, pipes, stageIds, overtaken>>
    BY <1>2 DEF EditDeal
  <2>2. PICK d \in Edits(deals[i]) : Ask(u, Request(<<"StoreDeal">>, i, d, d.pipe, Gone, 0))
    BY <2>1
  <2>3. /\ deals[i] \in SoundCard /\ deals[i].pipe \in DOMAIN pipes
        /\ OnFile(deals, i, deals[i].pipe)
    BY <1>0, <2>1, DealThere
  <2>4. d \in SoundCard /\ d.pipe = deals[i].pipe /\ d.stage = deals[i].stage
    BY <2>3, EditsSound
  <2>5. <<"StoreDeal">> \in DealCalls
    BY DEF DealCalls
  <2>6. GoodRequest(Request(<<"StoreDeal">>, i, d, d.pipe, Gone, 0), deals, pipes)
    BY <2>3, <2>4, <2>5, DealRequest
  <2>7. Current(Request(<<"StoreDeal">>, i, d, d.pipe, Gone, 0))
    BY <2>1, <2>4, <2>5, <2>6, DealCurrent
  <2> QED BY <1>0, <2>1, <2>2, <2>7 DEF Asked
<1>3. CASE MoveStage(u)
  <2>1. PICK i \in DOMAIN deals, s \in 0..stageIds :
           /\ deals[i] # Gone
           /\ Ask(u, Request(<<"Enter", "StoreDeal">>, i, deals[i], deals[i].pipe, Gone, s))
           /\ UNCHANGED <<deals, pipes, stageIds, overtaken>>
    BY <1>3 DEF MoveStage
  <2>2. /\ deals[i] \in SoundCard /\ deals[i].pipe \in DOMAIN pipes
        /\ OnFile(deals, i, deals[i].pipe)
    BY <1>0, <2>1, DealThere
  <2>3. <<"Enter", "StoreDeal">> \in DealCalls
    BY DEF DealCalls
  <2>4. GoodRequest(Request(<<"Enter", "StoreDeal">>, i, deals[i], deals[i].pipe, Gone, s), deals, pipes)
    BY <2>2, <2>3, DealRequest
  <2>5. Current(Request(<<"Enter", "StoreDeal">>, i, deals[i], deals[i].pipe, Gone, s))
    BY <2>1, <2>3, <2>4, DealCurrent
  <2> QED BY <1>0, <2>1, <2>5 DEF Asked
<1>4. CASE CreatePipe(u)
  <2>1. PICK k \in 0..(MaxStages - stageIds) : \E ends \in [1..k -> SUBSET Ends] :
           LET p == [default |-> \A q \in DOMAIN pipes : pipes[q] = Gone,
                     stages |-> [i \in 1..k |-> [id |-> stageIds + i, ends |-> ends[i]]]]
           IN  Ask(u, Request(<<"InsertPipe">>, 0, Gone, 0, p, 0)) /\ stageIds' = stageIds + k
    BY <1>4 DEF CreatePipe
  <2>2. PICK ends \in [1..k -> SUBSET Ends] :
           LET p == [default |-> \A q \in DOMAIN pipes : pipes[q] = Gone,
                     stages |-> [i \in 1..k |-> [id |-> stageIds + i, ends |-> ends[i]]]]
           IN  Ask(u, Request(<<"InsertPipe">>, 0, Gone, 0, p, 0)) /\ stageIds' = stageIds + k
    BY <2>1
  <2>3. k \in Nat /\ stageIds + k \in Nat /\ \A i \in 1..k : stageIds + i \in Nat
    BY <1>0, CrmAssumption
  <2> DEFINE t == [i \in 1..k |-> [id |-> stageIds + i, ends |-> ends[i]]]
             n == [default |-> \A q \in DOMAIN pipes : pipes[q] = Gone, stages |-> t]
  <2>4. t \in [1..k -> Stage]
    BY <2>3 DEF Stage
  <2>5. t \in Seq(Stage)
    BY <2>3, <2>4, SeqDef
  <2>6. (\A q \in DOMAIN pipes : pipes[q] = Gone) \in BOOLEAN
    OBVIOUS
  <2>7. Ask(u, Request(<<"InsertPipe">>, 0, Gone, 0, n, 0)) /\ stageIds' \in Nat
    BY <2>2, <2>3
  <2> HIDE DEF t
  <2>8. n \in Pipe
    BY <2>5, <2>6 DEF Pipe
  <2>9. UNCHANGED <<deals, pipes, overtaken>>
    BY <1>4 DEF CreatePipe
  <2> HIDE DEF n
  <2>10. <<"InsertPipe">> \in PipeCalls
    BY DEF PipeCalls
  <2>11. GoodRequest(Request(<<"InsertPipe">>, 0, Gone, 0, n, 0), deals, pipes)
    BY <2>8, <2>10, PipeRequest
  <2>12. Current(Request(<<"InsertPipe">>, 0, Gone, 0, n, 0))
    <3>1. 0 \notin DOMAIN pipes
      BY <1>0, LenProperties DEF Documents
    <3> QED BY <2>10, <2>11, <3>1, PipeCurrent
  <2> QED BY <2>7, <2>9, <2>12 DEF Asked
<1>5. ASSUME NEW calls \in PipeCalls, NEW p \in DOMAIN pipes, pipes[p] # Gone, NEW n \in Pipe, NEW arg,
             Ask(u, Request(calls, 0, Gone, p, n, arg)),
             Keeps(pipes[p], n, calls, arg),
             UNCHANGED <<deals, pipes, overtaken>>, stageIds' \in Nat
      PROVE  Asked(u)
  <2>1. GoodRequest(Request(calls, 0, Gone, p, n, arg), deals, pipes)
    BY PipeRequest
  <2>2. Current(Request(calls, 0, Gone, p, n, arg))
    BY <1>5, <2>1, PipeCurrent
  <2> QED BY <1>5, <2>2 DEF Asked
<1>6. <<"StorePipe">> \in PipeCalls /\ <<"ClearDefault", "StorePipe">> \in PipeCalls
      /\ <<"StageHasDeals", "StorePipe">> \in PipeCalls
  BY DEF PipeCalls
<1>7. ASSUME NEW p \in DOMAIN pipes, pipes[p] # Gone
      PROVE  pipes[p] \in Pipe /\ pipes[p].stages \in Seq(Stage)
  BY <1>0, <1>7, PipeThere DEF Pipe
<1>8. CASE SetDefault(u)
  <2>1. PICK p \in DOMAIN pipes, flag \in BOOLEAN :
           /\ pipes[p] # Gone
           /\ Ask(u, Request(IF flag THEN <<"ClearDefault", "StorePipe">> ELSE <<"StorePipe">>,
                             0, Gone, p, [pipes[p] EXCEPT !.default = flag], 0))
           /\ UNCHANGED <<deals, pipes, stageIds, overtaken>>
    BY <1>8 DEF SetDefault
  <2> DEFINE n == [pipes[p] EXCEPT !.default = flag]
             calls == IF flag THEN <<"ClearDefault", "StorePipe">> ELSE <<"StorePipe">>
  <2>2. n \in Pipe /\ IdsOf(n) = IdsOf(pipes[p])
    BY <1>7, <2>1, FlaggedIsPipe
  <2>3. calls \in PipeCalls
    BY <1>6
  <2>4. Ask(u, Request(calls, 0, Gone, p, n, 0))
    BY <2>1
  <2> HIDE DEF n, calls
  <2>5. Keeps(pipes[p], n, calls, 0)
    BY <2>2 DEF Keeps
  <2> QED BY <1>0, <1>5, <2>1, <2>2, <2>3, <2>4, <2>5
<1>9. CASE AddStage(u)
  <2>1. PICK p \in DOMAIN pipes, ends \in SUBSET Ends :
           /\ pipes[p] # Gone
           /\ Ask(u, Request(<<"StorePipe">>, 0, Gone, p,
                             [pipes[p] EXCEPT !.stages = Append(@, [id |-> stageIds + 1, ends |-> ends])], 0))
           /\ stageIds' = stageIds + 1 /\ UNCHANGED <<deals, pipes, overtaken>>
    BY <1>9 DEF AddStage
  <2>2. pipes[p] \in Pipe /\ pipes[p].stages \in Seq(Stage)
    BY <1>7, <2>1
  <2> DEFINE t == Append(pipes[p].stages, [id |-> stageIds + 1, ends |-> ends])
  <2>3. /\ t \in Seq(Stage) /\ stageIds + 1 \in Nat
        /\ \A j \in DOMAIN pipes[p].stages : j \in DOMAIN t /\ t[j].id = pipes[p].stages[j].id
    BY <1>0, <2>2, AddedStage
  <2>4. [pipes[p] EXCEPT !.stages = Append(@, [id |-> stageIds + 1, ends |-> ends])]
           = [pipes[p] EXCEPT !.stages = t]
    BY <2>2 DEF Pipe
  <2> HIDE DEF t
  <2>5. [pipes[p] EXCEPT !.stages = t] \in Pipe
           /\ Keeps(pipes[p], [pipes[p] EXCEPT !.stages = t], <<"StorePipe">>, 0)
    BY <2>2, <2>3, RestagedKeeps
  <2> QED BY <1>5, <1>6, <2>1, <2>3, <2>4, <2>5
<1>10. CASE UpdateStage(u)
  <2>1. PICK p \in DOMAIN pipes, ends \in SUBSET Ends :
           /\ pipes[p] # Gone
           /\ \E i \in DOMAIN pipes[p].stages :
                 Ask(u, Request(<<"StorePipe">>, 0, Gone, p, [pipes[p] EXCEPT !.stages[i].ends = ends], 0))
           /\ UNCHANGED <<deals, pipes, stageIds, overtaken>>
    BY <1>10 DEF UpdateStage
  <2>2. PICK i \in DOMAIN pipes[p].stages :
           Ask(u, Request(<<"StorePipe">>, 0, Gone, p, [pipes[p] EXCEPT !.stages[i].ends = ends], 0))
    BY <2>1
  <2>3. pipes[p] \in Pipe /\ pipes[p].stages \in Seq(Stage)
    BY <1>7, <2>1
  <2> DEFINE t == WithEnds(pipes[p].stages, i, ends)
  <2>4. /\ t \in Seq(Stage)
        /\ \A j \in DOMAIN pipes[p].stages : j \in DOMAIN t /\ t[j].id = pipes[p].stages[j].id
    BY <2>3, UpdatedStage
  <2>5. [pipes[p] EXCEPT !.stages[i].ends = ends] = [pipes[p] EXCEPT !.stages = t]
    BY <2>3 DEF Pipe, WithEnds
  <2> HIDE DEF t
  <2>6. [pipes[p] EXCEPT !.stages = t] \in Pipe
           /\ Keeps(pipes[p], [pipes[p] EXCEPT !.stages = t], <<"StorePipe">>, 0)
    BY <2>3, <2>4, RestagedKeeps
  <2> QED BY <1>0, <1>5, <1>6, <2>1, <2>2, <2>5, <2>6
<1>11. CASE ReorderStages(u)
  <2>1. PICK p \in DOMAIN pipes :
           /\ pipes[p] # Gone
           /\ \E perm \in SetToSeqs({pipes[p].stages[i] : i \in DOMAIN pipes[p].stages}) :
                 Ask(u, Request(<<"StorePipe">>, 0, Gone, p, [pipes[p] EXCEPT !.stages = perm], 0))
           /\ UNCHANGED <<deals, pipes, stageIds, overtaken>>
    BY <1>11 DEF ReorderStages
  <2>2. PICK perm \in SetToSeqs({pipes[p].stages[i] : i \in DOMAIN pipes[p].stages}) :
           Ask(u, Request(<<"StorePipe">>, 0, Gone, p, [pipes[p] EXCEPT !.stages = perm], 0))
    BY <2>1
  <2>3. pipes[p] \in Pipe /\ pipes[p].stages \in Seq(Stage)
    BY <1>7, <2>1
  <2>4. /\ perm \in Seq(Stage)
        /\ \A j \in DOMAIN pipes[p].stages : \E k \in DOMAIN perm : perm[k].id = pipes[p].stages[j].id
    BY <2>2, <2>3, ReorderedStages
  <2>5. [pipes[p] EXCEPT !.stages = perm] \in Pipe
           /\ Keeps(pipes[p], [pipes[p] EXCEPT !.stages = perm], <<"StorePipe">>, 0)
    BY <2>3, <2>4, RestagedKeeps
  <2> QED BY <1>0, <1>5, <1>6, <2>1, <2>2, <2>5
<1>12. CASE DeleteStage(u)
  <2>1. PICK p \in DOMAIN pipes :
           /\ pipes[p] # Gone
           /\ \E i \in DOMAIN pipes[p].stages :
                 Ask(u, Request(<<"StageHasDeals", "StorePipe">>, 0, Gone, p,
                                [pipes[p] EXCEPT !.stages = RemoveAt(@, i)], pipes[p].stages[i].id))
           /\ UNCHANGED <<deals, pipes, stageIds, overtaken>>
    BY <1>12 DEF DeleteStage
  <2>2. PICK i \in DOMAIN pipes[p].stages :
           Ask(u, Request(<<"StageHasDeals", "StorePipe">>, 0, Gone, p,
                          [pipes[p] EXCEPT !.stages = RemoveAt(@, i)], pipes[p].stages[i].id))
    BY <2>1
  <2>3. pipes[p] \in Pipe /\ pipes[p].stages \in Seq(Stage)
    BY <1>7, <2>1
  <2> DEFINE t == RemoveAt(pipes[p].stages, i)
  <2>4. /\ t \in Seq(Stage)
        /\ \A j \in DOMAIN pipes[p].stages \ {i} : \E k \in DOMAIN t : t[k] = pipes[p].stages[j]
    BY <2>3, RemoveAtSteps
  <2>5. [pipes[p] EXCEPT !.stages = RemoveAt(@, i)] = [pipes[p] EXCEPT !.stages = t]
    BY <2>3 DEF Pipe
  <2> HIDE DEF t
  <2>6. [pipes[p] EXCEPT !.stages = t] \in Pipe
           /\ Keeps(pipes[p], [pipes[p] EXCEPT !.stages = t], <<"StageHasDeals", "StorePipe">>, pipes[p].stages[i].id)
    BY <2>3, <2>4, RestagedKeeps
  <2> QED BY <1>0, <1>5, <1>6, <2>1, <2>2, <2>5, <2>6
<1> QED BY <1>1, <1>2, <1>3, <1>4, <1>8, <1>9, <1>10, <1>11, <1>12 DEF Requests

-----------------------------------------------------------------------------
(* What is stored.                                                         *)

LEMMA StoredDeal ==
    ASSUME NEW ds, NEW ps, Documents(ds, ps), NEW i \in DOMAIN ds, NEW x,
           x # Gone => x \in SoundCard /\ ds[i] # Gone /\ x.pipe = ds[i].pipe
    PROVE  Documents([ds EXCEPT ![i] = x], ps) /\ Grow(ds, ps, [ds EXCEPT ![i] = x], ps)
<1> DEFINE es == [ds EXCEPT ![i] = x]
<1>1. ds \in Seq(SoundCard \cup {Gone}) /\ x \in SoundCard \cup {Gone} /\ i \in 1..Len(ds)
  BY LenProperties DEF Documents
<1>2. es \in Seq(SoundCard \cup {Gone})
  BY <1>1, ExceptSeq
<1>3. DOMAIN es = DOMAIN ds /\ \A j \in DOMAIN ds : es[j] = IF j = i THEN x ELSE ds[j]
  OBVIOUS
<1> HIDE DEF es
<1>4. ASSUME NEW j \in DOMAIN ds, es[j] # Gone PROVE ds[j] # Gone /\ es[j].pipe = ds[j].pipe
  BY <1>3, <1>4
<1>5. Documents(es, ps)
  BY <1>2, <1>3, <1>4 DEF Documents
<1>6. Grow(ds, ps, es, ps)
  BY <1>3, <1>4 DEF Grow
<1> QED BY <1>5, <1>6 DEF es

LEMMA InsertedDeal ==
    ASSUME NEW ds, NEW ps, Documents(ds, ps), NEW x \in SoundCard, x.pipe \in DOMAIN ps
    PROVE  /\ Documents(Append(ds, x), ps) /\ Grow(ds, ps, Append(ds, x), ps)
           /\ OnFile(Append(ds, x), Len(ds) + 1, x.pipe)
<1> DEFINE es == Append(ds, x)
<1>1. ds \in Seq(SoundCard \cup {Gone}) /\ x \in SoundCard \cup {Gone}
      /\ Len(ds) \in Nat /\ DOMAIN ds = 1..Len(ds)
  BY LenProperties DEF Documents
<1>2. /\ es \in Seq(SoundCard \cup {Gone}) /\ Len(es) = Len(ds) + 1
      /\ es[Len(ds) + 1] = x /\ \A j \in 1..Len(ds) : es[j] = ds[j]
  BY <1>1, AppendProperties
<1> HIDE DEF es
<1>3. DOMAIN es = 1..(Len(ds) + 1)
  BY <1>2, LenProperties
<1>4. \A j \in DOMAIN es : j \in DOMAIN ds \/ j = Len(ds) + 1
  BY <1>1, <1>3
<1>5. Len(ds) + 1 \in DOMAIN es /\ DOMAIN ds \subseteq DOMAIN es
  BY <1>1, <1>3
<1>6. Documents(es, ps)
  BY <1>1, <1>2, <1>4 DEF Documents
<1>7. Grow(ds, ps, es, ps)
  BY <1>1, <1>2, <1>5 DEF Grow
<1>8. OnFile(es, Len(ds) + 1, x.pipe)
  BY <1>2, <1>5 DEF OnFile
<1> QED BY <1>6, <1>7, <1>8 DEF es

\* Pipelines are changed one by one and made at the end.
LEMMA StoredPipes ==
    ASSUME NEW ds, NEW ps, Documents(ds, ps), NEW qs \in Seq(Pipe \cup {Gone}),
           DOMAIN ps \subseteq DOMAIN qs
    PROVE  Documents(ds, qs) /\ Grow(ds, ps, ds, qs)
BY DEF Documents, Grow

\* The deletions, and the requests that wait for their calls.
LEMMA RequestsFiled ==
    ASSUME Filed, NEW u \in Users \ Workers, NEW names, Requests(u, names), UNCHANGED eval
    PROVE  Filed'
<1>0. Documents(deals, pipes) /\ stageIds \in Nat /\ u \in Users /\ u \notin Workers
  BY DEF Filed
<1>1. CASE Asked(u)
  <2>1. PICK r : Ask(u, r) /\ Current(r) /\ stageIds' \in Nat /\ UNCHANGED <<deals, pipes, overtaken>>
    BY <1>1 DEF Asked
  <2> QED BY <2>1, AskFiled DEF Current
<1>2. ASSUME UNCHANGED <<stageIds, req>>, Documents(deals', pipes'),
             Grow(deals, pipes, deals', pipes'), req[u] = Gone
      PROVE  Filed'
  <2>1. Follow(u)
    BY <1>2 DEF Filed, Follow
  <2>2. stageIds' \in Nat /\ req'[u] = Gone /\ \A w \in Workers \ {u} : eval'[w] = eval[w]
    BY <1>0, <1>2
  <2> QED BY <1>0, <1>2, <2>1, <2>2, FiledStep
<1>3. CASE DeleteDeal(u)
  <2>1. PICK i \in DOMAIN deals : /\ req[u] = Gone /\ deals' = [deals EXCEPT ![i] = Gone]
                                  /\ UNCHANGED <<pipes, stageIds, req, overtaken>>
    BY <1>3 DEF DeleteDeal
  <2> QED BY <1>0, <1>2, <2>1, StoredDeal
<1>4. CASE DeletePipe(u)
  <2>1. PICK p \in DOMAIN pipes : /\ req[u] = Gone /\ pipes' = [pipes EXCEPT ![p] = Gone]
                                  /\ UNCHANGED <<deals, stageIds, req>>
    BY <1>4 DEF DeletePipe
  <2>2. pipes' \in Seq(Pipe \cup {Gone}) /\ DOMAIN pipes' = DOMAIN pipes
    BY <1>0, <2>1, ExceptSeq, LenProperties DEF Documents
  <2> QED BY <1>0, <1>2, <2>1, <2>2, StoredPipes
<1> QED BY <1>1, <1>3, <1>4, RequestsAsk

\* The request at hand, and the call it makes.
LEMMA AtHand ==
    ASSUME Filed, NEW u \in Users, NEW call, Calls(u, call)
    PROVE  /\ req[u] # Gone /\ GoodRequest(req[u], deals, pipes)
           /\ req[u].calls \in DealCalls \cup PipeCalls /\ Head(req[u].calls) = call
BY DEF Filed, Calls, GoodRequest

\* A request with another copy of its deal.
LEMMA RedealIsGood ==
    ASSUME NEW r, NEW ds, NEW ps, GoodRequest(r, ds, ps), r.calls \in DealCalls,
           NEW x \in SoundCard, x.pipe = r.p
    PROVE  LET f == [r EXCEPT !.deal = x]
           IN  /\ GoodRequest(f, ds, ps)
               /\ f.calls = r.calls /\ f.d = r.d /\ f.p = r.p /\ f.deal = x /\ f.behind = r.behind
<1> DEFINE f == [r EXCEPT !.deal = x]
<1>1. /\ f.calls = r.calls /\ f.d = r.d /\ f.deal = x /\ f.p = r.p
      /\ f.pipe = r.pipe /\ f.arg = r.arg /\ f.behind = r.behind
      /\ f \in [calls : DealCalls \cup PipeCalls, d : {f.d}, deal : {f.deal}, p : {f.p},
                pipe : {f.pipe}, arg : {f.arg}, behind : BOOLEAN]
  BY DEF GoodRequest
<1> HIDE DEF f
<1>2. r.calls \notin PipeCalls
  BY CallSteps
<1>3. GoodRequest(f, ds, ps)
  BY <1>1, <1>2 DEF GoodRequest
<1> QED BY <1>1, <1>3 DEF f

LEMMA InsertFiled ==
    ASSUME Filed, NEW u \in Users, Insert(u), UNCHANGED eval PROVE Filed'
<1> DEFINE r == req[u] f == [r EXCEPT !.d = Len(deals) + 1]
<1>1. r # Gone /\ GoodRequest(r, deals, pipes) /\ r.calls \in Inserts /\ r.calls \in DealCalls
  <2>1. r # Gone /\ GoodRequest(r, deals, pipes) /\ r.calls \in Inserts
    BY AtHand, CallSteps DEF Insert
  <2> QED BY <2>1 DEF Inserts, DealCalls
<1>2. r.deal \in SoundCard /\ r.deal.pipe = r.p /\ r.p \in DOMAIN pipes
  BY <1>1 DEF GoodRequest
<1>3. deals' = Append(deals, r.deal) /\ Moves(u, Done(f), r.p) /\ UNCHANGED <<pipes, stageIds>>
  BY DEF Insert
<1>4. Documents(deals, pipes)
  BY DEF Filed
<1>5. /\ Documents(deals', pipes') /\ Grow(deals, pipes, deals', pipes')
      /\ OnFile(deals', Len(deals) + 1, r.p)
  BY <1>2, <1>3, <1>4, InsertedDeal
<1>6. /\ f.calls = r.calls /\ f.d = Len(deals) + 1 /\ f.deal = r.deal /\ f.p = r.p
      /\ f.pipe = r.pipe /\ f.arg = r.arg /\ f.behind = r.behind
      /\ f \in [calls : DealCalls \cup PipeCalls, d : {f.d}, deal : {f.deal}, p : {f.p},
                pipe : {f.pipe}, arg : {f.arg}, behind : BOOLEAN]
  BY <1>1 DEF GoodRequest
<1> HIDE DEF f
<1>7. GoodRequest(f, deals', pipes')
  <2>1. r.calls \notin PipeCalls
    BY <1>1, CallSteps
  <2> QED BY <1>1, <1>2, <1>3, <1>6, <2>1 DEF GoodRequest
<1>8. Follow(u) /\ req'[u] = Done(f)
  BY <1>3, MovesFollow
<1>9. ASSUME req'[u] # Gone PROVE GoodRequest(req'[u], deals', pipes') /\ req'[u].p = req[u].p
  BY <1>5, <1>6, <1>7, <1>8, <1>9, DoneIsGood
<1> QED BY <1>1, <1>3, <1>5, <1>8, <1>9, CallFiled

LEMMA LinkFiled ==
    ASSUME Filed, NEW u \in Users, Link(u), UNCHANGED eval PROVE Filed'
<1> DEFINE r == req[u] d == deals[r.d]
<1>1. r # Gone /\ GoodRequest(r, deals, pipes) /\ r.calls = <<"Link", "StoreDeal">>
  BY AtHand, CallSteps DEF Link
<1>2. r.calls \in DealCalls /\ r.calls \notin Inserts
  BY <1>1 DEF Inserts, DealCalls
<1>3. r.p \in DOMAIN pipes /\ OnFile(deals, r.d, r.p) /\ Documents(deals, pipes)
  BY <1>1, <1>2 DEF GoodRequest, Filed
<1>4. /\ Goes(u, IF d = Gone \/ d.linked THEN Gone ELSE Done([r EXCEPT !.deal = [d EXCEPT !.linked = TRUE]]))
      /\ UNCHANGED <<deals, pipes, stageIds>>
  BY DEF Link
<1>5. /\ Documents(deals', pipes') /\ Grow(deals, pipes, deals', pipes')
  BY <1>4, NothingStored
<1>6. Follow(u) /\ req'[u] = IF d = Gone \/ d.linked THEN Gone
                             ELSE Done([r EXCEPT !.deal = [d EXCEPT !.linked = TRUE]])
  BY <1>4, GoesFollow
<1>7. ASSUME req'[u] # Gone PROVE GoodRequest(req'[u], deals', pipes') /\ req'[u].p = req[u].p
  <2> DEFINE x == [d EXCEPT !.linked = TRUE] f == [r EXCEPT !.deal = x]
  <2>1. d # Gone /\ req'[u] = Done(f)
    BY <1>6, <1>7
  <2>2. d \in SoundCard /\ d.pipe = r.p
    BY <1>3, <2>1, DealThere DEF OnFile
  <2>3. x \in SoundCard /\ x.pipe = r.p
    BY <2>2 DEF SoundCard, Deal, Sound
  <2> HIDE DEF x
  <2>4. GoodRequest(f, deals, pipes) /\ f.calls = r.calls /\ f.p = r.p
    BY <1>1, <1>2, <2>3, RedealIsGood
  <2> HIDE DEF f
  <2>5. GoodRequest(Done(f), deals, pipes) /\ Done(f).p = f.p
    BY <1>2, <1>7, <2>1, <2>4, DoneIsGood
  <2> QED BY <1>4, <2>1, <2>4, <2>5
<1> QED BY <1>1, <1>4, <1>5, <1>6, <1>7, CallFiled

LEMMA EnterFiled ==
    ASSUME Filed, NEW u \in Users, Enter(u), UNCHANGED eval PROVE Filed'
<1> DEFINE r == req[u] p == pipes[r.p]
           x == IF r.arg = 0 THEN Lost(r.deal, p) ELSE ApplyStage(r.deal, StageOf(p, r.arg))
           f == [r EXCEPT !.deal = x]
<1>1. /\ r # Gone /\ GoodRequest(r, deals, pipes)
      /\ r.calls \in {<<"Enter", "StoreDeal">>, <<"Enter", "StoreDeal", "NextDeal">>}
  BY AtHand, CallSteps DEF Enter
<1>2. r.calls \in DealCalls /\ r.calls \notin Inserts
  BY <1>1 DEF Inserts, DealCalls
<1>3. r.p \in DOMAIN pipes /\ r.deal \in SoundCard /\ r.deal.pipe = r.p /\ Documents(deals, pipes)
  BY <1>1, <1>2 DEF GoodRequest, Filed
<1>4. /\ Goes(u, IF p = Gone \/ (r.arg # 0 /\ r.arg \notin IdsOf(p)) THEN Gone ELSE Done(f))
      /\ UNCHANGED <<deals, pipes, stageIds>>
  <2>1. f = [r EXCEPT !.deal = IF r.arg = 0 THEN Lost(@, p) ELSE ApplyStage(@, StageOf(p, r.arg))]
    BY <1>1 DEF GoodRequest
  <2> QED BY <2>1 DEF Enter
<1>5. /\ Documents(deals', pipes') /\ Grow(deals, pipes, deals', pipes')
  BY <1>4, NothingStored
<1>6. Follow(u) /\ req'[u] = IF p = Gone \/ (r.arg # 0 /\ r.arg \notin IdsOf(p)) THEN Gone ELSE Done(f)
  BY <1>4, GoesFollow
<1>7. ASSUME req'[u] # Gone PROVE GoodRequest(req'[u], deals', pipes') /\ req'[u].p = req[u].p
  <2>1. p # Gone /\ (r.arg = 0 \/ r.arg \in IdsOf(p)) /\ req'[u] = Done(f)
    BY <1>6, <1>7
  <2>2. p \in Pipe
    BY <1>3, <2>1, PipeThere
  <2>3. x \in SoundCard /\ x.pipe = r.p
    <3>1. CASE r.arg = 0
      BY <1>3, <2>2, <3>1, LostSound
    <3>2. CASE r.arg # 0
      <4>1. StageOf(p, r.arg) \in Stage
        BY <2>1, <2>2, <3>2, StageOfSteps
      <4> QED BY <1>3, <3>2, <4>1, ApplyStageSound
    <3> QED BY <3>1, <3>2
  <2> HIDE DEF x
  <2>4. GoodRequest(f, deals, pipes) /\ f.calls = r.calls /\ f.p = r.p
    BY <1>1, <1>2, <2>3, RedealIsGood
  <2> HIDE DEF f
  <2>5. GoodRequest(Done(f), deals, pipes) /\ Done(f).p = f.p
    BY <1>2, <1>7, <2>1, <2>4, DoneIsGood
  <2> QED BY <1>4, <2>1, <2>4, <2>5
<1> QED BY <1>1, <1>4, <1>5, <1>6, <1>7, CallFiled

LEMMA StoreDealFiled ==
    ASSUME Filed, NEW u \in Users, StoreDeal(u), UNCHANGED eval PROVE Filed'
<1> DEFINE r == req[u] x == IF deals[r.d] = Gone THEN Gone ELSE r.deal
<1>1. /\ r # Gone /\ GoodRequest(r, deals, pipes)
      /\ r.calls \in {<<"StoreDeal">>, <<"StoreDeal", "NextDeal">>}
  BY AtHand, CallSteps DEF StoreDeal
<1>2. r.calls \in DealCalls /\ r.calls \notin Inserts
  BY <1>1 DEF Inserts, DealCalls
<1>3. /\ r.deal \in SoundCard /\ r.deal.pipe = r.p /\ OnFile(deals, r.d, r.p) /\ Documents(deals, pipes)
      /\ r.d \in DOMAIN deals
  BY <1>1, <1>2 DEF GoodRequest, Filed, OnFile
<1>4. /\ deals' = [deals EXCEPT ![r.d] = x]
      /\ Moves(u, IF deals[r.d] = Gone THEN Gone ELSE Done(r), r.p)
      /\ UNCHANGED <<pipes, stageIds>>
  BY DEF StoreDeal
<1>5. x # Gone => x \in SoundCard /\ deals[r.d] # Gone /\ x.pipe = deals[r.d].pipe
  BY <1>3 DEF OnFile
<1> HIDE DEF x
<1>6. /\ Documents(deals', pipes') /\ Grow(deals, pipes, deals', pipes')
  BY <1>3, <1>4, <1>5, StoredDeal
<1>7. Follow(u) /\ req'[u] = IF deals[r.d] = Gone THEN Gone ELSE Done(r)
  BY <1>4, MovesFollow
<1>8. ASSUME req'[u] # Gone PROVE GoodRequest(req'[u], deals', pipes') /\ req'[u].p = req[u].p
  <2>1. GoodRequest(Done(r), deals, pipes) /\ Done(r).p = r.p
    BY <1>1, <1>2, <1>7, <1>8, DoneIsGood
  <2> QED BY <1>6, <1>7, <1>8, <2>1, GoodKept
<1> QED BY <1>1, <1>4, <1>6, <1>7, <1>8, CallFiled

\* The calls of a request on a pipeline.
LEMMA PipeCallsFiled ==
    ASSUME Filed, NEW u \in Users, UNCHANGED eval,
           InsertPipe(u) \/ ClearDefault(u) \/ StageHasDeals(u) \/ StorePipe(u)
    PROVE  Filed'
<1> DEFINE r == req[u]
<1>0. Documents(deals, pipes) /\ pipes \in Seq(Pipe \cup {Gone}) /\ DOMAIN pipes = 1..Len(pipes)
  BY LenProperties DEF Filed, Documents
<1>1. /\ r # Gone /\ GoodRequest(r, deals, pipes) /\ r.calls \in PipeCalls
      /\ InsertPipe(u) => r.calls = <<"InsertPipe">>
      /\ ~InsertPipe(u) => r.calls # <<"InsertPipe">>
  <2>1. CASE InsertPipe(u)
    <3>1. r # Gone /\ GoodRequest(r, deals, pipes) /\ r.calls = <<"InsertPipe">>
      BY <2>1, AtHand, CallSteps DEF InsertPipe
    <3> QED BY <2>1, <3>1 DEF PipeCalls
  <2>2. CASE ClearDefault(u)
    <3>1. r # Gone /\ GoodRequest(r, deals, pipes) /\ r.calls = <<"ClearDefault", "StorePipe">>
      BY <2>2, AtHand, CallSteps DEF ClearDefault
    <3>2. ~InsertPipe(u)
      BY <2>2 DEF InsertPipe, ClearDefault, Calls
    <3> QED BY <3>1, <3>2 DEF PipeCalls
  <2>3. CASE StageHasDeals(u)
    <3>1. r # Gone /\ GoodRequest(r, deals, pipes) /\ r.calls = <<"StageHasDeals", "StorePipe">>
      BY <2>3, AtHand, CallSteps DEF StageHasDeals
    <3>2. ~InsertPipe(u)
      BY <2>3 DEF InsertPipe, StageHasDeals, Calls
    <3> QED BY <3>1, <3>2 DEF PipeCalls
  <2>4. CASE StorePipe(u)
    <3>1. r # Gone /\ GoodRequest(r, deals, pipes) /\ r.calls = <<"StorePipe">>
      BY <2>4, AtHand, CallSteps DEF StorePipe
    <3>2. ~InsertPipe(u)
      BY <2>4 DEF InsertPipe, StorePipe, Calls
    <3> QED BY <3>1, <3>2 DEF PipeCalls
  <2> QED BY <2>1, <2>2, <2>3, <2>4
<1>2. r.pipe \in Pipe /\ (~InsertPipe(u) => r.p \in DOMAIN pipes) /\ r.calls \notin Inserts
  <2>1. r.calls \notin DealCalls
    BY <1>1, CallSteps
  <2> QED BY <1>1, <2>1 DEF GoodRequest, Inserts, DealCalls
<1>3. Done(r) # Gone => GoodRequest(Done(r), deals, pipes) /\ Done(r).p = r.p
  BY <1>1, <1>2, DoneIsGood
<1>4. ASSUME Documents(deals', pipes'), Grow(deals, pipes, deals', pipes'), UNCHANGED stageIds,
             Follow(u), req'[u] = Gone \/ req'[u] = Done(r)
      PROVE  Filed'
  <2>1. ASSUME req'[u] # Gone PROVE GoodRequest(req'[u], deals', pipes') /\ req'[u].p = req[u].p
    BY <1>3, <1>4, <2>1, GoodKept
  <2> QED BY <1>1, <1>4, <2>1, CallFiled
<1>5. CASE InsertPipe(u)
  <2>1. pipes' = Append(pipes, r.pipe) /\ Goes(u, Done(r)) /\ UNCHANGED <<deals, stageIds>>
    BY <1>5 DEF InsertPipe
  <2>2. r.pipe \in Pipe \cup {Gone}
    BY <1>2
  <2>3. pipes' \in Seq(Pipe \cup {Gone}) /\ Len(pipes') = Len(pipes) + 1
    BY <1>0, <2>1, <2>2, AppendProperties
  <2>4. DOMAIN pipes \subseteq DOMAIN pipes'
    BY <1>0, <2>3, LenProperties
  <2> QED BY <1>0, <1>4, <2>1, <2>3, <2>4, StoredPipes, GoesFollow
<1>6. CASE ClearDefault(u)
  <2>1. /\ pipes' = [p \in DOMAIN pipes |->
                       IF p = r.p \/ pipes[p] = Gone THEN pipes[p]
                       ELSE [pipes[p] EXCEPT !.default = FALSE]]
        /\ Goes(u, Done(r)) /\ UNCHANGED <<deals, stageIds>>
    BY <1>6 DEF ClearDefault
  <2>2. ASSUME NEW p \in DOMAIN pipes PROVE pipes'[p] \in Pipe \cup {Gone}
    <3>1. ASSUME pipes[p] # Gone PROVE pipes[p] \in Pipe /\ [pipes[p] EXCEPT !.default = FALSE] \in Pipe
      BY <1>0, <3>1, PipeThere, FlaggedIsPipe
    <3> QED BY <2>1, <3>1
  <2>3. pipes' \in [1..Len(pipes) -> Pipe \cup {Gone}] /\ Len(pipes) \in Nat
    BY <1>0, <2>1, <2>2, LenProperties
  <2>4. pipes' \in Seq(Pipe \cup {Gone}) /\ DOMAIN pipes \subseteq DOMAIN pipes'
    BY <1>0, <2>3, SeqDef
  <2> QED BY <1>0, <1>4, <2>1, <2>4, StoredPipes, GoesFollow
<1>7. CASE StageHasDeals(u)
  <2> DEFINE q == IF \E i \in DOMAIN deals :
                       deals[i] # Gone /\ deals[i].pipe = req[u].p /\ deals[i].stage = req[u].arg
                  THEN Gone ELSE Done(req[u])
  <2>1. Goes(u, q) /\ UNCHANGED <<deals, pipes, stageIds>> /\ (q = Gone \/ q = Done(r))
    BY <1>7 DEF StageHasDeals
  <2> HIDE DEF q
  <2> QED BY <1>4, <2>1, NothingStored, GoesFollow
<1>8. CASE StorePipe(u)
  <2> DEFINE n == IF pipes[r.p] = Gone THEN Gone ELSE r.pipe
  <2>1. /\ pipes' = [pipes EXCEPT ![r.p] = n]
        /\ Moves(u, Done(r), r.p) /\ UNCHANGED <<deals, stageIds>>
    BY <1>8 DEF StorePipe
  <2>2. n \in Pipe \cup {Gone}
    BY <1>2
  <2> HIDE DEF n
  <2>3. ~InsertPipe(u)
    BY <1>8 DEF InsertPipe, StorePipe, Calls
  <2>4. pipes' \in Seq(Pipe \cup {Gone}) /\ DOMAIN pipes \subseteq DOMAIN pipes'
    BY <1>0, <1>2, <2>1, <2>2, <2>3, ExceptSeq
  <2> QED BY <1>0, <1>4, <2>1, <2>4, StoredPipes, MovesFollow
<1> QED BY <1>5, <1>6, <1>7, <1>8

-----------------------------------------------------------------------------
(* The evaluations that move deals.                                        *)

\* The copies left are of deals that are to be moved.
LEMMA LeftSteps ==
    ASSUME NEW ds, NEW i, NEW a, NEW j \in DOMAIN Left(ds, i, a), Left(ds, i, a)[j] # Gone
    PROVE  j \in DOMAIN ds /\ Left(ds, i, a)[j] = ds[j] /\ Movable(ds[j], a)
BY DEF Left

LEMMA FindDealsFiled ==
    ASSUME Shaped, Filed, NEW w \in Workers, FindDeals(w), req' # req PROVE Filed'
<1> DEFINE a == Action(w)
<1>0. Documents(deals, pipes) /\ stageIds \in Nat /\ w \in Users /\ Shape(eval[w])
  BY AutomationAssumption DEF Filed, Shaped
<1>1. UNCHANGED <<deals, pipes, stageIds, overtaken>>
  BY DEF FindDeals
<1>2. PICK i \in DOMAIN deals :
         /\ First(deals, i, a)
         /\ Goes(w, Request(<<"Enter", "StoreDeal", "NextDeal">>, i, deals[i],
                            a.arg.pipe, Gone, a.arg.stage))
         /\ To(w, [eval[w] EXCEPT !.at = "moving", !.deals = Left(deals, i, a)])
  BY DEF FindDeals
<1> DEFINE r == Request(<<"Enter", "StoreDeal", "NextDeal">>, i, deals[i], a.arg.pipe, Gone, a.arg.stage)
           f == [eval[w] EXCEPT !.at = "moving", !.deals = Left(deals, i, a)]
<1>3. deals[i] # Gone /\ deals[i].pipe = a.arg.pipe
  BY <1>2 DEF First, Movable
<1>4. deals[i] \in SoundCard /\ deals[i].pipe \in DOMAIN pipes /\ OnFile(deals, i, deals[i].pipe)
  BY <1>0, <1>3, DealThere
<1>5. <<"Enter", "StoreDeal", "NextDeal">> \in DealCalls
  BY DEF DealCalls
<1>6. GoodRequest(r, deals, pipes)
  BY <1>3, <1>4, <1>5, DealRequest
<1>7. r.p = a.arg.pipe
  BY DEF Request
<1>8. f.at = "moving" /\ f.deals = Left(deals, i, a)
  BY <1>0 DEF Shape
<1>9. Follow(w) /\ req'[w] = r
  BY <1>0, <1>2, GoesFollow
<1>10. eval'[w] = f /\ \A v \in Workers \ {w} : eval'[v] = eval[v]
  BY <1>2, ToSteps
<1> HIDE DEF r, f, a
<1>11. GoodCopies(f, r, deals)
  <2>1. ASSUME NEW j \in DOMAIN Left(deals, i, a), Left(deals, i, a)[j] # Gone
        PROVE  /\ Left(deals, i, a)[j] \in SoundCard /\ Left(deals, i, a)[j].pipe = a.arg.pipe
               /\ OnFile(deals, j, a.arg.pipe)
    <3>1. j \in DOMAIN deals /\ Left(deals, i, a)[j] = deals[j] /\ Movable(deals[j], a)
      BY <2>1, LeftSteps
    <3> QED BY <1>0, <3>1, DealThere DEF Movable
  <2> QED BY <1>7, <1>8, <2>1 DEF GoodCopies
<1>12. Documents(deals', pipes') /\ Grow(deals, pipes, deals', pipes')
  BY <1>1, NothingStored
<1>13. GoodRequest(req'[w], deals', pipes') /\ GoodCopies(eval'[w], req'[w], deals')
  BY <1>1, <1>6, <1>9, <1>10, <1>11
<1>14. stageIds' \in Nat
  BY <1>0, <1>1
<1> QED BY <1>0, <1>9, <1>10, <1>12, <1>13, <1>14, FiledStep

LEMMA NextDealFiled ==
    ASSUME Shaped, Filed, NEW w \in Workers, NextDeal(w) PROVE Filed'
<1> DEFINE a == Action(w) e == eval[w] ds == e.deals
<1>0. Documents(deals, pipes) /\ stageIds \in Nat /\ w \in Users /\ Shape(e)
  BY AutomationAssumption DEF Filed, Shaped
<1>1. UNCHANGED <<deals, pipes, stageIds, overtaken>>
  BY DEF NextDeal
<1>2. req[w] # Gone /\ GoodRequest(req[w], deals, pipes) /\ req[w].calls = <<"NextDeal">>
  BY <1>0, AtHand, CallSteps DEF NextDeal
<1>3. req[w].calls \in DealCalls
  BY <1>2 DEF DealCalls
<1>4. GoodCopies(e, req[w], deals)
  BY DEF Filed
<1>5. Documents(deals', pipes') /\ Grow(deals, pipes, deals', pipes') /\ stageIds' \in Nat
  BY <1>0, <1>1, NothingStored
<1>6. CASE Goes(w, Gone) /\ UNCHANGED eval
  <2>1. Follow(w) /\ req'[w] = Gone
    BY <1>0, <1>6, GoesFollow
  <2>2. GoodCopies(eval'[w], req'[w], deals')
    BY <2>1 DEF GoodCopies
  <2> QED BY <1>0, <1>5, <1>6, <2>1, <2>2, FiledStep
<1>7. ASSUME NEW i \in DOMAIN ds, First(ds, i, a),
             Goes(w, [req[w] EXCEPT !.calls = <<"Enter", "StoreDeal", "NextDeal">>,
                                    !.d = i, !.deal = ds[i]]),
             To(w, [e EXCEPT !.deals = Left(ds, i, a)])
      PROVE  Filed'
  <2> DEFINE r == [req[w] EXCEPT !.calls = <<"Enter", "StoreDeal", "NextDeal">>, !.d = i, !.deal = ds[i]]
             f == [e EXCEPT !.deals = Left(ds, i, a)]
  <2>1. ds[i] # Gone
    BY <1>7 DEF First, Movable
  <2>2. ds[i] \in SoundCard /\ ds[i].pipe = req[w].p /\ OnFile(deals, i, req[w].p)
    BY <1>2, <1>4, <2>1 DEF GoodCopies
  <2>3. <<"Enter", "StoreDeal", "NextDeal">> \in DealCalls
    BY DEF DealCalls
  <2>4. /\ r.calls = <<"Enter", "StoreDeal", "NextDeal">> /\ r.d = i /\ r.deal = ds[i] /\ r.p = req[w].p
        /\ r \in [calls : DealCalls \cup PipeCalls, d : {r.d}, deal : {r.deal}, p : {r.p},
                  pipe : {r.pipe}, arg : {r.arg}, behind : BOOLEAN]
    BY <1>2, <2>3 DEF GoodRequest
  <2>5. f.at = e.at /\ f.deals = Left(ds, i, a)
    BY <1>0 DEF Shape
  <2>6. Follow(w) /\ req'[w] = r
    BY <1>0, <1>7, GoesFollow
  <2>7. eval'[w] = f /\ \A v \in Workers \ {w} : eval'[v] = eval[v]
    BY <1>7, ToSteps
  <2> HIDE DEF r, f, a
  <2>8. GoodRequest(r, deals, pipes)
    <3>1. r.calls \notin PipeCalls /\ r.p \in DOMAIN pipes
      BY <1>2, <1>3, <2>3, <2>4, CallSteps DEF GoodRequest
    <3> QED BY <2>2, <2>4, <3>1 DEF GoodRequest
  <2>9. GoodCopies(f, r, deals)
    <3>1. ASSUME NEW j \in DOMAIN Left(ds, i, a), Left(ds, i, a)[j] # Gone
          PROVE  /\ Left(ds, i, a)[j] \in SoundCard /\ Left(ds, i, a)[j].pipe = req[w].p
                 /\ OnFile(deals, j, req[w].p)
      <4>1. j \in DOMAIN ds /\ Left(ds, i, a)[j] = ds[j] /\ ds[j] # Gone
        BY <3>1, LeftSteps
      <4> QED BY <1>2, <1>4, <4>1 DEF GoodCopies
    <3> QED BY <1>2, <1>4, <2>4, <2>5, <3>1 DEF GoodCopies
  <2>10. GoodRequest(req'[w], deals', pipes') /\ GoodCopies(eval'[w], req'[w], deals')
    BY <1>1, <2>6, <2>7, <2>8, <2>9
  <2> QED BY <1>0, <1>5, <2>6, <2>7, <2>10, FiledStep
<1> QED BY <1>6, <1>7 DEF NextDeal

LEMMA EvaluateFiled ==
    ASSUME Shaped, Filed, NEW w \in Workers, Evaluate(w) PROVE Filed'
<1>0. w \in Users /\ \A v \in Workers \ {w} : eval'[v] = eval[v]
  BY AutomationAssumption, TurnSteps DEF Turn
<1>1. ASSUME UNCHANGED <<deals, pipes, stageIds>>, Follow(w), req'[w] = Gone
      PROVE  Filed'
  <2>1. Documents(deals', pipes') /\ Grow(deals, pipes, deals', pipes')
    BY <1>1, NothingStored
  <2>2. stageIds' \in Nat /\ GoodCopies(eval'[w], req'[w], deals')
    BY <1>1 DEF Filed, GoodCopies
  <2> QED BY <1>0, <1>1, <2>1, <2>2, FiledStep
<1>2. ASSUME UNCHANGED crm, eval[w].at # "moving" \/ req[w] = Gone PROVE Filed'
  <2>1. req[w] = Gone
    BY <1>2 DEF Filed, GoodCopies
  <2>2. Follow(w) /\ req'[w] = Gone
    BY <1>2, <2>1 DEF Filed, Follow, crm
  <2> QED BY <1>1, <1>2, <2>2 DEF crm
<1>3. CASE FindDeals(w)
  <2>1. CASE req' = req
    <3>1. UNCHANGED crm /\ eval[w].at # "moving"
      BY <1>3, <2>1 DEF FindDeals, At, crm
    <3> QED BY <1>2, <3>1
  <2> QED BY <1>3, <2>1, FindDealsFiled
<1>4. CASE Fail(w)
  <2>1. Goes(w, Gone) /\ UNCHANGED <<deals, pipes, stageIds>>
    BY <1>4 DEF Fail
  <2> QED BY <1>0, <1>1, <2>1, GoesFollow
<1>5. CASE Moved(w)
  BY <1>2, <1>5 DEF Moved
<1>6. CASE Take(w) \/ FirstHydrate(w) \/ Rehydrate(w) \/ Claim(w) \/ RedisDown(w) \/ Act(w)
  <2>1. UNCHANGED crm /\ eval[w].at # "moving"
    BY <1>6 DEF Take, FirstHydrate, Rehydrate, Hydrate, Claim, RedisDown, Act, At
  <2> QED BY <1>2, <2>1
<1>7. CASE Incr(w) \/ Expire(w) \/ Load(w) \/ Create(w) \/ Store(w)
  <2>1. UNCHANGED crm /\ eval[w].at # "moving"
    BY <1>7 DEF Incr, Expire, Load, Create, Store, At
  <2> QED BY <1>2, <2>1
<1> QED BY <1>3, <1>4, <1>5, <1>6, <1>7, NextDealFiled DEF Evaluate

LEMMA FiledSteps == Shaped /\ Filed /\ [Next]_vars => Filed'
<1> SUFFICES ASSUME Shaped, Filed, [Next]_vars PROVE Filed'
  OBVIOUS
<1>1. ASSUME UNCHANGED crm,
             \A w \in Workers : eval[w].at = "moving" => eval'[w] = eval[w]
      PROVE  Filed'
  <2>1. \A w \in Workers : GoodCopies(eval'[w], req[w], deals)
    BY <1>1 DEF Filed, GoodCopies
  <2> QED BY <1>1, <2>1 DEF Filed, crm
<1>2. CASE WindowEnds
  <2>1. UNCHANGED crm /\ \A w \in Workers : eval[w].at = "moving" => eval'[w] = eval[w]
    BY <1>2 DEF WindowEnds
  <2> QED BY <1>1, <2>1
<1>3. CASE UserWorks
  <2>1. UNCHANGED eval
    BY <1>3 DEF UserWorks, rules
  <2>2. ASSUME NEW u \in Users \ Workers, Requests(u, load.requests) PROVE Filed'
    BY <2>1, <2>2, RequestsFiled
  <2>3. ASSUME NEW u \in Users, Proceed(u) PROVE Filed'
    BY <2>1, <2>3, InsertFiled, LinkFiled, EnterFiled, StoreDealFiled, PipeCallsFiled DEF Proceed
  <2> QED BY <1>3, <2>2, <2>3 DEF UserWorks
<1>4. CASE MessageArrives \/ AgentCloses \/ AgentResolves \/ AgentReopens \/ ManageRule \/ ClaimEnds
  <2>1. UNCHANGED crm /\ UNCHANGED eval
    BY <1>4 DEF MessageArrives, AgentCloses, AgentResolves, AgentReopens, ManageRule, Happens,
       ClaimEnds
  <2> QED BY <1>1, <2>1
<1>5. CASE UNCHANGED vars
  BY <1>1, <1>5 DEF vars, rules
<1> QED BY <1>2, <1>3, <1>4, <1>5, EvaluateFiled DEF Next

LEMMA FiledHolds == Spec => [](Shaped /\ Filed)
<1>1. Init => Filed
  <2> SUFFICES ASSUME Init PROVE Filed
    OBVIOUS
  <2> DEFINE d == [NewDeal(1, 0) EXCEPT !.stage = 1, !.linked = TRUE]
             p == [default |-> TRUE, stages |-> <<[id |-> 1, ends |-> {}], [id |-> 2, ends |-> {"won"}]>>]
  <2>1. deals = <<d>> /\ pipes = <<p>> /\ stageIds = 2 /\ req = [u \in Users |-> Gone]
    BY DEF Init, CrmInit
  <2>2. d \in SoundCard /\ d.pipe = 1
    <3>1. 0 \in Nat /\ <<>> \in Seq(Nat)
      BY EmptySeq
    <3> QED BY <3>1 DEF NewDeal, SoundCard, Deal, Sound
  <2>3. p \in Pipe
    <3>1. [id |-> 1, ends |-> {}] \in Stage /\ [id |-> 2, ends |-> {"won"}] \in Stage
      BY DEF Stage, Ends
    <3> QED BY <3>1 DEF Pipe
  <2> HIDE DEF d, p
  <2>4. /\ <<d>> \in Seq(SoundCard \cup {Gone}) /\ DOMAIN <<d>> = {1} /\ <<d>>[1] = d
        /\ <<p>> \in Seq(Pipe \cup {Gone}) /\ DOMAIN <<p>> = {1}
    BY <2>2, <2>3
  <2>5. Documents(deals, pipes)
    BY <2>1, <2>2, <2>4 DEF Documents
  <2>6. \A w \in Workers : w \in Users
    BY AutomationAssumption
  <2> QED BY <2>1, <2>5, <2>6 DEF Filed, GoodCopies
<1> QED BY <1>1, FiledSteps, ShapedSteps, TracedHold, PTL DEF Spec

\* A deal is sound whoever stored it last (deal.go, ApplyStage and RecalcValue;
\* deal_service.go): under any interleaving of requests and rules that store
\* copies they read earlier it has a closing date exactly while it is won or
\* lost, and with product lines its value is their sum.
THEOREM DealsAreSound == Spec => []DealSound
<1>1. Filed => DealSound
  <2> SUFFICES ASSUME Filed, NEW i \in DOMAIN deals, deals[i] # Gone PROVE Sound(deals[i])
    BY DEF DealSound, Sound
  <2>1. deals[i] \in SoundCard
    BY DealThere DEF Filed
  <2> QED BY <2>1 DEF SoundCard
<1> QED BY <1>1, FiledHolds, PTL

-----------------------------------------------------------------------------
(* Cards stay in columns.                                                  *)

\* A request that was not overtaken relies on columns that are there, and
\* takes none away that a card is in.
Relies(r, ds, ps, ov) ==
    ~r.behind /\ r.p \notin ov =>
        /\ r.calls \in DealCalls => Column(ps, r.deal.stage, r.p)
        /\ r.calls \in PipeCalls =>
              \A i \in DOMAIN ds : ds[i] # Gone /\ ds[i].pipe = r.p =>
                  \/ ds[i].stage \in IdsOf(r.pipe)
                  \/ r.calls = <<"StageHasDeals", "StorePipe">> /\ ds[i].stage = r.arg

\* So do the copies an evaluation has yet to move.
Moving(e, r, ps, ov) ==
    r # Gone /\ ~r.behind /\ r.p \notin ov =>
        \A i \in DOMAIN e.deals : e.deals[i] # Gone => Column(ps, e.deals[i].stage, r.p)

Placed ==
    /\ \A p \in DOMAIN pipes : p \notin overtaken => pipes[p] # Gone
    /\ \A i \in DOMAIN deals : deals[i] # Gone /\ deals[i].pipe \notin overtaken =>
          Column(pipes, deals[i].stage, deals[i].pipe)
    /\ \A u \in Users : req[u] # Gone => Relies(req[u], deals, pipes, overtaken)
    /\ \A w \in Workers : Moving(eval[w], req[w], pipes, overtaken)

\* Outside the pipelines P a step takes no column away and moves no card.
Spares(P) ==
    /\ overtaken \subseteq overtaken'
    /\ \A p \in DOMAIN pipes : p \in DOMAIN pipes' /\ (p \notin P /\ pipes[p] # Gone =>
          pipes'[p] # Gone /\ IdsOf(pipes'[p]) = IdsOf(pipes[p]))
    /\ \A i \in DOMAIN deals' : deals'[i] # Gone /\ deals'[i].pipe \notin P =>
          /\ i \in DOMAIN deals /\ deals[i] # Gone
          /\ deals'[i].pipe = deals[i].pipe /\ deals'[i].stage = deals[i].stage

LEMMA ColumnSpared ==
    ASSUME NEW P, Spares(P), NEW s, NEW p, p \notin P, Column(pipes, s, p)
    PROVE  Column(pipes', s, p)
BY DEF Spares, Column

LEMMA ReliesSpared ==
    ASSUME NEW P, Spares(P), NEW r, Relies(r, deals, pipes, overtaken), r.p \notin P
    PROVE  Relies(r, deals', pipes', overtaken')
<1> SUFFICES ASSUME ~r.behind, r.p \notin overtaken'
             PROVE  /\ r.calls \in DealCalls => Column(pipes', r.deal.stage, r.p)
                    /\ r.calls \in PipeCalls =>
                          \A i \in DOMAIN deals' : deals'[i] # Gone /\ deals'[i].pipe = r.p =>
                              \/ deals'[i].stage \in IdsOf(r.pipe)
                              \/ r.calls = <<"StageHasDeals", "StorePipe">> /\ deals'[i].stage = r.arg
  BY DEF Relies
<1>1. r.p \notin overtaken
  BY DEF Spares
<1>2. ASSUME r.calls \in DealCalls PROVE Column(pipes', r.deal.stage, r.p)
  BY <1>1, <1>2, ColumnSpared DEF Relies
<1>3. ASSUME r.calls \in PipeCalls, NEW i \in DOMAIN deals', deals'[i] # Gone, deals'[i].pipe = r.p
      PROVE  \/ deals'[i].stage \in IdsOf(r.pipe)
             \/ r.calls = <<"StageHasDeals", "StorePipe">> /\ deals'[i].stage = r.arg
  <2>1. /\ i \in DOMAIN deals /\ deals[i] # Gone
        /\ deals[i].pipe = r.p /\ deals'[i].stage = deals[i].stage
    BY <1>3 DEF Spares
  <2> QED BY <1>1, <1>3, <2>1 DEF Relies
<1> QED BY <1>2, <1>3

LEMMA PlacedStep ==
    ASSUME Filed, Placed, NEW u \in Users, NEW P, Spares(P), Follow(u),
           \A v \in Users \ {u} : req[v] # Gone /\ req[v].p \in P =>
               req'[v] = [req[v] EXCEPT !.behind = TRUE] \/ req[v].p \in overtaken',
           \A p \in DOMAIN pipes' : p \in P \/ p \notin DOMAIN pipes =>
               p \in overtaken' \/ pipes'[p] # Gone,
           \A i \in DOMAIN deals' : deals'[i] # Gone /\ deals'[i].pipe \in P =>
               deals'[i].pipe \in overtaken' \/ Column(pipes', deals'[i].stage, deals'[i].pipe),
           req'[u] # Gone => Relies(req'[u], deals', pipes', overtaken'),
           \A w \in Workers \ {u} : eval'[w] = eval[w],
           u \in Workers => Moving(eval'[u], req'[u], pipes', overtaken')
    PROVE  Placed'
<1>1. ASSUME NEW p \in DOMAIN pipes', p \notin overtaken' PROVE pipes'[p] # Gone
  <2>1. CASE p \notin P /\ p \in DOMAIN pipes
    <3>1. pipes[p] # Gone
      BY <1>1, <2>1 DEF Placed, Spares
    <3> QED BY <2>1, <3>1 DEF Spares
  <2> QED BY <1>1, <2>1
<1>2. ASSUME NEW i \in DOMAIN deals', deals'[i] # Gone, deals'[i].pipe \notin overtaken'
      PROVE  Column(pipes', deals'[i].stage, deals'[i].pipe)
  <2>1. CASE deals'[i].pipe \notin P
    <3>1. /\ i \in DOMAIN deals /\ deals[i] # Gone
          /\ deals'[i].pipe = deals[i].pipe /\ deals'[i].stage = deals[i].stage
      BY <1>2, <2>1 DEF Spares
    <3>2. Column(pipes, deals[i].stage, deals[i].pipe)
      BY <1>2, <3>1 DEF Placed, Spares
    <3> QED BY <2>1, <3>1, <3>2, ColumnSpared
  <2> QED BY <1>2, <2>1
<1>3. ASSUME NEW v \in Users \ {u}, req'[v] # Gone
      PROVE  /\ req[v] # Gone
             /\ req'[v].p = req[v].p
             /\ \/ req'[v].behind
                \/ req'[v] = req[v] /\ (req[v].p \notin P \/ req[v].p \in overtaken')
  <2>1. req[v] # Gone
    BY <1>3 DEF Follow
  <2>2. GoodRequest(req[v], deals, pipes)
    BY <1>3, <2>1 DEF Filed
  <2>3. [req[v] EXCEPT !.behind = TRUE].behind /\ [req[v] EXCEPT !.behind = TRUE].p = req[v].p
    BY <2>2 DEF GoodRequest
  <2> QED BY <2>1, <2>3 DEF Follow
<1>4. ASSUME NEW v \in Users, req'[v] # Gone PROVE Relies(req'[v], deals', pipes', overtaken')
  <2>1. CASE v # u
    <3>1. CASE req'[v].behind \/ req'[v].p \in overtaken'
      BY <3>1 DEF Relies
    <3>2. CASE ~(req'[v].behind \/ req'[v].p \in overtaken')
      <4>1. req[v] # Gone /\ req'[v] = req[v] /\ req[v].p \notin P
        BY <1>3, <1>4, <2>1, <3>2
      <4> QED BY <4>1, ReliesSpared DEF Placed
    <3> QED BY <3>1, <3>2
  <2> QED BY <1>4, <2>1
<1>5. ASSUME NEW w \in Workers PROVE Moving(eval'[w], req'[w], pipes', overtaken')
  <2>1. CASE w # u
    <3>1. SUFFICES ASSUME req'[w] # Gone, ~req'[w].behind, req'[w].p \notin overtaken',
                          NEW i \in DOMAIN eval'[w].deals, eval'[w].deals[i] # Gone
                   PROVE  Column(pipes', eval'[w].deals[i].stage, req'[w].p)
      BY DEF Moving
    <3>2. w \in Users \ {u} /\ eval'[w] = eval[w]
      BY <2>1, AutomationAssumption
    <3>3. req[w] # Gone /\ req'[w] = req[w] /\ req[w].p \notin P
      BY <1>3, <3>1, <3>2
    <3>4. req[w].p \notin overtaken
      BY <3>1, <3>3 DEF Spares
    <3>5. Column(pipes, eval[w].deals[i].stage, req[w].p)
      BY <3>1, <3>2, <3>3, <3>4 DEF Placed, Moving
    <3> QED BY <3>2, <3>3, <3>5, ColumnSpared
  <2> QED BY <2>1
<1> QED BY <1>1, <1>2, <1>4, <1>5 DEF Placed

LEMMA NothingSpared ==
    ASSUME UNCHANGED <<deals, pipes, overtaken>> PROVE Spares({})
BY DEF Spares

\* What is left of a request holds what it held.
LEMMA DoneFields ==
    ASSUME NEW r, NEW ds, NEW ps, GoodRequest(r, ds, ps), Done(r) # Gone
    PROVE  /\ Done(r).deal = r.deal /\ Done(r).p = r.p /\ Done(r).pipe = r.pipe
           /\ Done(r).arg = r.arg /\ Done(r).behind = r.behind
           /\ r.calls \in DealCalls => Done(r).calls \in DealCalls /\ Done(r).calls \notin PipeCalls
           /\ r.calls \in PipeCalls => Done(r).calls = <<"StorePipe">> /\ Done(r).calls \notin DealCalls
<1>1. Done(r) = [r EXCEPT !.calls = Tail(@)] /\ Len(r.calls) # 1
  BY DEF Done
<1>2. /\ Done(r).deal = r.deal /\ Done(r).p = r.p /\ Done(r).pipe = r.pipe
      /\ Done(r).arg = r.arg /\ Done(r).behind = r.behind /\ Done(r).calls = Tail(r.calls)
  BY <1>1 DEF GoodRequest
<1>3. r.calls \in DealCalls \cup PipeCalls
  BY DEF GoodRequest
<1>4. <<"StorePipe">> \notin DealCalls
  BY DEF DealCalls
<1>5. r.calls \in DealCalls => Tail(r.calls) \in DealCalls \ Inserts
  BY <1>1, <1>3, CallSteps
<1>6. r.calls \in PipeCalls => Tail(r.calls) = <<"StorePipe">>
  BY <1>1, <1>3, CallSteps
<1>7. \A c \in DealCalls : c \notin PipeCalls
  BY CallSteps
<1> QED BY <1>2, <1>4, <1>5, <1>6, <1>7

LEMMA ReliesDeal ==
    ASSUME NEW r, NEW ds, NEW ps, NEW ov, r.calls \in DealCalls,
           ~r.behind /\ r.p \notin ov => Column(ps, r.deal.stage, r.p)
    PROVE  Relies(r, ds, ps, ov)
<1>1. r.calls \notin PipeCalls
  BY CallSteps
<1> QED BY <1>1 DEF Relies

\* The deletions, and what users ask for.
LEMMA RequestsPlaced ==
    ASSUME Filed, Placed, NEW u \in Users \ Workers, NEW names, Requests(u, names), UNCHANGED eval
    PROVE  Placed'
<1>0. Documents(deals, pipes) /\ u \in Users /\ u \notin Workers /\ \A w \in Workers : eval'[w] = eval[w]
  BY DEF Filed
<1>1. CASE Asked(u)
  <2>1. PICK r : Ask(u, r) /\ Current(r) /\ stageIds' \in Nat /\ UNCHANGED <<deals, pipes, overtaken>>
    BY <1>1 DEF Asked
  <2>2. Follow(u) /\ req'[u] = r
    BY <1>0, <2>1, GoesFollow DEF Ask, Goes
  <2>3. Relies(r, deals, pipes, overtaken)
    <3> SUFFICES ASSUME r.p \notin overtaken
                 PROVE  /\ r.calls \in DealCalls => Column(pipes, r.deal.stage, r.p)
                        /\ r.calls \in PipeCalls =>
                              \A i \in DOMAIN deals : deals[i] # Gone /\ deals[i].pipe = r.p =>
                                  \/ deals[i].stage \in IdsOf(r.pipe)
                                  \/ r.calls = <<"StageHasDeals", "StorePipe">> /\ deals[i].stage = r.arg
      BY DEF Relies
    <3>1. ASSUME r.calls \in DealCalls PROVE Column(pipes, r.deal.stage, r.p)
      <4>1. \/ Column(pipes, r.deal.stage, r.p)
            \/ \E i \in DOMAIN deals :
                  deals[i] # Gone /\ deals[i].pipe = r.p /\ deals[i].stage = r.deal.stage
        BY <2>1, <3>1 DEF Current
      <4> QED BY <4>1 DEF Placed
    <3>2. ASSUME r.calls \in PipeCalls, NEW i \in DOMAIN deals, deals[i] # Gone, deals[i].pipe = r.p
          PROVE  \/ deals[i].stage \in IdsOf(r.pipe)
                 \/ r.calls = <<"StageHasDeals", "StorePipe">> /\ deals[i].stage = r.arg
      <4>1. Column(pipes, deals[i].stage, r.p)
        BY <3>2 DEF Placed
      <4>2. Keeps(pipes[r.p], r.pipe, r.calls, r.arg)
        BY <2>1, <3>2, <4>1 DEF Current, Column
      <4> QED BY <4>1, <4>2 DEF Column, Keeps
    <3> QED BY <3>1, <3>2
  <2>4. Relies(req'[u], deals', pipes', overtaken')
    BY <2>1, <2>2, <2>3
  <2>5. Spares({})
    BY <2>1, NothingSpared
  <2>6. \A p \in DOMAIN pipes' : p \in DOMAIN pipes
    BY <2>1
  <2> QED BY <1>0, <2>2, <2>4, <2>5, <2>6, PlacedStep
<1>2. CASE DeleteDeal(u)
  <2>1. PICK i \in DOMAIN deals : /\ req[u] = Gone /\ deals' = [deals EXCEPT ![i] = Gone]
                                  /\ UNCHANGED <<pipes, stageIds, req, overtaken>>
    BY <1>2 DEF DeleteDeal
  <2>2. Spares({})
    BY <2>1 DEF Spares
  <2>3. Follow(u) /\ req'[u] = Gone
    BY <2>1 DEF Filed, Follow
  <2>4. \A p \in DOMAIN pipes' : p \in DOMAIN pipes
    BY <2>1
  <2> QED BY <1>0, <2>2, <2>3, <2>4, PlacedStep
<1>3. CASE DeletePipe(u)
  <2>1. PICK p \in DOMAIN pipes : /\ req[u] = Gone /\ pipes' = [pipes EXCEPT ![p] = Gone]
                                  /\ overtaken' = overtaken \cup {p}
                                  /\ UNCHANGED <<deals, stageIds, req>>
    BY <1>3 DEF DeletePipe
  <2>2. Spares({p})
    BY <2>1 DEF Spares
  <2>3. Follow(u) /\ req'[u] = Gone
    BY <2>1 DEF Filed, Follow
  <2>4. p \in overtaken' /\ \A q \in DOMAIN pipes' : q \in DOMAIN pipes
    BY <2>1
  <2> QED BY <1>0, <2>2, <2>3, <2>4, PlacedStep
<1> QED BY <1>1, <1>2, <1>3, RequestsAsk

\* A request makes a call that leaves the collections alone.
LEMMA QuietCallPlaced ==
    ASSUME Filed, Placed, NEW u \in Users, req[u] # Gone, Follow(u),
           UNCHANGED <<deals, pipes, overtaken, eval>>,
           req'[u] # Gone => /\ Relies(req'[u], deals, pipes, overtaken)
                             /\ req'[u].p = req[u].p /\ req'[u].behind = req[u].behind
    PROVE  Placed'
<1>1. Spares({})
  BY NothingSpared
<1>2. \A p \in DOMAIN pipes' : p \in DOMAIN pipes
  OBVIOUS
<1>3. ASSUME u \in Workers PROVE Moving(eval'[u], req'[u], pipes', overtaken')
  <2>1. Moving(eval[u], req[u], pipes, overtaken)
    BY <1>3 DEF Placed
  <2> QED BY <2>1 DEF Moving
<1>4. req'[u] # Gone => Relies(req'[u], deals', pipes', overtaken')
  OBVIOUS
<1>5. \A w \in Workers \ {u} : eval'[w] = eval[w]
  OBVIOUS
<1> QED BY <1>1, <1>2, <1>3, <1>4, <1>5, PlacedStep

LEMMA LinkPlaced ==
    ASSUME Filed, Placed, NEW u \in Users, Link(u), UNCHANGED eval PROVE Placed'
<1> DEFINE r == req[u] d == deals[r.d] x == [d EXCEPT !.linked = TRUE] f == [r EXCEPT !.deal = x]
<1>1. r # Gone /\ GoodRequest(r, deals, pipes) /\ r.calls = <<"Link", "StoreDeal">>
  BY AtHand, CallSteps DEF Link
<1>2. r.calls \in DealCalls /\ r.calls \notin Inserts
  BY <1>1 DEF Inserts, DealCalls
<1>3. r.p \in DOMAIN pipes /\ OnFile(deals, r.d, r.p) /\ Documents(deals, pipes)
  BY <1>1, <1>2 DEF GoodRequest, Filed
<1>4. /\ Goes(u, IF d = Gone \/ d.linked THEN Gone ELSE Done(f))
      /\ UNCHANGED <<deals, pipes, overtaken>>
  BY DEF Link
<1>5. Follow(u) /\ req'[u] = IF d = Gone \/ d.linked THEN Gone ELSE Done(f)
  BY <1>4, GoesFollow
<1>6. ASSUME req'[u] # Gone
      PROVE  /\ Relies(req'[u], deals, pipes, overtaken)
             /\ req'[u].p = req[u].p /\ req'[u].behind = req[u].behind
  <2>1. d # Gone /\ req'[u] = Done(f)
    BY <1>5, <1>6
  <2>2. d \in SoundCard /\ d.pipe = r.p
    BY <1>3, <2>1, DealThere DEF OnFile
  <2>3. x \in SoundCard /\ x.pipe = r.p /\ x.stage = d.stage
    BY <2>2 DEF SoundCard, Deal, Sound
  <2>4. r.p \notin overtaken => Column(pipes, d.stage, r.p)
    BY <1>3, <2>1, <2>2 DEF Placed, OnFile
  <2> HIDE DEF x
  <2>5. /\ GoodRequest(f, deals, pipes) /\ f.calls = r.calls /\ f.p = r.p
        /\ f.deal = x /\ f.behind = r.behind
    BY <1>1, <1>2, <2>3, RedealIsGood
  <2> HIDE DEF f
  <2>6. /\ Done(f).deal = x /\ Done(f).p = r.p /\ Done(f).behind = r.behind
        /\ Done(f).calls \in DealCalls
    BY <1>2, <1>6, <2>1, <2>5, DoneFields
  <2> QED BY <2>1, <2>3, <2>4, <2>6, ReliesDeal
<1> QED BY <1>1, <1>4, <1>5, <1>6, QuietCallPlaced

LEMMA EnterPlaced ==
    ASSUME Filed, Placed, NEW u \in Users, Enter(u), UNCHANGED eval PROVE Placed'
<1> DEFINE r == req[u] p == pipes[r.p]
           x == IF r.arg = 0 THEN Lost(r.deal, p) ELSE ApplyStage(r.deal, StageOf(p, r.arg))
           f == [r EXCEPT !.deal = x]
<1>1. /\ r # Gone /\ GoodRequest(r, deals, pipes)
      /\ r.calls \in {<<"Enter", "StoreDeal">>, <<"Enter", "StoreDeal", "NextDeal">>}
  BY AtHand, CallSteps DEF Enter
<1>2. r.calls \in DealCalls /\ r.calls \notin Inserts
  BY <1>1 DEF Inserts, DealCalls
<1>3. r.p \in DOMAIN pipes /\ r.deal \in SoundCard /\ r.deal.pipe = r.p /\ Documents(deals, pipes)
  BY <1>1, <1>2 DEF GoodRequest, Filed
<1>4. /\ Goes(u, IF p = Gone \/ (r.arg # 0 /\ r.arg \notin IdsOf(p)) THEN Gone ELSE Done(f))
      /\ UNCHANGED <<deals, pipes, overtaken>>
  <2>1. f = [r EXCEPT !.deal = IF r.arg = 0 THEN Lost(@, p) ELSE ApplyStage(@, StageOf(p, r.arg))]
    BY <1>1 DEF GoodRequest
  <2> QED BY <2>1 DEF Enter
<1>5. Follow(u) /\ req'[u] = IF p = Gone \/ (r.arg # 0 /\ r.arg \notin IdsOf(p)) THEN Gone ELSE Done(f)
  BY <1>4, GoesFollow
<1>6. ASSUME req'[u] # Gone
      PROVE  /\ Relies(req'[u], deals, pipes, overtaken)
             /\ req'[u].p = req[u].p /\ req'[u].behind = req[u].behind
  <2>1. p # Gone /\ (r.arg = 0 \/ r.arg \in IdsOf(p)) /\ req'[u] = Done(f)
    BY <1>5, <1>6
  <2>2. p \in Pipe
    BY <1>3, <2>1, PipeThere
  <2>3. x \in SoundCard /\ x.pipe = r.p /\ (x.stage = r.deal.stage \/ x.stage \in IdsOf(p))
    <3>1. CASE r.arg = 0
      BY <1>3, <2>2, <3>1, LostSound
    <3>2. CASE r.arg # 0
      <4>1. StageOf(p, r.arg) \in Stage /\ StageOf(p, r.arg).id = r.arg
        BY <2>1, <2>2, <3>2, StageOfSteps
      <4> QED BY <1>3, <2>1, <3>2, <4>1, ApplyStageSound
    <3> QED BY <3>1, <3>2
  <2> HIDE DEF x
  <2>4. /\ GoodRequest(f, deals, pipes) /\ f.calls = r.calls /\ f.p = r.p
        /\ f.deal = x /\ f.behind = r.behind
    BY <1>1, <1>2, <2>3, RedealIsGood
  <2> HIDE DEF f
  <2>5. /\ Done(f).deal = x /\ Done(f).p = r.p /\ Done(f).behind = r.behind
        /\ Done(f).calls \in DealCalls
    BY <1>2, <1>6, <2>1, <2>4, DoneFields
  <2>6. ~r.behind /\ r.p \notin overtaken => Column(pipes, r.deal.stage, r.p)
    BY <1>1, <1>2 DEF Placed, Relies
  <2>7. ~r.behind /\ r.p \notin overtaken => Column(pipes, x.stage, r.p)
    BY <1>3, <2>1, <2>3, <2>6 DEF Column
  <2> QED BY <2>1, <2>5, <2>7, ReliesDeal
<1> QED BY <1>1, <1>4, <1>5, <1>6, QuietCallPlaced

\* What a store does to the requests on the same pipeline.
LEMMA MovesBehind ==
    ASSUME NEW u \in Users, NEW q, NEW p, Moves(u, q, p)
    PROVE  \A v \in Users \ {u} : req[v] # Gone /\ req[v].p \in {p} =>
               req'[v] = [req[v] EXCEPT !.behind = TRUE]
BY DEF Moves

LEMMA OvertakeSteps ==
    ASSUME NEW u, Overtake(u)
    PROVE  overtaken \subseteq overtaken' /\ (req[u].behind => req[u].p \in overtaken')
BY DEF Overtake

\* A request stores a deal of its pipeline.
LEMMA DealPlaced ==
    ASSUME Filed, Placed, NEW u \in Users, req[u] # Gone, req[u].calls \in DealCalls,
           UNCHANGED <<pipes, eval>>, NEW q, Moves(u, q, req[u].p), Overtake(u),
           q # Gone => /\ q.p = req[u].p /\ q.behind = req[u].behind
                       /\ q.calls \in DealCalls /\ q.deal = req[u].deal,
           \A i \in DOMAIN deals' : deals'[i] # Gone =>
               \/ deals'[i].pipe = req[u].p /\ deals'[i].stage = req[u].deal.stage
               \/ i \in DOMAIN deals /\ deals'[i] = deals[i]
    PROVE  Placed'
<1> DEFINE r == req[u]
<1>1. overtaken \subseteq overtaken' /\ (r.behind => r.p \in overtaken')
  BY OvertakeSteps
<1>2. Spares({r.p})
  BY <1>1 DEF Spares
<1>3. Follow(u) /\ req'[u] = q
  BY MovesFollow
<1>4. \A v \in Users \ {u} : req[v] # Gone /\ req[v].p \in {r.p} =>
         req'[v] = [req[v] EXCEPT !.behind = TRUE]
  BY MovesBehind
<1>5. ~r.behind /\ r.p \notin overtaken => Column(pipes, r.deal.stage, r.p)
  BY DEF Placed, Relies
<1>6. ASSUME r.p \notin overtaken' PROVE Column(pipes', r.deal.stage, r.p)
  BY <1>1, <1>5, <1>6
<1>7. ASSUME NEW i \in DOMAIN deals', deals'[i] # Gone, deals'[i].pipe \in {r.p}
      PROVE  deals'[i].pipe \in overtaken' \/ Column(pipes', deals'[i].stage, deals'[i].pipe)
  <2>1. CASE deals'[i].stage = r.deal.stage
    BY <1>6, <1>7, <2>1
  <2>2. CASE i \in DOMAIN deals /\ deals'[i] = deals[i]
    BY <1>1, <1>7, <2>2 DEF Placed
  <2> QED BY <1>7, <2>1, <2>2
<1>8. ASSUME NEW p \in DOMAIN pipes', p \in {r.p} \/ p \notin DOMAIN pipes
      PROVE  p \in overtaken' \/ pipes'[p] # Gone
  BY <1>6, <1>8 DEF Column
<1>9. req'[u] # Gone => Relies(req'[u], deals', pipes', overtaken')
  BY <1>3, <1>6, ReliesDeal
<1>10. ASSUME u \in Workers PROVE Moving(eval'[u], req'[u], pipes', overtaken')
  <2>1. Moving(eval[u], req[u], pipes, overtaken)
    BY <1>10 DEF Placed
  <2> QED BY <1>1, <1>3, <2>1 DEF Moving
<1>11. \A w \in Workers \ {u} : eval'[w] = eval[w]
  OBVIOUS
<1> HIDE DEF r
<1> QED BY <1>2, <1>3, <1>4, <1>7, <1>8, <1>9, <1>10, <1>11, PlacedStep

LEMMA InsertPlaced ==
    ASSUME Filed, Placed, NEW u \in Users, Insert(u), UNCHANGED eval PROVE Placed'
<1> DEFINE r == req[u] f == [r EXCEPT !.d = Len(deals) + 1]
<1>1. r # Gone /\ GoodRequest(r, deals, pipes) /\ r.calls \in DealCalls
  <2>1. r # Gone /\ GoodRequest(r, deals, pipes) /\ r.calls \in Inserts
    BY AtHand, CallSteps DEF Insert
  <2> QED BY <2>1 DEF Inserts, DealCalls
<1>2. deals' = Append(deals, r.deal) /\ Moves(u, Done(f), r.p) /\ Overtake(u) /\ UNCHANGED pipes
  BY DEF Insert
<1>3. r.deal.pipe = r.p /\ deals \in Seq(SoundCard \cup {Gone}) /\ r.deal \in SoundCard \cup {Gone}
  BY <1>1 DEF GoodRequest, Filed, Documents
<1>4. ASSUME NEW i \in DOMAIN deals'
      PROVE  deals'[i] = r.deal \/ (i \in DOMAIN deals /\ deals'[i] = deals[i])
  <2>1. /\ deals' \in Seq(SoundCard \cup {Gone}) /\ Len(deals') = Len(deals) + 1
        /\ deals'[Len(deals) + 1] = r.deal /\ \A j \in 1..Len(deals) : deals'[j] = deals[j]
    BY <1>2, <1>3, AppendProperties
  <2>2. i \in 1..(Len(deals) + 1) /\ DOMAIN deals = 1..Len(deals) /\ Len(deals) \in Nat
    BY <1>3, <2>1, LenProperties
  <2>3. i \in 1..Len(deals) \/ i = Len(deals) + 1
    BY <2>2
  <2> QED BY <2>1, <2>2, <2>3
<1>5. Done(f) # Gone => /\ Done(f).p = r.p /\ Done(f).behind = r.behind
                        /\ Done(f).calls \in DealCalls /\ Done(f).deal = r.deal
  <2>1. f.calls = r.calls /\ (Done(f) # Gone => Done(f) = [f EXCEPT !.calls = Tail(@)] /\ Len(f.calls) # 1)
    BY <1>1 DEF GoodRequest, Done
  <2>2. Len(r.calls) # 1 => Tail(r.calls) \in DealCalls
    BY <1>1, CallSteps
  <2>3. LET g == [f EXCEPT !.calls = Tail(@)]
        IN  g.p = r.p /\ g.behind = r.behind /\ g.calls = Tail(r.calls) /\ g.deal = r.deal
    BY <1>1 DEF GoodRequest
  <2> QED BY <2>1, <2>2, <2>3
<1> HIDE DEF f
<1> QED BY <1>1, <1>2, <1>3, <1>4, <1>5, DealPlaced

LEMMA StoreDealPlaced ==
    ASSUME Filed, Placed, NEW u \in Users, StoreDeal(u), UNCHANGED eval PROVE Placed'
<1> DEFINE r == req[u] x == IF deals[r.d] = Gone THEN Gone ELSE r.deal
           q == IF deals[r.d] = Gone THEN Gone ELSE Done(r)
<1>1. /\ r # Gone /\ GoodRequest(r, deals, pipes)
      /\ r.calls \in {<<"StoreDeal">>, <<"StoreDeal", "NextDeal">>}
  BY AtHand, CallSteps DEF StoreDeal
<1>2. r.calls \in DealCalls
  BY <1>1 DEF DealCalls
<1>3. /\ deals' = [deals EXCEPT ![r.d] = x] /\ Moves(u, q, r.p)
      /\ Overtake(u) /\ UNCHANGED pipes
  BY DEF StoreDeal
<1>4. r.deal.pipe = r.p
  BY <1>1, <1>2 DEF GoodRequest
<1>5. ASSUME NEW i \in DOMAIN deals', deals'[i] # Gone
      PROVE  \/ deals'[i].pipe = r.p /\ deals'[i].stage = r.deal.stage
             \/ i \in DOMAIN deals /\ deals'[i] = deals[i]
  BY <1>3, <1>4, <1>5
<1>6. q # Gone => /\ q.p = r.p /\ q.behind = r.behind /\ q.calls \in DealCalls /\ q.deal = r.deal
  BY <1>1, <1>2, DoneFields
<1> HIDE DEF q
<1> QED BY <1>1, <1>2, <1>3, <1>5, <1>6, DealPlaced

\* A request on a pipeline makes its call.
LEMMA PipeCallsPlaced ==
    ASSUME Filed, Placed, NEW u \in Users, UNCHANGED eval,
           InsertPipe(u) \/ ClearDefault(u) \/ StageHasDeals(u) \/ StorePipe(u)
    PROVE  Placed'
<1> DEFINE r == req[u]
<1>0. Documents(deals, pipes) /\ pipes \in Seq(Pipe \cup {Gone}) /\ DOMAIN pipes = 1..Len(pipes)
      /\ Len(pipes) \in Nat
  BY LenProperties DEF Filed, Documents
<1>a. \A w \in Workers \ {u} : eval'[w] = eval[w]
  OBVIOUS
<1>1. CASE InsertPipe(u)
  <2>1. r # Gone /\ GoodRequest(r, deals, pipes) /\ r.calls = <<"InsertPipe">>
    BY <1>1, AtHand, CallSteps DEF InsertPipe
  <2>2. /\ pipes' = Append(pipes, r.pipe) /\ Goes(u, Done(r)) /\ UNCHANGED <<deals, overtaken>>
    BY <1>1 DEF InsertPipe
  <2>3. r.pipe \in Pipe /\ r.pipe \in Pipe \cup {Gone} /\ r.pipe # Gone /\ Done(r) = Gone
    <3>1. <<"InsertPipe">> \in PipeCalls /\ Len(<<"InsertPipe">>) = 1
      BY DEF PipeCalls
    <3> QED BY <2>1, <3>1, GoneAssumption DEF GoodRequest, Done
  <2>4. /\ pipes' \in Seq(Pipe \cup {Gone}) /\ Len(pipes') = Len(pipes) + 1
        /\ pipes'[Len(pipes) + 1] = r.pipe /\ \A j \in 1..Len(pipes) : pipes'[j] = pipes[j]
    BY <1>0, <2>2, <2>3, AppendProperties
  <2>5. DOMAIN pipes' = 1..(Len(pipes) + 1)
    BY <2>4, LenProperties
  <2>6. Spares({})
    <3>1. \A p \in DOMAIN pipes : p \in DOMAIN pipes' /\ pipes'[p] = pipes[p]
      BY <1>0, <2>4, <2>5
    <3> QED BY <2>2, <3>1 DEF Spares
  <2>7. \A p \in DOMAIN pipes' : p \notin DOMAIN pipes => pipes'[p] # Gone
    <3>1. \A p \in DOMAIN pipes' : p \notin DOMAIN pipes => p = Len(pipes) + 1
      BY <1>0, <2>5
    <3> QED BY <2>3, <2>4, <3>1
  <2>8. Follow(u) /\ req'[u] = Gone
    BY <2>2, <2>3, GoesFollow
  <2>9. Moving(eval'[u], req'[u], pipes', overtaken')
    BY <2>8 DEF Moving
  <2> QED BY <1>a, <2>6, <2>7, <2>8, <2>9, PlacedStep
<1>2. CASE ClearDefault(u)
  <2>1. r # Gone /\ GoodRequest(r, deals, pipes) /\ r.calls = <<"ClearDefault", "StorePipe">>
    BY <1>2, AtHand, CallSteps DEF ClearDefault
  <2>2. /\ pipes' = [p \in DOMAIN pipes |->
                       IF p = r.p \/ pipes[p] = Gone THEN pipes[p]
                       ELSE [pipes[p] EXCEPT !.default = FALSE]]
        /\ Goes(u, Done(r)) /\ UNCHANGED <<deals, overtaken>>
    BY <1>2 DEF ClearDefault
  <2>3. ASSUME NEW p \in DOMAIN pipes, pipes[p] # Gone
        PROVE  pipes'[p] # Gone /\ IdsOf(pipes'[p]) = IdsOf(pipes[p])
    <3>1. /\ pipes[p] \in Pipe /\ [pipes[p] EXCEPT !.default = FALSE] \in Pipe
          /\ IdsOf([pipes[p] EXCEPT !.default = FALSE]) = IdsOf(pipes[p])
      BY <1>0, <2>3, PipeThere, FlaggedIsPipe
    <3>2. pipes'[p] = pipes[p] \/ pipes'[p] = [pipes[p] EXCEPT !.default = FALSE]
      BY <2>2
    <3> QED BY <2>3, <3>1, <3>2, GoneAssumption
  <2>4. Spares({})
    BY <2>2, <2>3 DEF Spares
  <2>5. Follow(u) /\ req'[u] = Done(r)
    BY <2>2, GoesFollow
  <2>6. r.calls \in PipeCalls /\ r.calls # <<"StageHasDeals", "StorePipe">>
    BY <2>1 DEF PipeCalls
  <2>7. req'[u] # Gone => Relies(req'[u], deals', pipes', overtaken')
    <3> SUFFICES ASSUME Done(r) # Gone PROVE Relies(Done(r), deals, pipes', overtaken)
      BY <2>2, <2>5
    <3>1. /\ Done(r).p = r.p /\ Done(r).pipe = r.pipe /\ Done(r).arg = r.arg /\ Done(r).behind = r.behind
          /\ Done(r).calls \notin DealCalls
      BY <2>1, <2>6, DoneFields
    <3>2. Relies(r, deals, pipes, overtaken)
      BY <2>1 DEF Placed
    <3> QED BY <2>6, <3>1, <3>2 DEF Relies
  <2>8. ASSUME u \in Workers PROVE Moving(eval'[u], req'[u], pipes', overtaken')
    <3>1. Moving(eval[u], r, pipes, overtaken)
      BY <2>8 DEF Placed
    <3>2. Done(r) # Gone => Done(r).p = r.p /\ Done(r).behind = r.behind
      BY <2>1, DoneFields
    <3>3. \A s, p : Column(pipes, s, p) => Column(pipes', s, p)
      BY <2>4, ColumnSpared
    <3> QED BY <2>1, <2>2, <2>5, <3>1, <3>2, <3>3 DEF Moving
  <2>9. \A p \in DOMAIN pipes' : p \in DOMAIN pipes
    BY <2>2
  <2> QED BY <1>a, <2>4, <2>5, <2>7, <2>8, <2>9, PlacedStep
<1>3. CASE StageHasDeals(u)
  <2> DEFINE q == IF \E i \in DOMAIN deals :
                       deals[i] # Gone /\ deals[i].pipe = req[u].p /\ deals[i].stage = req[u].arg
                  THEN Gone ELSE Done(req[u])
  <2>1. r # Gone /\ GoodRequest(r, deals, pipes) /\ r.calls = <<"StageHasDeals", "StorePipe">>
    BY <1>3, AtHand, CallSteps DEF StageHasDeals
  <2>2. Goes(u, q) /\ UNCHANGED <<deals, pipes, overtaken>>
    BY <1>3 DEF StageHasDeals
  <2>3. Follow(u) /\ req'[u] = q
    BY <2>2, GoesFollow
  <2>4. r.calls \in PipeCalls
    BY <2>1 DEF PipeCalls
  <2>5. ASSUME q # Gone
        PROVE  Relies(q, deals, pipes, overtaken) /\ q.p = r.p /\ q.behind = r.behind
    <3>1. q = Done(r) /\ ~\E i \in DOMAIN deals :
             deals[i] # Gone /\ deals[i].pipe = r.p /\ deals[i].stage = r.arg
      BY <2>5
    <3>2. /\ Done(r).p = r.p /\ Done(r).pipe = r.pipe /\ Done(r).arg = r.arg /\ Done(r).behind = r.behind
          /\ Done(r).calls \notin DealCalls
      BY <2>1, <2>4, <2>5, <3>1, DoneFields
    <3>3. Relies(r, deals, pipes, overtaken)
      BY <2>1 DEF Placed
    <3>4. Relies(Done(r), deals, pipes, overtaken)
      BY <2>4, <3>1, <3>2, <3>3 DEF Relies
    <3> QED BY <3>1, <3>2, <3>4
  <2> HIDE DEF q
  <2> QED BY <2>1, <2>2, <2>3, <2>5, QuietCallPlaced
<1>4. CASE StorePipe(u)
  <2> DEFINE n == IF pipes[r.p] = Gone THEN Gone ELSE r.pipe
  <2>1. r # Gone /\ GoodRequest(r, deals, pipes) /\ r.calls = <<"StorePipe">>
    BY <1>4, AtHand, CallSteps DEF StorePipe
  <2>2. /\ pipes' = [pipes EXCEPT ![r.p] = n]
        /\ Moves(u, Done(r), r.p) /\ Overtake(u) /\ UNCHANGED deals
    BY <1>4 DEF StorePipe
  <2>3. /\ r.calls \in PipeCalls /\ r.calls # <<"StageHasDeals", "StorePipe">> /\ Done(r) = Gone
        /\ r.calls # <<"InsertPipe">>
    BY <2>1 DEF PipeCalls, Done
  <2>4. r.pipe # Gone /\ r.p \in DOMAIN pipes
    BY <2>1, <2>3, GoneAssumption DEF GoodRequest
  <2>5. overtaken \subseteq overtaken' /\ (r.behind => r.p \in overtaken')
    BY <2>2, OvertakeSteps
  <2>6. Spares({r.p})
    BY <2>2, <2>5 DEF Spares
  <2>7. Follow(u) /\ req'[u] = Gone
    BY <2>2, <2>3, MovesFollow
  <2>8. \A v \in Users \ {u} : req[v] # Gone /\ req[v].p \in {r.p} =>
           req'[v] = [req[v] EXCEPT !.behind = TRUE]
    BY <2>2, MovesBehind
  <2>9. ASSUME r.p \notin overtaken' PROVE pipes'[r.p] = r.pipe /\ r.p \notin overtaken /\ ~r.behind
    <3>1. r.p \notin overtaken /\ ~r.behind
      BY <2>5, <2>9
    <3>2. pipes[r.p] # Gone
      BY <2>4, <3>1 DEF Placed
    <3> QED BY <2>2, <2>4, <3>1, <3>2
  <2>10. ASSUME NEW i \in DOMAIN deals', deals'[i] # Gone, deals'[i].pipe \in {r.p}
         PROVE  deals'[i].pipe \in overtaken' \/ Column(pipes', deals'[i].stage, deals'[i].pipe)
    <3> SUFFICES ASSUME r.p \notin overtaken' PROVE Column(pipes', deals[i].stage, r.p)
      BY <2>2, <2>10
    <3>1. pipes'[r.p] = r.pipe /\ r.p \notin overtaken /\ ~r.behind
      BY <2>9
    <3>2. i \in DOMAIN deals /\ deals[i] # Gone /\ deals[i].pipe = r.p
      BY <2>2, <2>10
    <3>3. Relies(r, deals, pipes, overtaken)
      BY <2>1 DEF Placed
    <3>4. deals[i].stage \in IdsOf(r.pipe)
      BY <2>3, <3>1, <3>2, <3>3 DEF Relies
    <3>5. r.p \in DOMAIN pipes'
      BY <2>2, <2>4
    <3> QED BY <2>4, <3>1, <3>4, <3>5 DEF Column
  <2>11. ASSUME NEW p \in DOMAIN pipes', p \in {r.p} \/ p \notin DOMAIN pipes
         PROVE  p \in overtaken' \/ pipes'[p] # Gone
    <3>1. p = r.p
      BY <2>2, <2>11
    <3> QED BY <2>4, <2>9, <3>1
  <2>12. Moving(eval'[u], req'[u], pipes', overtaken')
    BY <2>7 DEF Moving
  <2> HIDE DEF r
  <2> QED BY <1>a, <2>6, <2>7, <2>8, <2>10, <2>11, <2>12, PlacedStep
<1> QED BY <1>1, <1>2, <1>3, <1>4

\* An evaluation takes up deals to move, goes on to the next, or does neither.
LEMMA EvaluatePlaced ==
    ASSUME Shaped, Filed, Placed, NEW w \in Workers, Evaluate(w) PROVE Placed'
<1> DEFINE a == Action(w) e == eval[w]
<1>0. /\ Documents(deals, pipes) /\ w \in Users /\ Shape(e)
      /\ \A v \in Workers \ {w} : eval'[v] = eval[v]
  BY AutomationAssumption, TurnSteps DEF Turn, Filed, Shaped
<1>1. ASSUME UNCHANGED <<deals, pipes, overtaken>>, Follow(w),
             req'[w] # Gone => Relies(req'[w], deals, pipes, overtaken),
             Moving(eval'[w], req'[w], pipes, overtaken)
      PROVE  Placed'
  <2>1. Spares({})
    BY <1>1, NothingSpared
  <2>2. \A p \in DOMAIN pipes' : p \in DOMAIN pipes
    BY <1>1
  <2>3. /\ req'[w] # Gone => Relies(req'[w], deals', pipes', overtaken')
        /\ Moving(eval'[w], req'[w], pipes', overtaken')
    BY <1>1
  <2> QED BY <1>0, <1>1, <2>1, <2>2, <2>3, PlacedStep
<1>2. ASSUME UNCHANGED <<deals, pipes, overtaken>>, Follow(w), req'[w] = Gone PROVE Placed'
  BY <1>1, <1>2 DEF Moving
<1>3. ASSUME UNCHANGED crm, e.at # "moving" \/ req[w] = Gone PROVE Placed'
  <2>1. req[w] = Gone
    BY <1>3 DEF Filed, GoodCopies
  <2>2. Follow(w) /\ req'[w] = Gone
    BY <1>3, <2>1 DEF Filed, Follow, crm
  <2> QED BY <1>2, <1>3, <2>2 DEF crm
<1>4. CASE FindDeals(w)
  <2>1. CASE req' = req
    <3>1. UNCHANGED crm /\ e.at # "moving"
      BY <1>4, <2>1 DEF FindDeals, At, crm
    <3> QED BY <1>3, <3>1
  <2>2. CASE req' # req
    <3>1. UNCHANGED <<deals, pipes, overtaken>>
      BY <1>4 DEF FindDeals
    <3>2. PICK i \in DOMAIN deals :
             /\ First(deals, i, a)
             /\ Goes(w, Request(<<"Enter", "StoreDeal", "NextDeal">>, i, deals[i],
                                a.arg.pipe, Gone, a.arg.stage))
             /\ To(w, [e EXCEPT !.at = "moving", !.deals = Left(deals, i, a)])
      BY <1>4, <2>2 DEF FindDeals
    <3> DEFINE r == Request(<<"Enter", "StoreDeal", "NextDeal">>, i, deals[i], a.arg.pipe, Gone, a.arg.stage)
               f == [e EXCEPT !.at = "moving", !.deals = Left(deals, i, a)]
    <3>3. deals[i] # Gone /\ deals[i].pipe = a.arg.pipe
      BY <3>2 DEF First, Movable
    <3>4. r.p = a.arg.pipe /\ r.deal = deals[i] /\ r.calls = <<"Enter", "StoreDeal", "NextDeal">>
      BY DEF Request
    <3>5. f.deals = Left(deals, i, a)
      BY <1>0 DEF Shape
    <3>6. Follow(w) /\ req'[w] = r
      BY <1>0, <3>2, GoesFollow
    <3>7. eval'[w] = f
      BY <3>2, ToSteps
    <3> HIDE DEF r, f, a
    <3>8. r.calls \in DealCalls
      BY <3>4 DEF DealCalls
    <3>9. r.p \notin overtaken => Column(pipes, deals[i].stage, r.p)
      BY <3>3, <3>4 DEF Placed
    <3>10. Relies(r, deals, pipes, overtaken)
      BY <3>4, <3>8, <3>9, ReliesDeal
    <3>11. Moving(f, r, pipes, overtaken)
      <4> SUFFICES ASSUME r.p \notin overtaken, NEW j \in DOMAIN f.deals, f.deals[j] # Gone
                   PROVE  Column(pipes, f.deals[j].stage, r.p)
        BY DEF Moving
      <4>1. j \in DOMAIN deals /\ f.deals[j] = deals[j] /\ Movable(deals[j], a)
        BY <3>5, LeftSteps
      <4> QED BY <3>4, <4>1 DEF Movable, Placed
    <3> QED BY <1>1, <3>1, <3>6, <3>7, <3>10, <3>11
  <2> QED BY <2>1, <2>2
<1>5. CASE NextDeal(w)
  <2> DEFINE ds == e.deals
  <2>1. UNCHANGED <<deals, pipes, overtaken>>
    BY <1>5 DEF NextDeal
  <2>2. req[w] # Gone /\ GoodRequest(req[w], deals, pipes)
    BY <1>0, <1>5, AtHand DEF NextDeal
  <2>3. Moving(e, req[w], pipes, overtaken)
    BY DEF Placed
  <2>4. CASE Goes(w, Gone)
    BY <1>0, <1>2, <2>1, <2>4, GoesFollow
  <2>5. ASSUME NEW i \in DOMAIN ds, First(ds, i, a),
               Goes(w, [req[w] EXCEPT !.calls = <<"Enter", "StoreDeal", "NextDeal">>,
                                      !.d = i, !.deal = ds[i]]),
               To(w, [e EXCEPT !.deals = Left(ds, i, a)])
        PROVE  Placed'
    <3> DEFINE r == [req[w] EXCEPT !.calls = <<"Enter", "StoreDeal", "NextDeal">>, !.d = i, !.deal = ds[i]]
               f == [e EXCEPT !.deals = Left(ds, i, a)]
    <3>1. ds[i] # Gone
      BY <2>5 DEF First, Movable
    <3>2. /\ r.calls = <<"Enter", "StoreDeal", "NextDeal">> /\ r.deal = ds[i]
          /\ r.p = req[w].p /\ r.behind = req[w].behind
      BY <2>2 DEF GoodRequest
    <3>3. f.deals = Left(ds, i, a)
      BY <1>0 DEF Shape
    <3>4. Follow(w) /\ req'[w] = r
      BY <1>0, <2>5, GoesFollow
    <3>5. eval'[w] = f
      BY <2>5, ToSteps
    <3> HIDE DEF r, f, a
    <3>6. r.calls \in DealCalls
      BY <3>2 DEF DealCalls
    <3>7. ~r.behind /\ r.p \notin overtaken => Column(pipes, ds[i].stage, r.p)
      BY <2>2, <2>3, <3>1, <3>2 DEF Moving
    <3>8. Relies(r, deals, pipes, overtaken)
      BY <3>2, <3>6, <3>7, ReliesDeal
    <3>9. Moving(f, r, pipes, overtaken)
      <4> SUFFICES ASSUME ~r.behind, r.p \notin overtaken, NEW j \in DOMAIN f.deals, f.deals[j] # Gone
                   PROVE  Column(pipes, f.deals[j].stage, r.p)
        BY DEF Moving
      <4>1. j \in DOMAIN ds /\ f.deals[j] = ds[j] /\ ds[j] # Gone
        BY <3>3, LeftSteps
      <4> QED BY <2>2, <2>3, <3>2, <4>1 DEF Moving
    <3> QED BY <1>1, <2>1, <3>4, <3>5, <3>8, <3>9
  <2> QED BY <1>5, <2>4, <2>5 DEF NextDeal
<1>6. CASE Fail(w)
  <2>1. Goes(w, Gone) /\ UNCHANGED <<deals, pipes, overtaken>>
    BY <1>6 DEF Fail
  <2> QED BY <1>0, <1>2, <2>1, GoesFollow
<1>7. CASE Moved(w)
  BY <1>3, <1>7 DEF Moved
<1>8. CASE Take(w) \/ FirstHydrate(w) \/ Rehydrate(w) \/ Claim(w) \/ RedisDown(w) \/ Act(w)
  <2>1. UNCHANGED crm /\ e.at # "moving"
    BY <1>8 DEF Take, FirstHydrate, Rehydrate, Hydrate, Claim, RedisDown, Act, At
  <2> QED BY <1>3, <2>1
<1>9. CASE Incr(w) \/ Expire(w) \/ Load(w) \/ Create(w) \/ Store(w)
  <2>1. UNCHANGED crm /\ e.at # "moving"
    BY <1>9 DEF Incr, Expire, Load, Create, Store, At
  <2> QED BY <1>3, <2>1
<1> QED BY <1>4, <1>5, <1>6, <1>7, <1>8, <1>9 DEF Evaluate

LEMMA PlacedSteps == Shaped /\ Filed /\ Placed /\ [Next]_vars => Placed'
<1> SUFFICES ASSUME Shaped, Filed, Placed, [Next]_vars PROVE Placed'
  OBVIOUS
<1>1. ASSUME UNCHANGED crm,
             \A w \in Workers : req[w] # Gone => eval'[w] = eval[w]
      PROVE  Placed'
  <2>1. \A w \in Workers : Moving(eval'[w], req[w], pipes, overtaken)
    BY <1>1 DEF Placed, Moving
  <2> QED BY <1>1, <2>1 DEF Placed, crm
<1>2. CASE WindowEnds
  <2>1. \A w \in Workers : req[w] # Gone => eval[w].at = "moving"
    BY DEF Filed, GoodCopies
  <2>2. UNCHANGED crm /\ \A w \in Workers : req[w] # Gone => eval'[w] = eval[w]
    BY <1>2, <2>1 DEF WindowEnds
  <2> QED BY <1>1, <2>2
<1>3. CASE UserWorks
  <2>1. UNCHANGED eval
    BY <1>3 DEF UserWorks, rules
  <2>2. ASSUME NEW u \in Users \ Workers, Requests(u, load.requests) PROVE Placed'
    BY <2>1, <2>2, RequestsPlaced
  <2>3. ASSUME NEW u \in Users, Proceed(u) PROVE Placed'
    BY <2>1, <2>3, InsertPlaced, LinkPlaced, EnterPlaced, StoreDealPlaced, PipeCallsPlaced DEF Proceed
  <2> QED BY <1>3, <2>2, <2>3 DEF UserWorks
<1>4. CASE MessageArrives \/ AgentCloses \/ AgentResolves \/ AgentReopens \/ ManageRule \/ ClaimEnds
  <2>1. UNCHANGED crm /\ UNCHANGED eval
    BY <1>4 DEF MessageArrives, AgentCloses, AgentResolves, AgentReopens, ManageRule, Happens,
       ClaimEnds
  <2> QED BY <1>1, <2>1
<1>5. CASE UNCHANGED vars
  BY <1>1, <1>5 DEF vars, rules
<1> QED BY <1>2, <1>3, <1>4, <1>5, EvaluatePlaced DEF Next

\* "The stage still has deals; move them before deleting" (pipeline_service.go,
\* DeleteStage): a card of the board is in a column of its pipeline, for any
\* number of users and workers, unless operations on the pipeline and its deals
\* overlapped or the pipeline was deleted.
THEOREM CardsStayInColumns == Spec => []StagesKept
<1>1. Init => Placed
  <2> SUFFICES ASSUME Init PROVE Placed
    OBVIOUS
  <2> DEFINE d == [NewDeal(1, 0) EXCEPT !.stage = 1, !.linked = TRUE]
             p == [default |-> TRUE, stages |-> <<[id |-> 1, ends |-> {}], [id |-> 2, ends |-> {"won"}]>>]
  <2>1. deals = <<d>> /\ pipes = <<p>> /\ overtaken = {} /\ req = [u \in Users |-> Gone]
    BY DEF Init, CrmInit
  <2>2. d.pipe = 1 /\ d.stage = 1
    BY DEF NewDeal
  <2>3. p \in Pipe /\ 1 \in IdsOf(p)
    <3> DEFINE s == <<[id |-> 1, ends |-> {}], [id |-> 2, ends |-> {"won"}]>>
    <3>1. [id |-> 1, ends |-> {}] \in Stage /\ [id |-> 2, ends |-> {"won"}] \in Stage
      BY DEF Stage, Ends
    <3>2. s \in Seq(Stage) /\ 1 \in DOMAIN s /\ s[1].id = 1
      BY <3>1
    <3>3. p.stages = s
      OBVIOUS
    <3> HIDE DEF s
    <3>4. 1 \in IdsOf(p)
      BY <3>2, <3>3 DEF IdsOf
    <3> QED BY <3>2, <3>4 DEF Pipe, s
  <2> HIDE DEF d, p
  <2>4. DOMAIN <<d>> = {1} /\ <<d>>[1] = d /\ DOMAIN <<p>> = {1} /\ <<p>>[1] = p /\ p # Gone
    BY <2>3, GoneAssumption
  <2>5. Column(pipes, 1, 1)
    BY <2>1, <2>3, <2>4 DEF Column
  <2>6. \A w \in Workers : w \in Users
    BY AutomationAssumption
  <2> QED BY <2>1, <2>2, <2>4, <2>5, <2>6 DEF Placed, Moving
<1>2. Placed => StagesKept
  BY DEF Placed, StagesKept, Column
<1> QED BY <1>1, <1>2, PlacedSteps, FiledHolds, PTL DEF Spec

-----------------------------------------------------------------------------
(* The conversation, the tasks and the evaluations.                        *)

\* The document of the conversation.
GoodConv(c) ==
    c \in [status : Statuses, agent : Agents \cup {None}, sector : Sectors \cup {None},
           queue : {c.queue}, closedAt : {c.closedAt}, priority : {c.priority}, tags : {c.tags}]

GoodTask(t, n) == TaskShape(t) /\ t.id \in 1..n /\ t.tries \in 0..MaxRetry

\* An evaluation has a task that was made, rules to run, and, when it is about
\* to store one, a document.
GoodEval(e, n) ==
    e.at # "idle" =>
        /\ GoodTask(e.task, n)
        /\ e.rules # {}
        /\ e.at \in {"create", "store"} => GoodConv(e.copy.conv)

Proper ==
    /\ GoodConv(conv)
    /\ events \in Nat
    /\ budget \in [n : Nat, expires : BOOLEAN]
    /\ enabled \subseteq load.rules
    /\ \A t \in tasks : GoodTask(t, events)
    /\ \A w \in Workers : GoodEval(eval[w], events)

\* What an action makes of a document, when it changes it, is a document: an
\* agent or a sector that does not exist is never assigned.
LEMMA MutatedIsGood ==
    ASSUME NEW a, NEW c, GoodConv(c), Mutated(a, c).event # None
    PROVE  GoodConv(Mutated(a, c).conv)
<1> DEFINE m == Mutated(a, c)
<1>0. /\ c.agent \in Agents \cup {None} /\ c.sector \in Sectors \cup {None} /\ c.status \in Statuses
      /\ {"new", "queued", "assigned", "resolved"} \subseteq Statuses
  BY DEF GoodConv, Statuses, ClosedStatuses
<1>1. ASSUME NEW ag \in Agents \cup {None}, NEW st \in Statuses, m.conv = [c EXCEPT !.agent = ag, !.status = st]
      PROVE  GoodConv(m.conv)
  BY <1>1 DEF GoodConv
<1>2. ASSUME NEW se \in Sectors \cup {None}, NEW st \in Statuses, m.conv = [c EXCEPT !.sector = se, !.status = st]
      PROVE  GoodConv(m.conv)
  BY <1>2 DEF GoodConv
<1>3. ASSUME NEW st \in Statuses, NEW b, m.conv = [c EXCEPT !.status = st, !.closedAt = b]
      PROVE  GoodConv(m.conv)
  BY <1>3 DEF GoodConv
<1>4. CASE a.type = "assign_agent"
  <2>1. m.conv = [c EXCEPT !.agent = a.arg, !.status = "assigned"] /\ a.arg \in Agents
    BY <1>4 DEF Mutated, Messaging
  <2> QED BY <1>0, <1>1, <2>1
<1>5. CASE a.type = "assign_team"
  <2>1. /\ m.conv = [c EXCEPT !.sector = a.arg, !.status = IF c.agent = None THEN "queued" ELSE c.status]
        /\ a.arg \in Sectors
    BY <1>5 DEF Mutated, Messaging
  <2> QED BY <1>0, <1>2, <2>1
<1>6. CASE a.type = "remove_assigned_agent"
  <2>1. m.conv = [c EXCEPT !.agent = None, !.status = IF c.sector # None THEN "queued" ELSE c.status]
    BY <1>6 DEF Mutated, Messaging
  <2> QED BY <1>0, <1>1, <2>1
<1>7. CASE a.type = "remove_assigned_team"
  <2>1. m.conv = [c EXCEPT !.sector = None]
    BY <1>7 DEF Mutated, Messaging
  <2> QED BY <2>1 DEF GoodConv
<1>8. CASE a.type \in {"add_tag", "remove_tag"}
  <2>1. \E tags : m.conv = [c EXCEPT !.tags = tags]
    BY <1>8 DEF Mutated, Messaging
  <2> QED BY <2>1 DEF GoodConv
<1>9. CASE a.type = "change_priority"
  <2>1. m.conv = [c EXCEPT !.priority = a.arg]
    BY <1>9 DEF Mutated, Messaging
  <2> QED BY <2>1 DEF GoodConv
<1>10. CASE a.type = "resolve_conversation"
  <2>1. m.conv = [c EXCEPT !.status = "resolved", !.closedAt = TRUE]
    BY <1>10 DEF Mutated, Messaging
  <2> QED BY <1>0, <1>3, <2>1
<1>11. CASE a.type = "open_conversation"
  <2>1. m.conv = [c EXCEPT !.status = IF c.agent # None THEN "assigned"
                                      ELSE IF c.sector # None THEN "queued" ELSE "new",
                           !.closedAt = FALSE]
    BY <1>11 DEF Mutated, Messaging
  <2> QED BY <1>0, <1>3, <2>1
<1>12. CASE a.type = "mark_pending"
  <2>1. m.conv = [c EXCEPT !.status = "queued"]
    BY <1>12 DEF Mutated, Messaging
  <2> QED BY <1>0, <2>1 DEF GoodConv
<1>13. CASE a.type \in Messaging
  <2>1. m.conv = c
    BY <1>13 DEF Mutated, Messaging
  <2> QED BY <2>1
<1>14. CASE a.type \notin {"assign_agent", "assign_team", "remove_assigned_agent",
                          "remove_assigned_team", "add_tag", "remove_tag", "change_priority",
                          "resolve_conversation", "open_conversation", "mark_pending"}
                         \cup Messaging
  <2>1. m.event = None
    BY <1>14 DEF Mutated, Messaging
  <2> QED BY <2>1
<1> QED BY <1>4, <1>5, <1>6, <1>7, <1>8, <1>9, <1>10, <1>11, <1>12, <1>13, <1>14

\* The evaluation after a rule and after an action has rules left to run.
LEMMA NextIsGood ==
    ASSUME NEW e, NEW n, GoodEval(e, n), e.at # "idle", e.k \in Nat
    PROVE  GoodEval(Idle, n) /\ GoodEval(NextRule(e), n) /\ GoodEval(NextAction(e), n)
<1>1. GoodEval(Idle, n)
  BY DEF GoodEval, Idle
<1>2. GoodEval(NextRule(e), n)
  <2> DEFINE rest == e.rules \ {FirstOf(e.rules)}
             f == [Idle EXCEPT !.at = "rule", !.task = e.task, !.rules = rest]
  <2>1. NextRule(e) = IF rest = {} THEN Idle ELSE f
    BY DEF NextRule
  <2>2. f.at = "rule" /\ f.task = e.task /\ f.rules = rest
    BY DEF Idle
  <2> HIDE DEF f, rest
  <2>3. rest # {} => GoodEval(f, n)
    BY <2>2 DEF GoodEval
  <2> QED BY <1>1, <2>1, <2>3
<1>3. GoodEval(NextAction(e), n)
  <2> DEFINE f == [Idle EXCEPT !.at = "act", !.task = e.task, !.rules = e.rules, !.k = e.k + 1]
  <2>1. NextAction(e) \in {NextRule(e), f}
    BY DEF NextAction
  <2>2. f.at = "act" /\ f.task = e.task /\ f.rules = e.rules
    BY DEF Idle
  <2> HIDE DEF f
  <2>3. GoodEval(f, n)
    BY <2>2 DEF GoodEval
  <2> QED BY <1>2, <2>1, <2>3
<1> QED BY <1>1, <1>2, <1>3

\* Events are only added.
LEMMA GoodLater ==
    ASSUME NEW n \in Nat, NEW t, GoodTask(t, n) PROVE GoodTask(t, n + 1)
BY DEF GoodTask

\* A task that is new.
LEMMA EventIsGood ==
    ASSUME NEW n \in Nat, NEW name, NEW reply, NEW origin, NEW depth
    PROVE  GoodTask(Event(n + 1, name, reply, origin, depth), n + 1)
<1> DEFINE t == Event(n + 1, name, reply, origin, depth)
<1>1. TaskShape(t) /\ t.id = n + 1
  BY EventShape
<1>2. t.tries = 0
  BY DEF Event
<1> HIDE DEF t
<1>3. 0 \in 0..MaxRetry /\ n + 1 \in 1..(n + 1)
  BY AutomationAssumption
<1>4. GoodTask(t, n + 1)
  BY <1>1, <1>2, <1>3 DEF GoodTask
<1> QED BY <1>4 DEF t

\* A step that stores a document, adds tasks and changes one evaluation.
LEMMA ProperStep ==
    ASSUME Proper, GoodConv(conv'), events' \in {events, events + 1},
           budget' \in [n : Nat, expires : BOOLEAN], UNCHANGED <<enabled, load>>,
           \A t \in tasks' : t \in tasks \/ GoodTask(t, events'),
           \A w \in Workers : eval'[w] = eval[w] \/ GoodEval(eval'[w], events')
    PROVE  Proper'
<1>1. events \in Nat /\ events' \in Nat
  BY DEF Proper
<1>2. \A t : GoodTask(t, events) => GoodTask(t, events')
  BY <1>1, GoodLater
<1>3. \A e : GoodEval(e, events) => GoodEval(e, events')
  BY <1>2 DEF GoodEval
<1>4. \A t \in tasks' : GoodTask(t, events')
  BY <1>2 DEF Proper
<1>5. \A w \in Workers : GoodEval(eval'[w], events')
  BY <1>3 DEF Proper
<1>6. enabled' \subseteq load'.rules
  BY DEF Proper
<1> QED BY <1>1, <1>4, <1>5, <1>6 DEF Proper

\* The steps of a worker.
LEMMA EvaluateProper ==
    ASSUME Shaped, Proper, NEW w \in Workers, Evaluate(w) PROVE Proper'
<1> DEFINE e == eval[w]
<1>0. /\ Shape(e) /\ e.k \in Nat /\ GoodEval(e, events) /\ GoodConv(conv)
      /\ budget \in [n : Nat, expires : BOOLEAN] /\ events \in Nat /\ events + 1 \in Nat
      /\ GoodEval(Idle, events)
  <2>1. GoodEval(Idle, events)
    BY DEF GoodEval, Idle
  <2> QED BY <2>1 DEF Shaped, Proper
<1>1. ASSUME NEW f, To(w, f), GoodEval(f, events), conv' = conv, events' = events, tasks' \subseteq tasks,
             budget' \in [n : Nat, expires : BOOLEAN], UNCHANGED <<enabled, load>>
      PROVE  Proper'
  <2>1. \A v \in Workers : eval'[v] = eval[v] \/ GoodEval(eval'[v], events')
    BY <1>1, ToSteps
  <2>2. \A t \in tasks' : t \in tasks
    BY <1>1
  <2> QED BY <1>0, <1>1, <2>1, <2>2, ProperStep
<1>2. ASSUME e.at # "idle" PROVE GoodEval(NextRule(e), events) /\ GoodEval(NextAction(e), events)
  BY <1>0, <1>2, NextIsGood
<1>3. ASSUME e.at # "idle", NEW a, a \notin {"create", "store"}
      PROVE  GoodEval([e EXCEPT !.at = a], events)
  <2> DEFINE f == [e EXCEPT !.at = a]
  <2>1. f.at = a /\ f.task = e.task /\ f.rules = e.rules
    BY <1>0 DEF Shape
  <2> HIDE DEF f
  <2>2. GoodEval(f, events)
    BY <1>0, <1>3, <2>1 DEF GoodEval
  <2> QED BY <2>2 DEF f
<1>4. ASSUME e.at # "idle" PROVE GoodEval([e EXCEPT !.at = "act", !.k = 1], events)
  <2> DEFINE f == [e EXCEPT !.at = "act", !.k = 1]
  <2>1. f.at = "act" /\ f.task = e.task /\ f.rules = e.rules
    BY <1>0 DEF Shape
  <2> HIDE DEF f
  <2>2. GoodEval(f, events)
    BY <1>0, <1>4, <2>1 DEF GoodEval
  <2> QED BY <2>2 DEF f
<1>5. CASE Take(w)
  <2>1. PICK t \in tasks : LET rs == {r \in enabled : RuleBook[r].event \in RuleEvents(t)}
          IN  To(w, IF t.origin = "automation" \/ t.depth > MaxDepth \/ rs = {} THEN Idle
                    ELSE [Idle EXCEPT !.at = "hydrate", !.task = t, !.rules = rs])
    BY <1>5 DEF Take
  <2>2. UNCHANGED <<conv, events, budget, enabled, load>> /\ tasks' \subseteq tasks
    BY <1>5 DEF Take
  <2> DEFINE rs == {r \in enabled : RuleBook[r].event \in RuleEvents(t)}
             f == [Idle EXCEPT !.at = "hydrate", !.task = t, !.rules = rs]
  <2>3. To(w, Idle) \/ (To(w, f) /\ rs # {})
    BY <2>1
  <2>4. f.at = "hydrate" /\ f.task = t /\ f.rules = rs
    BY DEF Idle
  <2>5. GoodTask(t, events)
    BY DEF Proper
  <2> HIDE DEF f, rs
  <2>6. rs # {} => GoodEval(f, events)
    BY <2>4, <2>5 DEF GoodEval
  <2> QED BY <1>0, <1>1, <2>2, <2>3, <2>6
<1>6. ASSUME NEW s \in {"hydrate", "rehydrate"}, NEW n \in {"rehydrate", "rule"}, Hydrate(w, s, n)
      PROVE  Proper'
  <2> DEFINE rs == {r \in e.rules : Matches(r, conv)}
             f == [e EXCEPT !.at = n, !.rules = rs]
  <2>1. (To(w, Idle) \/ (To(w, f) /\ rs # {})) /\ e.at = s
    BY <1>6 DEF Hydrate, At
  <2>2. UNCHANGED <<conv, events, budget, enabled, load, tasks>>
    BY <1>6 DEF Hydrate
  <2>3. f.at = n /\ f.task = e.task /\ f.rules = rs
    BY <1>0 DEF Shape
  <2> HIDE DEF f, rs
  <2>4. rs # {} => GoodEval(f, events)
    BY <1>0, <2>1, <2>3 DEF GoodEval
  <2> QED BY <1>0, <1>1, <2>1, <2>2, <2>4
<1>7. CASE Claim(w)
  <2>1. e.at = "rule" /\ UNCHANGED <<conv, events, budget, enabled, load, tasks>>
    BY <1>7 DEF Claim, At
  <2>2. To(w, NextRule(e)) \/ To(w, [e EXCEPT !.at = "act", !.k = 1])
    BY <1>7 DEF Claim
  <2> QED BY <1>0, <1>1, <1>2, <1>4, <2>1, <2>2
<1>8. CASE RedisDown(w)
  <2>1. e.at # "idle" /\ UNCHANGED <<conv, events, enabled, load, tasks>>
    BY <1>8 DEF RedisDown, At
  <2>2. To(w, [e EXCEPT !.at = "act", !.k = 1]) \/ To(w, [e EXCEPT !.at = "load"])
    BY <1>8 DEF RedisDown, Run
  <2>3. budget' = budget \/ budget' = [budget EXCEPT !.n = budget.n + 1]
    BY <1>8 DEF RedisDown
  <2>4. budget' \in [n : Nat, expires : BOOLEAN]
    BY <1>0, <2>3
  <2> QED BY <1>1, <1>3, <1>4, <2>1, <2>2, <2>4
<1>9. CASE Act(w)
  <2>1. e.at # "idle" /\ UNCHANGED <<conv, events, budget, enabled, load, tasks>>
    BY <1>9 DEF Act, At
  <2>2. \/ To(w, NextAction(e)) \/ To(w, [e EXCEPT !.at = "incr"])
        \/ To(w, [e EXCEPT !.at = "deals"]) \/ To(w, [e EXCEPT !.at = "load"])
    BY <1>9 DEF Act
  <2> QED BY <1>0, <1>1, <1>2, <1>3, <2>1, <2>2
<1>10. CASE Incr(w)
  <2>1. e.at # "idle" /\ UNCHANGED <<conv, events, enabled, load, tasks>>
    BY <1>10 DEF Incr, At
  <2>2. budget' = [budget EXCEPT !.n = budget.n + 1]
    BY <1>10 DEF Incr
  <2>3. budget' \in [n : Nat, expires : BOOLEAN]
    BY <1>0, <2>2
  <2>4. \/ To(w, NextAction(e)) \/ To(w, [e EXCEPT !.at = "expire"]) \/ To(w, [e EXCEPT !.at = "load"])
    BY <1>10 DEF Incr
  <2> QED BY <1>1, <1>2, <1>3, <2>1, <2>3, <2>4
<1>11. CASE Expire(w)
  <2>1. e.at # "idle" /\ UNCHANGED <<conv, events, enabled, load, tasks>>
    BY <1>11 DEF Expire, At
  <2>2. budget' = budget \/ budget' = [budget EXCEPT !.expires = TRUE]
    BY <1>11 DEF Expire
  <2>3. budget' \in [n : Nat, expires : BOOLEAN]
    BY <1>0, <2>2
  <2>4. To(w, NextAction(e)) \/ To(w, [e EXCEPT !.at = "load"])
    BY <1>11 DEF Expire, Run
  <2> QED BY <1>1, <1>2, <1>3, <2>1, <2>3, <2>4
<1>12. CASE Load(w)
  <2> DEFINE m == Mutated(Action(w), conv)
             at == IF m.event = "message.created" THEN "create" ELSE "store"
             f == [e EXCEPT !.copy = m, !.at = at]
  <2>1. e.at # "idle" /\ UNCHANGED <<conv, events, budget, enabled, load, tasks>>
    BY <1>12 DEF Load, At
  <2>2. To(w, NextAction(e)) \/ (m.event # None /\ To(w, f))
    BY <1>12 DEF Load
  <2>3. m.event # None => GoodConv(m.conv)
    BY <1>0, MutatedIsGood
  <2> HIDE DEF m
  <2>4. f.copy = m /\ f.task = e.task /\ f.rules = e.rules
    BY <1>0 DEF Shape
  <2> HIDE DEF f
  <2>5. m.event # None => GoodEval(f, events)
    BY <1>0, <2>1, <2>3, <2>4 DEF GoodEval
  <2> QED BY <1>0, <1>1, <1>2, <2>1, <2>2, <2>5
<1>13. CASE Create(w)
  <2> DEFINE f == [e EXCEPT !.at = "store"]
  <2>1. e.at = "create" /\ UNCHANGED <<conv, events, budget, enabled, load, tasks>> /\ To(w, f)
    BY <1>13 DEF Create, At, Run
  <2>2. f.copy = e.copy /\ f.task = e.task /\ f.rules = e.rules
    BY <1>0 DEF Shape
  <2> HIDE DEF f
  <2>3. GoodEval(f, events)
    BY <1>0, <2>1, <2>2 DEF GoodEval
  <2> QED BY <1>0, <1>1, <2>1, <2>3
<1>14. CASE Store(w)
  <2> DEFINE t == Event(events + 1, e.copy.event, FALSE, "automation", e.task.depth + 1)
  <2>1. /\ e.at = "store" /\ UNCHANGED <<budget, enabled, load>> /\ To(w, NextAction(e))
        /\ events' = events + 1 /\ tasks' = tasks \cup {t} /\ conv' = e.copy.conv
    BY <1>14 DEF Store, At
  <2>2. GoodConv(conv')
    BY <1>0, <2>1 DEF GoodEval
  <2>3. GoodTask(t, events')
    BY <1>0, <2>1, EventIsGood
  <2> HIDE DEF t
  <2>4. GoodEval(NextAction(e), events')
    <3>1. GoodEval(NextAction(e), events)
      BY <1>2, <2>1
    <3> QED BY <1>0, <2>1, <3>1, GoodLater DEF GoodEval
  <2>5. \A v \in Workers : eval'[v] = eval[v] \/ GoodEval(eval'[v], events')
    BY <2>1, <2>4, ToSteps
  <2>6. \A x \in tasks' : x \in tasks \/ GoodTask(x, events')
    BY <2>1, <2>3
  <2> QED BY <1>0, <2>1, <2>2, <2>5, <2>6, ProperStep
<1>15. ASSUME NEW ds, NEW i, NEW a, FindDeals(w) \/ NextDeal(w),
              To(w, [e EXCEPT !.at = "moving", !.deals = Left(ds, i, a)])
                \/ To(w, [e EXCEPT !.deals = Left(ds, i, a)]),
              At(w, "deals") \/ To(w, [e EXCEPT !.deals = Left(ds, i, a)])
       PROVE  Proper'
  <2> DEFINE l == Left(ds, i, a)
             f == [e EXCEPT !.at = "moving", !.deals = l]
             g == [e EXCEPT !.deals = l]
  <2>1. UNCHANGED <<conv, events, budget, enabled, load, tasks>>
    BY <1>15 DEF FindDeals, NextDeal
  <2>2. /\ f.at = "moving" /\ f.task = e.task /\ f.rules = e.rules
        /\ g.at = e.at /\ g.task = e.task /\ g.rules = e.rules /\ g.copy = e.copy
    BY <1>0 DEF Shape
  <2>3. (To(w, f) /\ e.at # "idle") \/ To(w, g)
    BY <1>15 DEF At
  <2> HIDE DEF f, g
  <2>4. GoodEval(g, events) /\ (e.at # "idle" => GoodEval(f, events))
    BY <1>0, <2>2 DEF GoodEval
  <2> QED BY <1>0, <1>1, <2>1, <2>3, <2>4
<1>16. CASE FindDeals(w)
  <2>1. \/ To(w, NextAction(e))
        \/ \E i : To(w, [e EXCEPT !.at = "moving", !.deals = Left(deals, i, Action(w))])
    BY <1>16 DEF FindDeals
  <2>2. At(w, "deals") /\ e.at # "idle" /\ UNCHANGED <<conv, events, budget, enabled, load, tasks>>
    BY <1>16 DEF FindDeals, At
  <2>3. CASE To(w, NextAction(e))
    BY <1>0, <1>1, <1>2, <2>2, <2>3
  <2> QED BY <1>15, <1>16, <2>1, <2>2, <2>3
<1>17. CASE NextDeal(w)
  <2>1. \/ UNCHANGED eval
        \/ \E i : To(w, [e EXCEPT !.deals = Left(e.deals, i, Action(w))])
    BY <1>17 DEF NextDeal
  <2>2. UNCHANGED <<conv, events, budget, enabled, load, tasks>>
    BY <1>17 DEF NextDeal
  <2>3. CASE UNCHANGED eval
    BY <2>2, <2>3 DEF Proper
  <2> QED BY <1>15, <1>17, <2>1, <2>3
<1>18. CASE Moved(w)
  <2>1. e.at # "idle" /\ To(w, NextAction(e)) /\ UNCHANGED <<conv, events, budget, enabled, load, tasks>>
    BY <1>18 DEF Moved, At
  <2> QED BY <1>0, <1>1, <1>2, <2>1
<1>19. CASE Fail(w)
  <2> DEFINE t == e.task
             u == [t EXCEPT !.tries = @ + 1]
  <2>1. /\ e.at # "idle" /\ To(w, Idle) /\ UNCHANGED <<conv, events, budget, enabled, load>>
        /\ tasks' = IF t.tries < MaxRetry THEN tasks \cup {u} ELSE tasks
    BY <1>19 DEF Fail, At
  <2>2. GoodTask(t, events)
    BY <1>0, <2>1 DEF GoodEval
  <2>3. t.tries < MaxRetry => GoodTask(u, events)
    <3> HIDE DEF t
    <3>1. u.id = t.id /\ u.tries = t.tries + 1 /\ TaskShape(u)
      BY <2>2 DEF GoodTask, TaskShape
    <3> HIDE DEF u
    <3> QED BY <2>2, <3>1, AutomationAssumption DEF GoodTask
  <2> HIDE DEF u
  <2>4. \A x \in tasks' : x \in tasks \/ GoodTask(x, events')
    BY <2>1, <2>3
  <2>5. \A v \in Workers : eval'[v] = eval[v] \/ GoodEval(eval'[v], events')
    BY <1>0, <2>1, ToSteps
  <2> QED BY <1>0, <2>1, <2>4, <2>5, ProperStep
<1> QED BY <1>5, <1>6, <1>7, <1>8, <1>9, <1>10, <1>11, <1>12, <1>13, <1>14, <1>16, <1>17, <1>18, <1>19
    DEF Evaluate, FirstHydrate, Rehydrate

LEMMA ProperSteps == Shaped /\ Proper /\ [Next]_vars => Proper'
<1> SUFFICES ASSUME Shaped, Proper, [Next]_vars PROVE Proper'
  OBVIOUS
<1>0. GoodConv(conv) /\ events \in Nat /\ budget \in [n : Nat, expires : BOOLEAN]
  BY DEF Proper
<1>1. ASSUME NEW name, NEW reply, NEW c, Happens(name, reply, c), GoodConv(c) PROVE Proper'
  <2>1. /\ conv' = c /\ events' = events + 1 /\ UNCHANGED <<enabled, budget, eval, load>>
        /\ tasks' = tasks \cup {Event(events + 1, name, reply, "external", 0)}
    BY <1>1 DEF Happens
  <2>2. GoodTask(Event(events + 1, name, reply, "external", 0), events')
    BY <1>0, <2>1, EventIsGood
  <2>3. \A t \in tasks' : t \in tasks \/ GoodTask(t, events')
    BY <2>1, <2>2
  <2> QED BY <1>0, <1>1, <2>1, <2>3, ProperStep
<1>2. CASE MessageArrives
  BY <1>0, <1>1, <1>2 DEF MessageArrives
<1>3. GoodConv(Closed(conv)) /\ GoodConv([conv EXCEPT !.status = "resolved"]) /\ GoodConv(Reopened(conv))
  <2>1. {"new", "queued", "assigned", "resolved", "closed"} \subseteq Statuses
    BY DEF Statuses, ClosedStatuses
  <2>2. ASSUME NEW st \in Statuses, NEW b PROVE GoodConv([conv EXCEPT !.status = st, !.closedAt = b])
    BY <1>0, <2>2 DEF GoodConv
  <2>3. ASSUME NEW st \in Statuses PROVE GoodConv([conv EXCEPT !.status = st])
    BY <1>0, <2>3 DEF GoodConv
  <2> QED BY <2>1, <2>2, <2>3 DEF Closed, Reopened
<1>4. CASE AgentCloses \/ AgentResolves \/ AgentReopens
  BY <1>1, <1>3, <1>4 DEF AgentCloses, AgentResolves, AgentReopens
<1>5. CASE ManageRule
  <2>1. enabled' \subseteq load'.rules
    BY <1>5 DEF ManageRule, Proper
  <2> QED BY <1>5, <2>1 DEF ManageRule, Proper
<1>6. CASE WindowEnds
  <2>1. /\ budget' = [n |-> 0, expires |-> FALSE]
        /\ UNCHANGED <<conv, events, enabled, load, tasks>>
        /\ \A w \in Workers : eval'[w] \in {eval[w], [eval[w] EXCEPT !.late = TRUE]}
    BY <1>6 DEF WindowEnds
  <2>2. budget' \in [n : Nat, expires : BOOLEAN]
    BY <2>1
  <2>3. ASSUME NEW w \in Workers PROVE GoodEval(eval'[w], events')
    <3> DEFINE f == [eval[w] EXCEPT !.late = TRUE]
    <3>1. Shape(eval[w]) /\ GoodEval(eval[w], events)
      BY DEF Shaped, Proper
    <3>2. /\ f.at = eval[w].at /\ f.task = eval[w].task /\ f.rules = eval[w].rules
          /\ f.copy = eval[w].copy
      BY <3>1 DEF Shape
    <3> HIDE DEF f
    <3>3. GoodEval(f, events)
      BY <3>1, <3>2 DEF GoodEval
    <3> QED BY <2>1, <3>1, <3>3 DEF f
  <2> QED BY <1>0, <2>1, <2>2, <2>3, ProperStep
<1>7. CASE UserWorks
  BY <1>7 DEF UserWorks, rules, Proper
<1>8. CASE ClaimEnds
  BY <1>8 DEF ClaimEnds, Proper
<1>9. CASE UNCHANGED vars
  BY <1>9 DEF vars, rules, Proper
<1> QED BY <1>2, <1>4, <1>5, <1>6, <1>7, <1>8, <1>9, EvaluateProper DEF Next

\* The documents are well formed whatever rules, users and failures: a deal's
\* value is a number however many lines it has (deal.go, RecalcValue), no rule
\* assigns an agent or a sector that does not exist (automation_actions.go), a
\* task is retried at most MaxRetry times, and an evaluation that goes on has a
\* rule to run (evaluator.go).
THEOREM TypeCorrect == Spec => []TypeOK
<1>1. Init => Proper
  <2> SUFFICES ASSUME Init PROVE Proper
    OBVIOUS
  <2>1. /\ conv = [status |-> "new", agent |-> None, sector |-> None, queue |-> None,
                   closedAt |-> FALSE, priority |-> "normal", tags |-> {}]
        /\ tasks = {} /\ events = 0 /\ enabled = load.rules
        /\ budget = [n |-> 0, expires |-> FALSE] /\ eval = [w \in Workers |-> Idle]
    BY DEF Init
  <2>2. GoodConv(conv)
    BY <2>1 DEF GoodConv, Statuses
  <2>3. \A w \in Workers : GoodEval(eval[w], events)
    BY <2>1 DEF GoodEval, Idle
  <2> QED BY <2>1, <2>2, <2>3 DEF Proper
<1>2. Filed /\ Proper => TypeOK
  <2> SUFFICES ASSUME Filed, Proper PROVE TypeOK
    OBVIOUS
  <2>1. CrmTypeOK
    <3>1. deals \in Seq(SoundCard \cup {Gone}) /\ pipes \in Seq(Pipe \cup {Gone})
      BY DEF Filed, Documents
    <3>2. \A i \in DOMAIN deals : deals[i] = Gone \/ deals[i] \in Deal
      BY <3>1, ElementOfSeq, LenProperties DEF SoundCard
    <3>3. \A p \in DOMAIN pipes : pipes[p] = Gone \/ pipes[p] \in Pipe
      BY <3>1, ElementOfSeq, LenProperties
    <3> QED BY <3>2, <3>3 DEF CrmTypeOK
  <2>2. /\ conv.status \in Statuses
        /\ conv.agent \in Agents \cup {None} /\ conv.sector \in Sectors \cup {None}
    BY DEF Proper, GoodConv
  <2>3. budget.n \in Nat /\ enabled \subseteq load.rules
    BY DEF Proper
  <2>4. \A t \in tasks : t.id \in 1..events /\ t.tries \in 0..MaxRetry
    BY DEF Proper, GoodTask
  <2>5. \A w \in Workers : eval[w].at # "idle" => eval[w].task.id \in 1..events /\ eval[w].rules # {}
    BY DEF Proper, GoodEval, GoodTask
  <2> QED BY <2>1, <2>2, <2>3, <2>4, <2>5 DEF TypeOK
<1> QED BY <1>1, <1>2, ProperSteps, FiledHolds, PTL DEF Spec
=============================================================================
