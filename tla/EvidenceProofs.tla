--------------------------- MODULE EvidenceProofs ---------------------------
(***************************************************************************)
(* Theorems about the collection of evidence and its cache, for any number *)
(* of processes, metrics, sources and values and any time limits: types,   *)
(* what the cache serves is fresh, the tiers are asked in turn, and a      *)
(* metric takes the time budget and one call at most.                      *)
(*                                                                         *)
(* What a bundle will satisfy when it is done is decided while it is made, *)
(* so the invariant IInv says of every call how far its bundle is:         *)
(* InProgress relates the answers to the tier and to the sources that are  *)
(* left, OnTime relates the clock to the start and to the last question.   *)
(***************************************************************************)
EXTENDS Evidence, WellFoundedInduction, TLAPS

\* The assumptions of Evidence about its constants.
Assumptions == PlanAssumption /\ RequestAssumption /\ TimeAssumption

Rank == 1 .. 3

Call == [at : Place, todo : Seq(Metric), cache : {"yes", "no"},
         policy : Policy \cup {"strict"}, held : Row \cup {NoRow},
         bundle : Bundle \cup {NoRow}, tier : Rank,
         left : SUBSET Source, since : Time]

\* No source answered before the bundle was begun.
Dated(b) == \A s \in Used(b) : b.made <= b.answers[s].at

\* The source was asked, or its tier was given up.
Settled(b, s) ==
    \/ b.answers[s].status # "unasked"
    \/ \E r \in Source : Tier[r] = Tier[s] /\ b.answers[r].status = "skipped"

\* What TiersInTurn asks of a bundle.
InTurn(b) ==
    \A s \in Capable[b.metric] :
        LET status == b.answers[s].status IN
        /\ status \in {"success", "failed"} => ~ Enough(Before(b, Tier[s]))
        /\ status = "unasked" =>
               \/ Enough(Before(b, Tier[s]))
               \/ \E r \in Source : Tier[r] = Tier[s] /\ b.answers[r].status = "skipped"

\* A bundle of which the sources "left" of tier t are still to be asked.
InProgress(b, t, left) ==
    /\ left \subseteq Group(b.metric, t)
    /\ \A s \in Source : s \in left \/ Tier[s] > t => b.answers[s] = Unasked
    /\ \A u \in 1 .. t : ~ Enough(Before(b, u))
    /\ \A s \in Capable[b.metric] : Tier[s] <= t => s \in left \/ Settled(b, s)

\* The answer of a source of the bundle, and the sources that are left then.
WithAnswer(b, s, a) == [b EXCEPT !.answers[s] = a]
LeftAfter(left, a) == IF a.status = "skipped" THEN {} ELSE left \ {First(left)}

\* How long the collection has taken so far.
OnTime(j, now) ==
    IF j.at = "asked"
    THEN /\ j.bundle.made <= j.since /\ j.since <= now
         /\ j.since - j.bundle.made <= MaxTotalTime /\ now - j.since <= LongestCall
    ELSE j.bundle.made <= now /\ now - j.bundle.made <= MaxTotalTime + LongestCall

CallOK(j, now) ==
    /\ j.at # "idle" => j.policy \in Policy
    /\ j.at \in {"judge", "collect", "asked", "save"} => j.todo # <<>>
    /\ j.held # NoRow => Dated(j.held.bundle) /\ InTurn(j.held.bundle)
    /\ j.at \in {"collect", "asked", "save"} =>
           /\ j.bundle \in Bundle /\ Dated(j.bundle)
           /\ InProgress(j.bundle, j.tier, j.left) /\ OnTime(j, now)
    /\ j.at = "asked" => j.left # {}
    /\ j.at = "save" => j.left = {} /\ (Enough(j.bundle) \/ j.tier = 3)

CallsOK == \A c \in Client : CallOK(job[c], clock)

TablesTyped ==
    /\ rows \in [Metric -> Row \cup {NoRow}]
    /\ got \in [Client -> [Metric -> Served \cup {NoRow}]]
    /\ forced \in [Client -> [Metric -> Time]]

RowsOK == \A m \in Metric : rows[m] # NoRow => Dated(rows[m].bundle) /\ InTurn(rows[m].bundle)

GotOK ==
    /\ ServedIsFresh
    /\ \A c \in Client, m \in Metric : got[c][m] # NoRow => InTurn(got[c][m].bundle)

TablesOK == TablesTyped /\ RowsOK /\ GotOK

IInv ==
    /\ clock \in Time /\ job \in [Client -> Call]
    /\ TablesOK
    /\ CallsOK

-----------------------------------------------------------------------------
(* Lemmas about the operators                                              *)

\* The least number of a set of them, by the well-foundedness of the natural numbers.
LEMMA LeastNumber ==
    ASSUME NEW T, T \subseteq Nat, T # {}
    PROVE  \E x \in T : \A y \in T : x <= y
<1>1. IsWellFoundedOn(OpToRel(<, Nat), Nat)
  BY NatLessThanWellFounded, Zenon
<1>2. PICK x \in T : \A y \in T : ~ (<<y, x>> \in OpToRel(<, Nat))
  BY <1>1, WFMin, Zenon
<1>3. \A y \in T : ~ (y < x)
  BY <1>2 DEF OpToRel
<1>4. x \in T
  BY <1>2
<1>5. QED
  BY <1>3, <1>4

\* The source that is asked first is one of the group.
LEMMA FirstIsLeft ==
    ASSUME PlanAssumption, NEW group \in SUBSET Source, group # {}
    PROVE  First(group) \in group
<1> DEFINE places == {i \in DOMAIN Order : Order[i] \in group}
<1>1. DOMAIN Order = 1 .. Len(Order) /\ Len(Order) \in Nat
  BY DEF PlanAssumption
<1>2. places # {} /\ places \subseteq Nat
  BY <1>1 DEF PlanAssumption
<1>3. PICK x \in places : \A y \in places : x <= y
  BY <1>2, LeastNumber
<1>4. Min(places) \in places
  BY <1>3 DEF Min
<1>5. QED
  BY <1>4 DEF First

\* Nothing is not enough.
LEMMA NothingIsNotEnough ==
    ASSUME NEW b, \A s \in Source : b.answers[s].status # "success"
    PROVE  ~ Enough(b)
  BY DEF Enough, Used

\* What a bundle had before a tier depends on the sources of better tiers only.
LEMMA BeforeDepends ==
    ASSUME NEW b \in Bundle, NEW d \in Bundle, NEW t,
           d.metric = b.metric, d.policy = b.policy, d.made = b.made,
           \A s \in Source : Tier[s] < t => d.answers[s] = b.answers[s]
    PROVE  Before(d, t) = Before(b, t)
  BY DEF Before, Bundle

\* A bundle without answers of tier t and worse ones is what it was before t.
LEMMA BeforeIsAll ==
    ASSUME NEW b \in Bundle, NEW t,
           \A s \in Source : ~ (Tier[s] < t) => b.answers[s] = Unasked
    PROVE  Before(b, t) = b
<1>1. [s \in Source |-> IF Tier[s] < t THEN b.answers[s] ELSE Unasked] = b.answers
  BY DEF Bundle
<1>2. QED
  BY <1>1 DEF Before, Bundle

\* The answer of a source that is asked in its tier.
LEMMA AnswerStep ==
    ASSUME Assumptions, NEW b \in Bundle, NEW t \in 1 .. 3, NEW left, InProgress(b, t, left), Dated(b),
           left # {}, NEW a \in Answer, a.status \in {"success", "failed", "skipped"},
           a.status = "success" => b.made <= a.at
    PROVE  LET d == WithAnswer(b, First(left), a)
           IN  d \in Bundle /\ d.made = b.made /\ Dated(d) /\ InProgress(d, t, LeftAfter(left, a))
<1> DEFINE f == First(left)
           d == WithAnswer(b, f, a)
           rest == LeftAfter(left, a)
<1>0. /\ d = [b EXCEPT !.answers[f] = a] /\ rest \subseteq left /\ f \notin rest
      /\ a.status # "skipped" => \A s \in left : s # f => s \in rest
  BY DEF WithAnswer, LeftAfter
<1>1. left \in SUBSET Source /\ left \subseteq Group(b.metric, t)
  BY DEF InProgress, Group, Bundle, Assumptions, PlanAssumption
<1>2. f \in left /\ f \in Source /\ Tier[f] = t
  BY <1>1, FirstIsLeft DEF Group, Assumptions
<1> HIDE DEF f, d, rest
<1>3. /\ d \in Bundle /\ d.made = b.made /\ d.metric = b.metric /\ d.policy = b.policy
      /\ d.answers[f] = a
      /\ \A s \in Source : s # f => d.answers[s] = b.answers[s]
  BY <1>0, <1>2 DEF Bundle
<1>4. Dated(d)
  BY <1>3 DEF Dated, Used
<1>5. rest \subseteq Group(d.metric, t)
  BY <1>0, <1>1, <1>3
<1>6. \A s \in Source : s \in rest \/ Tier[s] > t => d.answers[s] = Unasked
  <2>1. \A s \in rest : s # f /\ s \in left
    BY <1>0
  <2>2. \A s \in Source : s = f => ~ (Tier[s] > t)
    BY <1>2
  <2>3. QED
    BY <1>3, <2>1, <2>2 DEF InProgress
<1>7. ASSUME NEW u \in 1 .. t PROVE ~ Enough(Before(d, u))
  <2>1. \A s \in Source : Tier[s] < u => d.answers[s] = b.answers[s]
    BY <1>2, <1>3 DEF Assumptions, PlanAssumption
  <2>2. Before(d, u) = Before(b, u)
    BY <1>3, <2>1, BeforeDepends
  <2>3. QED
    BY <2>2 DEF InProgress
<1>8. ASSUME NEW s \in Capable[d.metric], Tier[s] <= t PROVE s \in rest \/ Settled(d, s)
  <2>0. s \in Source
    BY <1>3 DEF Bundle, Assumptions, PlanAssumption
  <2>1. s \in left \/ Settled(b, s)
    BY <1>3, <1>8 DEF InProgress
  <2>2. CASE s = f
    BY <1>3, <2>2 DEF Settled
  <2>3. CASE s \in left /\ s # f /\ a.status = "skipped"
    <3>1. Tier[s] = Tier[f]
      BY <1>1, <1>2, <2>3 DEF Group
    <3>2. QED
      BY <1>2, <1>3, <2>3, <3>1 DEF Settled
  <2>4. CASE s \in left /\ s # f /\ a.status # "skipped"
    BY <1>0, <2>4
  <2>5. CASE s # f /\ Settled(b, s)
    <3>1. CASE b.answers[s].status # "unasked"
      BY <1>3, <2>0, <2>5, <3>1 DEF Settled
    <3>2. CASE \E r \in Source : Tier[r] = Tier[s] /\ b.answers[r].status = "skipped"
      <4>1. PICK r \in Source : Tier[r] = Tier[s] /\ b.answers[r].status = "skipped"
        BY <3>2
      <4>2. CASE r # f
        BY <1>3, <4>1, <4>2 DEF Settled
      <4>3. r # f
        BY <1>2, <4>1 DEF InProgress, Unasked
      <4>4. QED
        BY <4>2, <4>3
    <3>3. QED
      BY <2>5, <3>1, <3>2 DEF Settled
  <2>6. QED
    BY <2>1, <2>2, <2>3, <2>4, <2>5
<1>9. QED
  BY <1>3, <1>4, <1>5, <1>6, <1>7, <1>8 DEF InProgress, d, f, rest

\* A bundle that is begun: nothing is asked, the official sources are left.
LEMMA NewBundle ==
    ASSUME Assumptions, NEW m \in Metric, NEW p \in Policy, clock \in Time,
           NEW b, b = [metric |-> m, policy |-> p, made |-> clock,
                       answers |-> [s \in Source |-> Unasked]]
    PROVE  b \in Bundle /\ Dated(b) /\ InProgress(b, 1, Group(m, 1))
<1>1. Unasked \in Answer /\ Unasked.status = "unasked"
  BY DEF Unasked, Answer, Time, Assumptions, TimeAssumption
<1>2. b \in Bundle /\ b.metric = m /\ \A s \in Source : b.answers[s] = Unasked
  BY <1>1 DEF Bundle
<1>3. Dated(b)
  BY <1>1, <1>2 DEF Dated, Used
<1>4. ASSUME NEW u \in 1 .. 1 PROVE ~ Enough(Before(b, u))
  <2>1. Before(b, u) = b
    BY <1>2, BeforeIsAll
  <2>2. QED
    BY <1>1, <1>2, <2>1, NothingIsNotEnough
<1>5. \A s \in Capable[b.metric] : Tier[s] <= 1 => s \in Group(m, 1)
  BY SMTT(30), <1>2 DEF Group, Assumptions, PlanAssumption
<1>6. QED
  BY <1>2, <1>3, <1>4, <1>5 DEF InProgress

\* A tier that was not enough is followed by the next one.
LEMMA NextTier ==
    ASSUME Assumptions, NEW b \in Bundle, NEW t \in 1 .. 2, InProgress(b, t, {}), ~ Enough(b)
    PROVE  InProgress(b, t + 1, Group(b.metric, t + 1))
<1>1. Before(b, t + 1) = b
  <2>1. \A s \in Source : ~ (Tier[s] < t + 1) => b.answers[s] = Unasked
    BY DEF InProgress, Assumptions, PlanAssumption
  <2>2. QED
    BY <2>1, BeforeIsAll
<1>2. \A u \in 1 .. t + 1 : ~ Enough(Before(b, u))
  BY <1>1 DEF InProgress
<1>3. \A s \in Source : s \in Group(b.metric, t + 1) \/ Tier[s] > t + 1 => b.answers[s] = Unasked
  BY DEF InProgress, Group, Assumptions, PlanAssumption
<1>4. ASSUME NEW s \in Capable[b.metric], Tier[s] <= t + 1
      PROVE  s \in Group(b.metric, t + 1) \/ Settled(b, s)
  <2>1. s \in Source /\ Tier[s] \in 1 .. 3
    BY DEF Bundle, Assumptions, PlanAssumption
  <2>2. QED
    BY <1>4, <2>1 DEF InProgress, Group
<1>5. QED
  BY <1>2, <1>3, <1>4 DEF InProgress

\* A bundle that is done has asked its tiers in turn.
LEMMA DoneInTurn ==
    ASSUME Assumptions, NEW b \in Bundle, NEW t \in 1 .. 3, InProgress(b, t, {}),
           Enough(b) \/ t = 3
    PROVE  InTurn(b)
<1> SUFFICES ASSUME NEW s \in Capable[b.metric]
             PROVE  /\ b.answers[s].status \in {"success", "failed"} => ~ Enough(Before(b, Tier[s]))
                    /\ b.answers[s].status = "unasked" =>
                          \/ Enough(Before(b, Tier[s]))
                          \/ \E r \in Source : Tier[r] = Tier[s] /\ b.answers[r].status = "skipped"
  BY DEF InTurn
<1>1. s \in Source /\ Tier[s] \in 1 .. 3
  BY DEF Bundle, Assumptions, PlanAssumption
<1>2. CASE Tier[s] <= t
  <2>1. ~ Enough(Before(b, Tier[s]))
    BY <1>1, <1>2 DEF InProgress
  <2>2. Settled(b, s)
    BY <1>2 DEF InProgress
  <2>3. QED
    BY <2>1, <2>2 DEF Settled
<1>3. CASE Tier[s] > t
  <2>1. \A r \in Source : ~ (Tier[r] < Tier[s]) => b.answers[r] = Unasked
    BY <1>1, <1>3 DEF InProgress, Assumptions, PlanAssumption
  <2>2. Before(b, Tier[s]) = b
    BY <2>1, BeforeIsAll
  <2>3. b.answers[s].status = "unasked" /\ Enough(b)
    BY <1>1, <1>3, <2>1 DEF Unasked
  <2>4. QED
    BY <2>2, <2>3
<1>4. QED
  BY <1>1, <1>2, <1>3

-----------------------------------------------------------------------------
(* The steps of a call                                                     *)

\* A step of one call: the others are where they were.
LEMMA ClientStep ==
    ASSUME IInv, NEW c \in Client, NEW j \in Call, CallOK(j, clock),
           job' = [job EXCEPT ![c] = j], clock' = clock, TablesOK'
    PROVE  IInv'
<1>1. job' \in [Client -> Call]
  BY DEF IInv
<1>2. \A d \in Client : job'[d] = IF d = c THEN j ELSE job[d]
  BY DEF IInv
<1>3. CallsOK'
  BY <1>2 DEF IInv, CallsOK
<1>4. QED
  BY <1>1, <1>3 DEF IInv

\* A step that leaves the cache and the results alone.
LEMMA QuietStep ==
    ASSUME IInv, NEW c \in Client, NEW j \in Call, CallOK(j, clock),
           job' = [job EXCEPT ![c] = j], UNCHANGED <<clock, rows, got, forced>>
    PROVE  IInv'
<1>1. TablesOK'
  BY DEF IInv, TablesOK, TablesTyped, RowsOK, GotOK, ServedIsFresh
<1>2. QED
  BY <1>1, ClientStep

\* What IInv says of one call.
LEMMA Holds ==
    ASSUME IInv, NEW c \in Client
    PROVE  job[c] \in Call /\ CallOK(job[c], clock) /\ clock \in Time
  BY DEF IInv, CallsOK

LEMMA IdleOK == ASSUME Assumptions PROVE Idle \in Call /\ CallOK(Idle, clock)
<1>1. Idle \in Call
  BY DEF Idle, Call, Rank, Place, Time, Assumptions, TimeAssumption
<1>2. QED
  BY <1>1 DEF Idle, CallOK

LEMMA InitIInv == ASSUME Assumptions, Init PROVE IInv
<1>1. 0 \in Time
  BY DEF Time, Assumptions, TimeAssumption
<1>2. TablesOK
  BY <1>1 DEF Init, TablesOK, TablesTyped, RowsOK, GotOK, ServedIsFresh
<1>3. job \in [Client -> Call] /\ CallsOK
  BY IdleOK DEF Init, CallsOK
<1>4. QED
  BY <1>1, <1>2, <1>3 DEF Init, IInv

\* The results of the last call are dropped.
LEMMA ForgetGot ==
    ASSUME IInv, NEW c \in Client, got' = [got EXCEPT ![c] = [m \in Metric |-> NoRow]],
           UNCHANGED <<clock, rows, forced>>
    PROVE  TablesOK'
<1>1. /\ got' \in [Client -> [Metric -> Served \cup {NoRow}]]
      /\ \A d \in Client, m \in Metric : got'[d][m] = IF d = c THEN NoRow ELSE got[d][m]
  BY DEF IInv, TablesOK, TablesTyped
<1>2. QED
  BY <1>1 DEF IInv, TablesOK, TablesTyped, RowsOK, GotOK, ServedIsFresh

LEMMA FetchStep ==
    ASSUME Assumptions, IInv, NEW c \in Client, NEW list \in Request, NEW p \in Policy,
           NEW cache \in {"yes", "no"}, Fetch(c, list, p, cache)
    PROVE  IInv'
<1> DEFINE j == [Idle EXCEPT !.at = "next", !.todo = list, !.policy = p, !.cache = cache]
<1>1. list \in Seq(Metric)
  BY DEF Assumptions, RequestAssumption
<1>2. /\ j \in Call /\ j.at = "next" /\ j.policy = p /\ j.held = NoRow
  BY <1>1, IdleOK DEF Idle, Call, Place
<1>3. job' = [job EXCEPT ![c] = j]
  BY DEF Fetch
<1> HIDE DEF j
<1>4. CallOK(j, clock)
  BY <1>2 DEF CallOK
<1>5. QED
  BY <1>2, <1>3, <1>4, ForgetGot, ClientStep DEF Fetch

LEMMA ReturnStep ==
    ASSUME Assumptions, IInv, NEW c \in Client, Return(c)
    PROVE  IInv'
  BY IdleOK, QuietStep DEF Return

LEMMA DieStep ==
    ASSUME Assumptions, IInv, NEW c \in Client, Die(c)
    PROVE  IInv'
  BY IdleOK, ForgetGot, ClientStep DEF Die

LEMMA LookUpStep ==
    ASSUME Assumptions, IInv, NEW c \in Client, LookUp(c)
    PROVE  IInv'
<1> DEFINE k == job[c]
           m == Head(k.todo)
           j == [k EXCEPT !.at = "judge", !.held = rows[m]]
<1>1. k \in Call /\ CallOK(k, clock) /\ k.at = "next" /\ k.todo # <<>>
  BY Holds DEF LookUp
<1>2. m \in Metric
  BY <1>1 DEF Call
<1>3. rows[m] \in Row \cup {NoRow} /\ (rows[m] # NoRow => Dated(rows[m].bundle) /\ InTurn(rows[m].bundle))
  BY <1>2 DEF IInv, TablesOK, TablesTyped, RowsOK
<1>4. /\ j \in Call /\ j.at = "judge" /\ j.todo = k.todo /\ j.policy = k.policy
      /\ j.held = rows[m]
  BY <1>1, <1>3 DEF Call, Place
<1>5. job' = [job EXCEPT ![c] = j]
  BY <1>1 DEF LookUp, IInv
<1> HIDE DEF j, k, m
<1>6. CallOK(j, clock)
  BY <1>1, <1>3, <1>4 DEF CallOK
<1>7. QED
  BY <1>4, <1>5, <1>6, QuietStep DEF LookUp

\* One more metric has its bundle.
LEMMA GotStep ==
    ASSUME IInv, NEW c \in Client, NEW m \in Metric, NEW r \in Served, InTurn(r.bundle),
           r.how = "hit" => \A s \in Used(r.bundle) : r.at - r.bundle.answers[s].at <= Day,
           got' = [got EXCEPT ![c][m] = r]
    PROVE  GotOK' /\ got' \in [Client -> [Metric -> Served \cup {NoRow}]]
<1>1. got \in [Client -> [Metric -> Served \cup {NoRow}]]
  BY DEF IInv, TablesOK, TablesTyped
<1>2. /\ got' \in [Client -> [Metric -> Served \cup {NoRow}]]
      /\ \A d \in Client, n \in Metric : got'[d][n] = IF d = c /\ n = m THEN r ELSE got[d][n]
  BY <1>1
<1>3. GotOK'
  BY <1>2 DEF IInv, TablesOK, GotOK, ServedIsFresh
<1>4. QED
  BY <1>2, <1>3

LEMMA HitStep ==
    ASSUME Assumptions, IInv, NEW c \in Client, Hit(c)
    PROVE  IInv'
<1> DEFINE k == job[c]
           m == Head(k.todo)
           b == k.held.bundle
           r == [bundle |-> b, how |-> "hit", at |-> clock]
           j == [k EXCEPT !.at = "next", !.todo = Tail(@), !.held = NoRow]
<1>1. /\ k \in Call /\ CallOK(k, clock) /\ k.at = "judge" /\ k.todo # <<>> /\ clock \in Time
      /\ k.held # NoRow /\ Fresh(k.held)
  BY Holds DEF Hit, CallOK
<1>2. m \in Metric /\ Tail(k.todo) \in Seq(Metric)
  BY <1>1 DEF Call
<1>3. k.held \in Row /\ Dated(b) /\ InTurn(b) /\ clock - b.made <= Day
  BY <1>1 DEF Call, CallOK, Fresh
<1>4. b \in Bundle
  BY <1>3 DEF Row
<1>5. ASSUME NEW s \in Used(b) PROVE clock - b.answers[s].at <= Day
  <2>1. b.made <= b.answers[s].at
    BY <1>3, <1>5 DEF Dated
  <2>2. b.made \in Nat /\ b.answers[s].at \in Nat /\ clock \in Nat /\ Day \in Nat
    BY <1>1, <1>4 DEF Used, Bundle, Answer, Time, Assumptions, TimeAssumption
  <2> HIDE DEF b
  <2>3. QED
    BY <1>3, <2>1, <2>2
<1>6. r \in Served /\ r.bundle = b /\ r.at = clock
  BY <1>1, <1>4 DEF Served
<1>7. /\ j \in Call /\ j.at = "next" /\ j.policy = k.policy /\ j.held = NoRow
  BY <1>1, <1>2 DEF Call, Place
<1>8. /\ job' = [job EXCEPT ![c] = j] /\ got' = [got EXCEPT ![c][m] = r]
      /\ UNCHANGED <<clock, rows, forced>>
  BY <1>1 DEF Hit, IInv
<1> HIDE DEF j, k, m, b, r
<1>9. CallOK(j, clock)
  BY <1>1, <1>7 DEF CallOK
<1>10. GotOK' /\ got' \in [Client -> [Metric -> Served \cup {NoRow}]]
  BY <1>2, <1>3, <1>5, <1>6, <1>8, GotStep
<1>11. TablesOK'
  BY <1>8, <1>10 DEF IInv, TablesOK, TablesTyped, RowsOK
<1>12. QED
  BY <1>7, <1>8, <1>9, <1>11, ClientStep

\* Rows may be deleted at any time.
LEMMA RowsGo ==
    ASSUME IInv, rows' \in [Metric -> Row \cup {NoRow}], UNCHANGED <<clock, got, forced>>,
           \A m \in Metric : rows'[m] \in {rows[m], NoRow}
    PROVE  TablesOK'
  BY DEF IInv, TablesOK, TablesTyped, RowsOK, GotOK, ServedIsFresh

LEMMA ExpireStep ==
    ASSUME Assumptions, IInv, NEW c \in Client, Expire(c)
    PROVE  IInv'
<1> DEFINE k == job[c]
           j == [k EXCEPT !.held = NoRow]
<1>1. k \in Call /\ CallOK(k, clock) /\ k.at = "judge"
  BY Holds DEF Expire
<1>2. /\ j \in Call /\ j.at = "judge" /\ j.policy = k.policy /\ j.held = NoRow /\ j.todo = k.todo
  BY <1>1 DEF Call
<1>3. job' = [job EXCEPT ![c] = j] /\ UNCHANGED <<clock, got, forced>>
  BY <1>1 DEF Expire, IInv
<1> HIDE DEF j, k
<1>4. CallOK(j, clock)
  BY <1>1, <1>2 DEF CallOK
<1>5. TablesOK'
  BY <1>3, RowsGo DEF Expire, IInv, TablesOK, TablesTyped
<1>6. QED
  BY <1>2, <1>3, <1>4, <1>5, ClientStep

LEMMA OpenStep ==
    ASSUME Assumptions, IInv, NEW c \in Client, Open(c)
    PROVE  IInv'
<1> DEFINE k == job[c]
           m == Head(k.todo)
           b == [metric |-> m, policy |-> k.policy, made |-> clock,
                 answers |-> [s \in Source |-> Unasked]]
           g == Group(m, 1)
           j == [k EXCEPT !.at = "collect", !.tier = 1, !.left = g, !.bundle = b]
<1>1. /\ k \in Call /\ CallOK(k, clock) /\ k.todo # <<>> /\ k.policy \in Policy
      /\ clock \in Time
  BY Holds DEF Open, CallOK
<1>2. m \in Metric
  BY <1>1 DEF Call
<1>3. b \in Bundle /\ Dated(b) /\ InProgress(b, 1, Group(m, 1))
  BY <1>1, <1>2, NewBundle
<1>4. g \in SUBSET Source
  BY <1>2 DEF Group, Assumptions, PlanAssumption
<1>5. b.made = clock
  OBVIOUS
<1>6. job' = [job EXCEPT ![c] = j]
  BY <1>1 DEF Open, IInv
<1> HIDE DEF b, g, m, k
<1>7. /\ j \in Call /\ j.at = "collect" /\ j.policy = k.policy /\ j.held = k.held
      /\ j.todo = k.todo /\ j.tier = 1 /\ j.left = g /\ j.bundle = b
  <2>1. b \in Bundle /\ 1 \in Rank
    BY <1>3 DEF Rank
  <2>2. QED
    BY <1>1, <1>4, <2>1 DEF Call, Place
<1> HIDE DEF j
<1>8. OnTime(j, clock)
  BY <1>1, <1>5, <1>7 DEF OnTime, Time, Assumptions, TimeAssumption
<1>9. CallOK(j, clock)
  BY <1>1, <1>3, <1>7, <1>8 DEF CallOK, g
<1>10. QED
  BY <1>6, <1>7, <1>9, QuietStep DEF Open

\* The times a call in collection holds, as numbers.
LEMMA Times ==
    ASSUME Assumptions, IInv, NEW c \in Client, job[c].at \in {"collect", "asked", "save"}
    PROVE  /\ job[c].bundle \in Bundle /\ job[c].bundle.made \in Nat
           /\ job[c].since \in Nat /\ clock \in Nat /\ Horizon \in Nat
           /\ MaxTotalTime \in Nat /\ LongestCall \in Nat
           /\ job[c].tier \in 1 .. 3
  BY Holds DEF CallOK, Call, Rank, Bundle, Time, Assumptions, TimeAssumption

LEMMA AskStep ==
    ASSUME Assumptions, IInv, NEW c \in Client, Ask(c)
    PROVE  IInv'
<1> DEFINE k == job[c]
           j == [k EXCEPT !.at = "asked", !.since = clock]
<1>1. /\ k \in Call /\ CallOK(k, clock) /\ k.at = "collect" /\ clock \in Time
      /\ k.left # {} /\ clock - k.bundle.made <= MaxTotalTime
  BY Holds DEF Ask, Elapsed
<1>2. k.bundle.made \in Nat /\ clock \in Nat /\ LongestCall \in Nat /\ k.bundle.made <= clock
  BY <1>1, Times DEF CallOK, OnTime
<1>3. /\ j \in Call /\ j.at = "asked" /\ j.since = clock /\ j.policy = k.policy
      /\ j.held = k.held /\ j.todo = k.todo /\ j.tier = k.tier /\ j.left = k.left
      /\ j.bundle = k.bundle
  BY <1>1 DEF Call, Place
<1>4. job' = [job EXCEPT ![c] = j]
  BY <1>1 DEF Ask, IInv
<1> HIDE DEF j, k
<1>5. OnTime(j, clock)
  BY <1>1, <1>2, <1>3 DEF OnTime
<1>6. CallOK(j, clock)
  BY <1>1, <1>3, <1>5 DEF CallOK
<1>7. QED
  BY <1>3, <1>4, <1>6, QuietStep DEF Ask

\* The first of the sources that are left is answered, or the tier is given up.
LEMMA AnswerCallStep ==
    ASSUME Assumptions, IInv, NEW c \in Client, job[c].at \in {"collect", "asked"},
           job[c].left # {},
           NEW a \in Answer, a.status \in {"success", "failed", "skipped"},
           a.status = "success" => a.at = clock,
           job' = [job EXCEPT ![c] =
                     [job[c] EXCEPT !.at = "collect", !.left = LeftAfter(job[c].left, a),
                                    !.bundle = WithAnswer(job[c].bundle, First(job[c].left), a)]],
           UNCHANGED <<clock, rows, got, forced>>
    PROVE  IInv'
<1> DEFINE k == job[c]
           b == k.bundle
           rest == LeftAfter(k.left, a)
           d == WithAnswer(b, First(k.left), a)
           j == [k EXCEPT !.at = "collect", !.left = rest, !.bundle = d]
<1>1. /\ k \in Call /\ CallOK(k, clock) /\ b \in Bundle /\ Dated(b)
      /\ InProgress(b, k.tier, k.left) /\ k.tier \in 1 .. 3
  BY Holds, Times DEF CallOK
<1>2. OnTime([at |-> "collect", bundle |-> b], clock) /\ b.made <= clock
  <2>1. /\ b.made \in Nat /\ k.since \in Nat /\ clock \in Nat
        /\ MaxTotalTime \in Nat /\ LongestCall \in Nat
    BY Times
  <2>2. OnTime(k, clock)
    BY <1>1 DEF CallOK
  <2> HIDE DEF b
  <2>3. CASE k.at = "asked"
    <3>1. /\ b.made <= k.since /\ k.since <= clock
          /\ k.since - b.made <= MaxTotalTime /\ clock - k.since <= LongestCall
      BY <2>2, <2>3 DEF OnTime, b
    <3> HIDE DEF k
    <3>2. b.made <= clock /\ clock - b.made <= MaxTotalTime + LongestCall
      BY <2>1, <3>1
    <3>3. QED
      BY <3>2 DEF OnTime
  <2>4. CASE k.at = "collect"
    BY <2>2, <2>4 DEF OnTime, b
  <2>5. QED
    BY <2>3, <2>4
<1>3. d \in Bundle /\ d.made = b.made /\ Dated(d) /\ InProgress(d, k.tier, rest)
  <2>1. a.status = "success" => b.made <= a.at
    BY <1>2
  <2>2. k.left # {}
    OBVIOUS
  <2> HIDE DEF k, b
  <2>3. QED
    BY <1>1, <2>1, <2>2, AnswerStep
<1>4. rest \in SUBSET Source
  BY <1>1 DEF Call, LeftAfter
<1> HIDE DEF rest, d
<1>5. /\ j \in Call /\ j.at = "collect" /\ j.policy = k.policy
      /\ j.held = k.held /\ j.todo = k.todo /\ j.tier = k.tier /\ j.left = rest
      /\ j.bundle = d
  BY <1>1, <1>3, <1>4 DEF Call, Place
<1>6. OnTime(j, clock)
  BY <1>2, <1>3, <1>5 DEF OnTime
<1>7. CallOK(j, clock)
  BY <1>1, <1>3, <1>5, <1>6 DEF CallOK
<1>8. QED
  BY <1>5, <1>7, QuietStep DEF rest, d

\* What FirstIsLeft says of the sources a call has left.
LEMMA FirstOfCall ==
    ASSUME Assumptions, IInv, NEW c \in Client, job[c].left # {}
    PROVE  First(job[c].left) \in job[c].left /\ First(job[c].left) \in Source
<1>1. job[c].left \in SUBSET Source
  BY Holds DEF Call
<1>2. QED
  BY <1>1, FirstIsLeft DEF Assumptions

LEMMA SkipTierStep ==
    ASSUME Assumptions, IInv, NEW c \in Client, SkipTier(c)
    PROVE  IInv'
<1> DEFINE k == job[c]
           s == First(k.left)
           a == [k.bundle.answers[s] EXCEPT !.status = "skipped"]
           d == WithAnswer(k.bundle, s, a)
           j == [k EXCEPT !.at = "collect", !.left = LeftAfter(k.left, a), !.bundle = d]
<1>1. /\ k \in Call /\ k.at = "collect" /\ k.left # {} /\ k.bundle \in Bundle /\ s \in Source
  BY Holds, Times, FirstOfCall DEF SkipTier
<1>2. a \in Answer /\ a.status = "skipped"
  BY <1>1 DEF Bundle, Answer
<1>3. /\ d = [k.bundle EXCEPT !.answers[s].status = "skipped"]
      /\ LeftAfter(k.left, a) = {}
  BY <1>1, <1>2 DEF Bundle, WithAnswer, LeftAfter
<1>4. job' = [job EXCEPT ![c] = [k EXCEPT !.left = {}, !.bundle = d]]
  BY ZenonT(40), <1>1, <1>3 DEF SkipTier, IInv
<1>5. job' = [job EXCEPT ![c] = j]
  <2> HIDE DEF d
  <2>1. [k EXCEPT !.left = {}, !.bundle = d] = j
    BY <1>1, <1>3 DEF Call
  <2>2. QED
    BY <1>4, <2>1
<1>6. UNCHANGED <<clock, rows, got, forced>>
  BY DEF SkipTier
<1> HIDE DEF a
<1>7. QED
  BY <1>1, <1>2, <1>5, <1>6, AnswerCallStep

LEMMA SucceedStep ==
    ASSUME Assumptions, IInv, NEW c \in Client, NEW v \in Value, Succeed(c, v)
    PROVE  IInv'
<1> DEFINE k == job[c]
           s == First(k.left)
           a == [status |-> "success", value |-> v, at |-> clock]
           d == WithAnswer(k.bundle, s, a)
           j == [k EXCEPT !.at = "collect", !.left = LeftAfter(k.left, a), !.bundle = d]
<1>1. /\ k \in Call /\ CallOK(k, clock) /\ k.at = "asked" /\ clock \in Time
  BY Holds DEF Succeed
<1>2. k.left # {} /\ s \in k.left
  BY <1>1, FirstOfCall DEF CallOK
<1>3. a \in Answer /\ a.status = "success" /\ a.at = clock
  BY <1>1 DEF Answer
<1>4. job' = [job EXCEPT ![c] = j] /\ UNCHANGED <<clock, rows, got, forced>>
  BY <1>1, <1>3 DEF Succeed, IInv, WithAnswer, LeftAfter
<1> HIDE DEF a
<1>5. QED
  BY <1>1, <1>2, <1>3, <1>4, AnswerCallStep

LEMMA FailStep ==
    ASSUME Assumptions, IInv, NEW c \in Client, Fail(c)
    PROVE  IInv'
<1> DEFINE k == job[c]
           s == First(k.left)
           a == [k.bundle.answers[s] EXCEPT !.status = "failed"]
           d == WithAnswer(k.bundle, s, a)
           j == [k EXCEPT !.at = "collect", !.left = LeftAfter(k.left, a), !.bundle = d]
<1>1. /\ k \in Call /\ CallOK(k, clock) /\ k.at = "asked"
  BY Holds DEF Fail
<1>2. k.left # {} /\ s \in k.left /\ s \in Source /\ k.bundle \in Bundle
  BY <1>1, FirstOfCall DEF CallOK
<1>3. a \in Answer /\ a.status = "failed"
  BY <1>2 DEF Bundle, Answer
<1>4. /\ d = [k.bundle EXCEPT !.answers[s].status = "failed"]
      /\ LeftAfter(k.left, a) = k.left \ {s}
  BY <1>2, <1>3 DEF Bundle, WithAnswer, LeftAfter
<1>5. job' = [job EXCEPT ![c] = j] /\ UNCHANGED <<clock, rows, got, forced>>
  <2> DEFINE e == [k.bundle EXCEPT !.answers[s].status = "failed"]
  <2>1. /\ job' = [job EXCEPT ![c] = [k EXCEPT !.at = "collect", !.left = k.left \ {s}, !.bundle = e]]
        /\ UNCHANGED <<clock, rows, got, forced>>
    BY <1>1 DEF Fail, IInv
  <2> HIDE DEF e
  <2>2. QED
    BY <1>4, <2>1 DEF e
<1> HIDE DEF a
<1>6. QED
  BY <1>1, <1>2, <1>3, <1>5, AnswerCallStep

LEMMA EndTierStep ==
    ASSUME Assumptions, IInv, NEW c \in Client, EndTier(c)
    PROVE  IInv'
<1> DEFINE k == job[c]
           b == k.bundle
<1>1. /\ k \in Call /\ CallOK(k, clock) /\ k.at = "collect" /\ k.left = {}
      /\ b \in Bundle /\ Dated(b) /\ InProgress(b, k.tier, {}) /\ OnTime(k, clock)
      /\ k.tier \in 1 .. 3
  BY Holds, Times DEF EndTier, CallOK
<1>2. CASE Enough(b) \/ k.tier = 3
  <2> DEFINE j == [k EXCEPT !.at = "save"]
  <2>1. /\ j \in Call /\ j.at = "save" /\ j.policy = k.policy
        /\ j.held = k.held /\ j.todo = k.todo /\ j.tier = k.tier /\ j.left = {}
        /\ j.bundle = b
    BY <1>1 DEF Call, Place
  <2>2. job' = [job EXCEPT ![c] = j]
    BY <1>1, <1>2 DEF EndTier, IInv
  <2> HIDE DEF j
  <2>3. OnTime(j, clock)
    BY <1>1, <2>1 DEF OnTime
  <2>4. CallOK(j, clock)
    BY <1>1, <1>2, <2>1, <2>3 DEF CallOK
  <2>5. QED
    BY <2>1, <2>2, <2>4, QuietStep DEF EndTier
<1>3. CASE ~ (Enough(b) \/ k.tier = 3)
  <2> DEFINE t == k.tier + 1
             g == Group(b.metric, t)
             j == [k EXCEPT !.tier = t, !.left = g]
  <2>1. t \in Rank /\ k.tier \in 1 .. 2
    BY <1>1, <1>3 DEF Rank
  <2>2. g \in SUBSET Source
    BY <1>1 DEF Group, Bundle, Assumptions, PlanAssumption
  <2>3. InProgress(b, t, g)
    BY <1>1, <1>3, <2>1, NextTier
  <2>4. job' = [job EXCEPT ![c] = j]
    BY <1>1, <1>3 DEF EndTier, IInv
  <2> HIDE DEF t, g
  <2>5. /\ j \in Call /\ j.at = "collect" /\ j.policy = k.policy
        /\ j.held = k.held /\ j.todo = k.todo /\ j.tier = t /\ j.left = g
        /\ j.bundle = b
    BY <1>1, <2>1, <2>2 DEF Call
  <2> HIDE DEF j
  <2>6. OnTime(j, clock)
    BY <1>1, <2>5 DEF OnTime
  <2>7. CallOK(j, clock)
    BY <1>1, <2>3, <2>5, <2>6 DEF CallOK
  <2>8. QED
    BY <2>4, <2>5, <2>7, QuietStep DEF EndTier
<1>4. QED
  BY <1>2, <1>3

LEMMA SaveStep ==
    ASSUME Assumptions, IInv, NEW c \in Client, Save(c)
    PROVE  IInv'
<1> DEFINE k == job[c]
           b == k.bundle
           m == Head(k.todo)
           r == [bundle |-> b, how |-> "collected", at |-> clock]
           row == [bundle |-> b, saved |-> clock]
           j == [k EXCEPT !.at = "next", !.todo = Tail(@), !.bundle = NoRow, !.tier = 1, !.since = 0]
<1>1. /\ k \in Call /\ CallOK(k, clock) /\ k.at = "save" /\ k.todo # <<>> /\ clock \in Time
      /\ b \in Bundle /\ Dated(b) /\ k.tier \in 1 .. 3
  BY Holds, Times DEF Save, CallOK
<1>2. InTurn(b)
  BY <1>1, DoneInTurn DEF CallOK
<1>3. m \in Metric /\ Tail(k.todo) \in Seq(Metric)
  BY <1>1 DEF Call
<1>4. r \in Served /\ r.bundle = b /\ r.how = "collected" /\ row \in Row /\ row.bundle = b
  BY <1>1 DEF Served, Row
<1>5. 1 \in Rank /\ 0 \in Time /\ b.made \in Time
  BY <1>1 DEF Rank, Time, Bundle, Assumptions, TimeAssumption
<1>6. /\ got' = [got EXCEPT ![c][m] = r]
      /\ \/ rows' = [rows EXCEPT ![m] = row] /\ UNCHANGED forced
         \/ forced' = [forced EXCEPT ![c][m] = b.made] /\ UNCHANGED rows
      /\ clock' = clock
  BY DEF Save
<1>7. job' = [job EXCEPT ![c] = j]
  BY <1>1 DEF Save, IInv
<1> HIDE DEF b, r, row
<1>8. /\ j \in Call /\ j.at = "next" /\ j.policy = k.policy /\ j.held = k.held
  BY <1>1, <1>3, <1>5 DEF Call, Place
<1> HIDE DEF j, k, m
<1>9. CallOK(j, clock)
  BY <1>1, <1>8 DEF CallOK
<1>10. GotOK' /\ got' \in [Client -> [Metric -> Served \cup {NoRow}]]
  BY ZenonT(40), <1>2, <1>3, <1>4, <1>6, GotStep
<1>11. /\ rows \in [Metric -> Row \cup {NoRow}] /\ forced \in [Client -> [Metric -> Time]]
       /\ RowsOK
  BY DEF IInv, TablesOK, TablesTyped
<1>12. /\ rows' \in [Metric -> Row \cup {NoRow}] /\ forced' \in [Client -> [Metric -> Time]]
       /\ \A n \in Metric : rows'[n] = rows[n] \/ rows'[n] = row
  BY <1>3, <1>4, <1>5, <1>6, <1>11
<1>13. RowsOK'
  BY <1>1, <1>2, <1>4, <1>11, <1>12 DEF RowsOK
<1>14. TablesOK'
  BY <1>10, <1>12, <1>13 DEF TablesOK, TablesTyped
<1>15. QED
  BY <1>6, <1>7, <1>8, <1>9, <1>14, ClientStep

-----------------------------------------------------------------------------
(* The other steps                                                         *)

LEMMA CleanupStep ==
    ASSUME IInv, CleanupExpired \/ InvalidateAll
    PROVE  IInv'
<1>1. rows \in [Metric -> Row \cup {NoRow}]
  BY DEF IInv, TablesOK, TablesTyped
<1>2. rows' \in [Metric -> Row \cup {NoRow}] /\ \A m \in Metric : rows'[m] \in {rows[m], NoRow}
  BY <1>1 DEF CleanupExpired, InvalidateAll
<1>3. UNCHANGED <<clock, job, got, forced>>
  BY DEF CleanupExpired, InvalidateAll
<1>4. TablesOK'
  BY <1>2, <1>3, RowsGo
<1>5. QED
  BY <1>3, <1>4 DEF IInv, CallsOK

\* Time passes while a source is asked, no longer than it may take, or nobody is at work.
LEMMA TickStep ==
    ASSUME Assumptions, IInv, Tick
    PROVE  IInv'
<1>1. UNCHANGED <<rows, job, got, forced>> /\ clock' = clock + 1
  BY DEF Tick
<1>2. clock \in Time /\ clock' \in Time
  BY <1>1 DEF IInv, Tick, Time, Assumptions, TimeAssumption
<1>3. TablesOK'
  BY <1>1 DEF IInv, TablesOK, TablesTyped, RowsOK, GotOK, ServedIsFresh
<1>4. ASSUME NEW c \in Client PROVE CallOK(job[c], clock')
  <2>1. job[c] \in Call /\ CallOK(job[c], clock)
    BY Holds
  <2>2. CASE job[c].at = "idle"
    BY <2>1, <2>2 DEF CallOK
  <2>3. CASE job[c].at = "asked" /\ clock - job[c].since < LongestCall
    <3>1. OnTime(job[c], clock) /\ job[c].since \in Nat /\ clock \in Nat /\ LongestCall \in Nat
      BY <2>1, <2>3, Times DEF CallOK
    <3>2. OnTime(job[c], clock')
      BY <1>1, <2>3, <3>1 DEF OnTime
    <3>3. QED
      BY <2>1, <2>3, <3>2 DEF CallOK
  <2>4. QED
    BY <2>2, <2>3 DEF Tick
<1>5. QED
  BY <1>1, <1>2, <1>3, <1>4 DEF IInv, CallsOK

LEMMA NextIInv == ASSUME Assumptions, IInv, [Next]_vars PROVE IInv'
<1>1. ASSUME NEW c \in Client, Work(c) PROVE IInv'
  BY <1>1, ReturnStep, LookUpStep, HitStep, ExpireStep, OpenStep, AskStep, SkipTierStep, FailStep,
     EndTierStep, SaveStep, SucceedStep DEF Work
<1>2. CASE UNCHANGED vars
  BY <1>2 DEF vars, IInv, TablesOK, TablesTyped, RowsOK, GotOK, ServedIsFresh, CallsOK
<1>3. QED
  BY <1>1, <1>2, FetchStep, DieStep, CleanupStep, TickStep DEF Next

\* The inductive invariant holds.
THEOREM Inductive == ASSUME Assumptions PROVE Spec => []IInv
<1>1. Init => IInv
  BY InitIInv
<1>2. IInv /\ [Next]_vars => IInv'
  BY NextIInv
<1>3. QED
  BY <1>1, <1>2, PTL DEF Spec

-----------------------------------------------------------------------------
(* The theorems                                                            *)

\* Calls, rows and results stay within their types (evidence_store.py, evidence_engine.py).
THEOREM TypeCorrect == ASSUME Assumptions PROVE Spec => []TypeOK
<1>1. IInv => TypeOK
  BY DEF IInv, TablesOK, TablesTyped, TypeOK, Call, Rank
<1>2. QED
  BY <1>1, Inductive, PTL

\* However many processes read, judge, delete and replace the rows of the cache, what it answers
\* holds no record that a source reported more than a day ago (evidence_store.py get).
THEOREM CacheIsFresh == ASSUME Assumptions PROVE Spec => []ServedIsFresh
<1>1. IInv => ServedIsFresh
  BY DEF IInv, TablesOK, GotOK
<1>2. QED
  BY <1>1, Inductive, PTL

\* Every bundle that is answered or kept asked a source only if the better tiers were not enough,
\* and left one out only if they were or the time was over (evidence_engine.py run).
THEOREM TiersAreInTurn == ASSUME Assumptions PROVE Spec => []TiersInTurn
<1>1. ASSUME IInv PROVE TiersInTurn
  <2>1. \A b \in Bundles : InTurn(b)
    BY <1>1 DEF Bundles, IInv, TablesOK, RowsOK, GotOK
  <2>2. QED
    BY <2>1 DEF TiersInTurn, InTurn
<1>2. QED
  BY <1>1, Inductive, PTL

\* Collecting one metric takes max_total_time_seconds and one call of a source at most
\* (evidence_engine.py run).
THEOREM CollectionIsInTime == ASSUME Assumptions PROVE Spec => []CollectedInTime
<1>1. ASSUME IInv PROVE CollectedInTime
  <2> SUFFICES ASSUME NEW c \in Client, job[c].at \in {"collect", "asked", "save"}
               PROVE  Elapsed(c) <= MaxTotalTime + LongestCall
    BY DEF CollectedInTime
  <2>1. OnTime(job[c], clock)
    BY <1>1, Holds DEF CallOK
  <2>2. /\ job[c].bundle.made \in Nat /\ job[c].since \in Nat /\ clock \in Nat
        /\ MaxTotalTime \in Nat /\ LongestCall \in Nat
    BY <1>1, Times
  <2>3. QED
    BY <2>1, <2>2 DEF OnTime, Elapsed
<1>2. QED
  BY <1>1, Inductive, PTL
=============================================================================
