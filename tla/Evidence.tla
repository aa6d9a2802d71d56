------------------------------ MODULE Evidence ------------------------------
(***************************************************************************)
(* Evidence collection (cmis_core/evidence_engine.py) and its cache        *)
(* (evidence_store.py).  A call of fetch_for_metrics answers each metric   *)
(* of its list from the cache or else asks the capable sources tier by     *)
(* tier until the bundle is good enough for the policy; a call that may    *)
(* use the cache also fills it.  The cache is one database that several    *)
(* processes use; look-up, judgement of the age and deletion are separate  *)
(* steps.                                                                  *)
(*                                                                         *)
(* What a source answers is an input.  Time passes only while a source is  *)
(* being asked or nobody works, and an asked source answers or fails       *)
(* within LongestCall, its own timeout.                                    *)
(***************************************************************************)
EXTENDS Naturals, Sequences, FiniteSets, FiniteSetsExt

CONSTANTS
    Client,         \* processes, or calls, that share the cache
    Metric,         \* metric and context: what the cache key is made of
    Source,
    Order,          \* the sources in the order in which a plan lists them
    Tier,           \* 1 official, 2 curated_internal, 3 commercial
    Capable,        \* the sources that can serve a metric
    Value,          \* what a source may report
    Request,        \* the lists of metrics that are asked for in one call
    Policy,
    Day,            \* default_ttl and max_age_seconds, both 86400
    MaxTotalTime,   \* policy.max_total_time_seconds
    LongestCall,
    Horizon,        \* bound: the clock stops here
    NoRow

\* What the constants have to satisfy.
PlanAssumption ==
    /\ Tier \in [Source -> 1 .. 3]
    /\ Capable \in [Metric -> SUBSET Source]
    /\ Order \in Seq(Source)
    /\ {Order[i] : i \in 1 .. Len(Order)} = Source
    /\ Len(Order) = Cardinality(Source)
    /\ IsFiniteSet(Source)
RequestAssumption ==
    /\ Request \subseteq Seq(Metric)
    /\ Value \subseteq Nat \ {0}
    /\ Policy \subseteq {"strict", "balanced", "exploration"}
TimeAssumption == {Day, MaxTotalTime, LongestCall, Horizon} \subseteq Nat

VARIABLES
    clock,
    rows,     \* evidence_cache: one row per key
    job,      \* where each client is in its call
    got,      \* the bundles of each client's current or last call
    forced    \* when the client last collected a metric with use_cache=False

vars == <<clock, rows, job, got, forced>>

-----------------------------------------------------------------------------
(* Data                                                                    *)

Time == 0 .. Horizon

\* What became of a source in a bundle: its record, or its trace entry.
Answer == [status : {"unasked", "success", "failed", "skipped"},
           value : Value \cup {0}, at : Time]
Unasked == [status |-> "unasked", value |-> 0, at |-> 0]

Bundle == [metric : Metric, policy : Policy, made : Time, answers : [Source -> Answer]]
Row == [bundle : Bundle, saved : Time]
Served == [bundle : Bundle, how : {"hit", "collected"}, at : Time]

Place == {"idle", "next", "judge", "collect", "asked", "save"}

\* The sources of a tier that a plan for m asks, and the one of them that is asked first.
Group(m, t) == {s \in Capable[m] : Tier[s] = t}
First(group) == Order[Min({i \in DOMAIN Order : Order[i] \in group})]

Used(b) == {s \in Source : b.answers[s].status = "success"}

\* min_literal_ratio and max_spread_ratio in tenths.
MinLiteral(p) == CASE p = "strict" -> 7 [] p = "balanced" -> 5 [] OTHER -> 3
MaxSpread(p)  == CASE p = "strict" -> 3 [] p = "balanced" -> 5 [] OTHER -> 7

Literal(b, tenths) ==
    10 * Cardinality({s \in Used(b) : Tier[s] \in {1, 2}}) >= tenths * Cardinality(Used(b))

\* (max - min) / mean is within the limit; a single value has no spread.
Agreed(b, tenths) ==
    LET values == {b.answers[s].value : s \in Used(b)}
    IN  Cardinality(Used(b)) >= 2 =>
            10 * (Max(values) - Min(values)) * Cardinality(Used(b))
                <= tenths * MapThenSumSet(LAMBDA s : b.answers[s].value, Used(b))

\* SUFFICIENT, or PARTIAL under a policy in best_effort_mode.
Enough(b) ==
    /\ Used(b) # {}
    /\ \/ Literal(b, MinLiteral(b.policy)) /\ Agreed(b, MaxSpread(b.policy))
       \/ Literal(b, 3) /\ b.policy = "exploration"

-----------------------------------------------------------------------------
Idle == [at |-> "idle", todo |-> <<>>, cache |-> "yes", policy |-> "strict",
         held |-> NoRow, bundle |-> NoRow, tier |-> 1, left |-> {}, since |-> 0]

Init ==
    /\ clock = 0
    /\ rows = [m \in Metric |-> NoRow]
    /\ job = [c \in Client |-> Idle]
    /\ got = [c \in Client |-> [m \in Metric |-> NoRow]]
    /\ forced = [c \in Client |-> [m \in Metric |-> 0]]

\* A call begins.
Fetch(c, list, p, cache) ==
    /\ job[c].at = "idle"
    /\ job' = [job EXCEPT ![c] = [Idle EXCEPT !.at = "next", !.todo = list,
                                              !.policy = p, !.cache = cache]]
    /\ got' = [got EXCEPT ![c] = [m \in Metric |-> NoRow]]
    /\ UNCHANGED <<clock, rows, forced>>

Return(c) ==
    /\ job[c].at = "next" /\ job[c].todo = <<>>
    /\ job' = [job EXCEPT ![c] = Idle]
    /\ UNCHANGED <<clock, rows, got, forced>>

\* EvidenceStore.get reads the row ...
LookUp(c) ==
    /\ job[c].at = "next" /\ job[c].todo # <<>> /\ job[c].cache = "yes"
    /\ job' = [job EXCEPT ![c].at = "judge", ![c].held = rows[Head(job[c].todo)]]
    /\ UNCHANGED <<clock, rows, got, forced>>

\* Mutant: only the time since the row was saved counts.
FreshSinceSaved(row) == clock - row.saved <= Day

\* ... and judges its age, by the time it was saved and the time its
\* collection began.
Fresh(row) == clock - row.saved <= Day /\ clock - row.bundle.made <= Day

Hit(c) ==
    /\ job[c].at = "judge" /\ job[c].held # NoRow
    /\ Fresh(job[c].held)
    /\ got' = [got EXCEPT ![c][Head(job[c].todo)] =
                  [bundle |-> job[c].held.bundle, how |-> "hit", at |-> clock]]
    /\ job' = [job EXCEPT ![c].at = "next", ![c].todo = Tail(@), ![c].held = NoRow]
    /\ UNCHANGED <<clock, rows, forced>>

\* What is deleted is the row of that key, whichever it is by now.
Expire(c) ==
    /\ job[c].at = "judge" /\ job[c].held # NoRow
    /\ ~ Fresh(job[c].held)
    /\ rows' = [rows EXCEPT ![Head(job[c].todo)] = NoRow]
    /\ job' = [job EXCEPT ![c].held = NoRow]
    /\ UNCHANGED <<clock, got, forced>>

\* A miss, or a call that must not use the cache: plan and start to collect.
Open(c) ==
    /\ \/ job[c].at = "judge" /\ job[c].held = NoRow
       \/ job[c].at = "next" /\ job[c].todo # <<>> /\ job[c].cache = "no"
    /\ LET m == Head(job[c].todo) IN
       job' = [job EXCEPT
           ![c].at = "collect", ![c].tier = 1, ![c].left = Group(m, 1),
           ![c].bundle = [metric |-> m, policy |-> job[c].policy, made |-> clock,
                          answers |-> [s \in Source |-> Unasked]]]
    /\ UNCHANGED <<clock, rows, got, forced>>

Elapsed(c) == clock - job[c].bundle.made

\* Mutant: the time is only looked at before the first source of a tier.
AskAnyLater(c) ==
    /\ job[c].at = "collect" /\ job[c].left # {}
    /\ Elapsed(c) <= MaxTotalTime \/ job[c].left # Group(job[c].bundle.metric, job[c].tier)
    /\ job' = [job EXCEPT ![c].at = "asked", ![c].since = clock]
    /\ UNCHANGED <<clock, rows, got, forced>>

Ask(c) ==
    /\ job[c].at = "collect" /\ job[c].left # {}
    /\ Elapsed(c) <= MaxTotalTime
    /\ job' = [job EXCEPT ![c].at = "asked", ![c].since = clock]
    /\ UNCHANGED <<clock, rows, got, forced>>

\* Out of time: the rest of this tier is not asked.
SkipTier(c) ==
    /\ job[c].at = "collect" /\ job[c].left # {}
    /\ Elapsed(c) > MaxTotalTime
    /\ job' = [job EXCEPT ![c].left = {},
                          ![c].bundle.answers[First(job[c].left)].status = "skipped"]
    /\ UNCHANGED <<clock, rows, got, forced>>

Succeed(c, v) ==
    /\ job[c].at = "asked"
    /\ job' = [job EXCEPT ![c].at = "collect", ![c].left = @ \ {First(@)},
           ![c].bundle.answers[First(job[c].left)] =
               [status |-> "success", value |-> v, at |-> clock]]
    /\ UNCHANGED <<clock, rows, got, forced>>

\* Mutants: a failing source is asked again, or ends the collection.
FailAgain(c) ==
    /\ job[c].at = "asked"
    /\ job' = [job EXCEPT ![c].at = "collect",
                          ![c].bundle.answers[First(job[c].left)].status = "failed"]
    /\ UNCHANGED <<clock, rows, got, forced>>

FailAll(c) ==
    /\ job[c].at = "asked"
    /\ job' = [job EXCEPT ![c].at = "collect", ![c].left = {},
                          ![c].bundle.answers[First(job[c].left)].status = "failed"]
    /\ UNCHANGED <<clock, rows, got, forced>>

\* No data, not available, or any other exception: go on with the next one.
Fail(c) ==
    /\ job[c].at = "asked"
    /\ job' = [job EXCEPT ![c].at = "collect", ![c].left = @ \ {First(@)},
                          ![c].bundle.answers[First(job[c].left)].status = "failed"]
    /\ UNCHANGED <<clock, rows, got, forced>>

\* Early return, the next tier, or the end.
EndTier(c) ==
    /\ job[c].at = "collect" /\ job[c].left = {}
    /\ IF Enough(job[c].bundle) \/ job[c].tier = 3
       THEN job' = [job EXCEPT ![c].at = "save"]
       ELSE job' = [job EXCEPT ![c].tier = @ + 1,
                        ![c].left = Group(job[c].bundle.metric, job[c].tier + 1)]
    /\ UNCHANGED <<clock, rows, got, forced>>

\* The bundle is the result; it is stored if the call may use the cache.
Save(c) ==
    /\ job[c].at = "save"
    /\ LET m == Head(job[c].todo)
           b == job[c].bundle
       IN  /\ got' = [got EXCEPT ![c][m] = [bundle |-> b, how |-> "collected", at |-> clock]]
           /\ IF job[c].cache = "yes"
              THEN /\ rows' = [rows EXCEPT ![m] = [bundle |-> b, saved |-> clock]]
                   /\ UNCHANGED forced
              ELSE /\ forced' = [forced EXCEPT ![c][m] = b.made]
                   /\ UNCHANGED rows
    /\ job' = [job EXCEPT ![c].at = "next", ![c].todo = Tail(@), ![c].bundle = NoRow,
                          ![c].tier = 1, ![c].since = 0]
    /\ UNCHANGED clock

\* The process dies in the middle of a call.
Die(c) ==
    /\ job[c].at # "idle"
    /\ job' = [job EXCEPT ![c] = Idle]
    /\ got' = [got EXCEPT ![c] = [m \in Metric |-> NoRow]]
    /\ UNCHANGED <<clock, rows, forced>>

CleanupExpired ==
    /\ rows' = [m \in Metric |->
                   IF rows[m] # NoRow /\ clock - rows[m].saved > Day THEN NoRow ELSE rows[m]]
    /\ UNCHANGED <<clock, job, got, forced>>

\* invalidate("*"); any other pattern changes nothing.
InvalidateAll ==
    /\ rows' = [m \in Metric |-> NoRow]
    /\ UNCHANGED <<clock, job, got, forced>>

Tick ==
    /\ clock < Horizon
    /\ \A c \in Client :
           \/ job[c].at = "idle"
           \/ job[c].at = "asked" /\ clock - job[c].since < LongestCall
    /\ clock' = clock + 1
    /\ UNCHANGED <<rows, job, got, forced>>

Work(c) ==
    \/ Return(c) \/ LookUp(c) \/ Hit(c) \/ Expire(c) \/ Open(c)
    \/ Ask(c) \/ SkipTier(c) \/ Fail(c) \/ EndTier(c) \/ Save(c)
    \/ \E v \in Value : Succeed(c, v)

Next ==
    \/ \E c \in Client :
           \/ \E list \in Request, p \in Policy, cache \in {"yes", "no"} :
                  Fetch(c, list, p, cache)
           \/ Work(c)
           \/ Die(c)
    \/ CleanupExpired
    \/ InvalidateAll
    \/ Tick

Spec == Init /\ [][Next]_vars

\* Sources answer or fail, and the processes go on.
FairSpec == Spec /\ \A c \in Client : WF_vars(Work(c))

-----------------------------------------------------------------------------
(* Properties                                                              *)

TypeOK ==
    /\ clock \in Time
    /\ rows \in [Metric -> Row \cup {NoRow}]
    /\ job \in [Client -> [at : Place, todo : Seq(Metric), cache : {"yes", "no"},
                           policy : Policy \cup {"strict"}, held : Row \cup {NoRow},
                           bundle : Bundle \cup {NoRow}, tier : 1 .. 3,
                           left : SUBSET Source, since : Time]]
    /\ got \in [Client -> [Metric -> Served \cup {NoRow}]]
    /\ forced \in [Client -> [Metric -> Time]]

\* The bundles that calls have returned or the cache holds.
Bundles == {rows[m].bundle : m \in {k \in Metric : rows[k] # NoRow}} \cup
           UNION {{got[c][m].bundle : m \in {k \in Metric : got[c][k] # NoRow}} : c \in Client}

\* No call is answered from the cache with a record that a source reported
\* more than a day ago, although it is the bundle that is dated, a bundle
\* takes time to collect, and others replace and delete its row meanwhile
\* (evidence_store.py get, evidence_engine.py fetch_for_metrics).
ServedIsFresh ==
    \A c \in Client, m \in Metric :
        got[c][m] # NoRow /\ got[c][m].how = "hit" =>
            \A s \in Used(got[c][m].bundle) :
                got[c][m].at - got[c][m].bundle.answers[s].at <= Day

\* What the tiers before t had reported.
Before(b, t) ==
    [b EXCEPT !.answers = [s \in Source |-> IF Tier[s] < t THEN b.answers[s] ELSE Unasked]]

\* A source is asked only if the better tiers together were not enough for
\* the policy of the call, and it is left out only if they were or if the
\* time was over; a failing source never hides another
\* (evidence_engine.py EvidenceExecutor.run).
TiersInTurn ==
    \A b \in Bundles : \A s \in Capable[b.metric] :
        LET status == b.answers[s].status IN
        /\ status \in {"success", "failed"} => ~ Enough(Before(b, Tier[s]))
        /\ status = "unasked" =>
               \/ Enough(Before(b, Tier[s]))
               \/ \E r \in Source : Tier[r] = Tier[s] /\ b.answers[r].status = "skipped"

\* The evidence of one metric is collected within max_total_time_seconds and
\* one call of a source, however many sources there are and however slow
\* each is (evidence_engine.py EvidenceExecutor.run).
CollectedInTime ==
    \A c \in Client :
        job[c].at \in {"collect", "asked", "save"} => Elapsed(c) <= MaxTotalTime + LongestCall

\* Evidence that a run has collected with force_refresh is what it computes
\* with from then on: "policy gate failure -> collect the evidence again,
\* compute again" (replanner.py:104, executor.py:176).
ForcedEvidenceIsUsed ==
    \A c \in Client, m \in Metric :
        got[c][m] # NoRow => got[c][m].bundle.made >= forced[c][m]

\* Every call returns, whatever the sources do and whoever else uses the
\* cache (evidence_engine.py fetch_for_metrics).
CallsReturn == \A c \in Client : job[c].at # "idle" ~> job[c].at = "idle"

=============================================================================
