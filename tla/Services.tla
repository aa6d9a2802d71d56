------------------------------ MODULE Services ------------------------------
(***************************************************************************)
(* The components that a run of the kernel calls.  They share no state:    *)
(* the initial state chooses one, "tiers" or "cache" of Evidence (one call *)
(* in detail, or several processes on one cache), "search" of Search,      *)
(* "data" of Curated or "llm" of LLM, and only that one moves.  What is    *)
(* proved of each is instantiated with it.                                 *)
(***************************************************************************)
EXTENDS Naturals, Sequences, FiniteSets

CONSTANTS
    Component,       \* the components that are looked at
    Tiered, Common,  \* the constants of Evidence for "tiers" and for "cache", by their names
    NoRow,
    \* of Search
    Page, Host, Landing, Content, Facts, Serp, Phase, MaxQueries, MaxFetches, Level,
    \* of Curated
    Key, Import, Change, MaxNumber, MaxPatches, MaxBundles, MaxRun,
    \* of LLM
    Task, Gate, Model, ProviderOf, DefaultModel, CostOf, Capable, Policy, Unknown, Budgets,
    MaxAttempts, MaxPerMinute, MaxCostPerDay, Minute, Horizon, MaxDay, MaxBooked

VARIABLES which,
    clock, rows, job, got, forced,
    at, level, phase, sent, queries, fetches, hits, left, queue, visited, docs,
    cands, replanned, loaded, outcome,
    now, saved, open,
    registered, fallback, time, day, tokens, refilled, daily, resetDay, cache, step, request,
    asked, spent

evidence == <<clock, rows, job, got, forced>>
search == <<at, level, phase, sent, queries, fetches, hits, left, queue, visited, docs,
            cands, replanned, loaded, outcome>>
curated == <<now, saved, open>>
llm == <<registered, fallback, time, day, tokens, refilled, daily, resetDay, cache, step,
         request, asked, spent>>
vars == <<which, evidence, search, curated, llm>>

Tiers == INSTANCE EvidenceProofs WITH
    Client <- Tiered.Client, Metric <- Tiered.Metric, Source <- Tiered.Source,
    Order <- Tiered.Order, Tier <- Tiered.Tier, Capable <- Tiered.Capable,
    Value <- Tiered.Value, Request <- Tiered.Request, Policy <- Tiered.Policy,
    Day <- Tiered.Day, MaxTotalTime <- Tiered.MaxTotalTime,
    LongestCall <- Tiered.LongestCall, Horizon <- Tiered.Horizon

Cache == INSTANCE EvidenceProofs WITH
    Client <- Common.Client, Metric <- Common.Metric, Source <- Common.Source,
    Order <- Common.Order, Tier <- Common.Tier, Capable <- Common.Capable,
    Value <- Common.Value, Request <- Common.Request, Policy <- Common.Policy,
    Day <- Common.Day, MaxTotalTime <- Common.MaxTotalTime,
    LongestCall <- Common.LongestCall, Horizon <- Common.Horizon

Web == INSTANCE Search
Data == INSTANCE Curated
Service == INSTANCE LLMProofs WITH pc <- step, job <- request, Budget <- Budgets

ASSUME TiersAssumption == Tiers!PlanAssumption /\ Tiers!RequestAssumption /\ Tiers!TimeAssumption
ASSUME CacheAssumption == Cache!PlanAssumption /\ Cache!RequestAssumption /\ Cache!TimeAssumption
ASSUME SearchAssumption == Web!WebAssumption /\ Web!PhaseAssumption
ASSUME DataAssumption == Data!CuratedAssumption
ASSUME ServiceAssumption == Service!LLMAssumption

\* The state of the others is one that they may begin with.
Init ==
    /\ which \in Component
    /\ IF which = "cache" THEN Cache!Init ELSE Tiers!Init
    /\ Web!Init /\ (which # "search" => level = "strict")
    /\ Data!Init
    /\ Service!Init
    /\ which # "llm" => registered = {"openai"}

Next ==
    \/ which = "tiers" /\ Tiers!Next /\ UNCHANGED <<which, search, curated, llm>>
    \/ which = "cache" /\ Cache!Next /\ UNCHANGED <<which, search, curated, llm>>
    \/ which = "search" /\ Web!Next /\ UNCHANGED <<which, evidence, curated, llm>>
    \/ which = "data" /\ Data!Next /\ UNCHANGED <<which, evidence, search, llm>>
    \/ which = "llm" /\ Service!Next /\ UNCHANGED <<which, evidence, search, curated>>

Spec == Init /\ [][Next]_vars

\* As in the components: sources, queries and pages answer or time out.
FairSpec ==
    /\ Spec
    /\ \A c \in Tiered.Client :
           WF_vars(which = "tiers" /\ Tiers!Work(c) /\ UNCHANGED <<which, search, curated, llm>>)
    /\ WF_vars(which = "search" /\ Web!Work /\ UNCHANGED <<which, evidence, curated, llm>>)

-----------------------------------------------------------------------------
(* The properties of the components, for the one that was chosen           *)

\* Every component stays within its types.
TypeOK ==
    /\ IF which = "cache" THEN Cache!TypeOK ELSE Tiers!TypeOK
    /\ Web!TypeOK
    /\ Data!TypeOK
    /\ Service!TypeOK

\* A cache hit holds no record older than a day (evidence_store.py get).
ServedIsFresh == IF which = "cache" THEN Cache!ServedIsFresh ELSE Tiers!ServedIsFresh

\* Worse tiers are asked only if the better ones were not enough, and all of
\* them are unless the time is over (evidence_engine.py run).
TiersInTurn == IF which = "cache" THEN Cache!TiersInTurn ELSE Tiers!TiersInTurn

\* A metric takes the time budget and one call at most (evidence_engine.py run).
CollectedInTime == IF which = "cache" THEN Cache!CollectedInTime ELSE Tiers!CollectedInTime

\* Evidence collected with force_refresh is what later bundles are made of
\* (executor.py:176, replanner.py:104).
ForcedEvidenceIsUsed ==
    IF which = "cache" THEN Cache!ForcedEvidenceIsUsed ELSE Tiers!ForcedEvidenceIsUsed

\* Calls of fetch_for_metrics return, and a search ends (evidence_engine.py, search_v3/runner.py).
CallsReturn ==
    /\ which = "tiers" => Tiers!CallsReturn
    /\ which = "search" => Web!SearchEnds

\* A strict value rests on two sources that state it (search_v3/gate.py).
StrictCommitIsBacked == Web!StrictCommitIsBacked

\* Queries and pages stay within the budgets, whatever crawls find, and what is crawled is a new
\* address, linked from a page loaded before (search_v3/runner.py, document_fetcher.py).
LoadsAreDue == Web!WithinBudget /\ Web!LinksLeadBack

\* A bundle is what its chain of patches says, what is found for an item of a committed bundle is
\* what that chain says, and the lineage of a datum is a true history (brownfield/dop_store.py,
\* curated_internal_source.py).
DataIsTrue == Data!ChainReplays /\ Data!ServedAsReplayed /\ Data!LineageIsTrue

\* A managed answer comes from a model the policy leaves for the task, and a failure that the
\* ladder names leads to the model it names (llm/service.py call, call_structured;
\* model_selector.py select).
AnswersAreAllowed == Service!AnswersAreAllowed /\ Service!LadderIsTaken

\* The rate limit and the limit of the day hold up to a known excess
\* (llm/service.py RateLimiter, _check_daily_cost_reset).
LimitsHold == Service!RateHolds /\ Service!DayHolds

=============================================================================
