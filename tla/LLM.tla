-------------------------------- MODULE LLM ---------------------------------
(***************************************************************************)
(* The language model service (cmis_core/llm): which model answers a       *)
(* request (model_selector.py, policy_engine.py), the rate limit, the cost *)
(* of the day and the cache of `call`, and the attempts of                 *)
(* `call_structured` with its quality gates and escalation (service.py).   *)
(*                                                                         *)
(* The service has one caller and no lock; the clock runs between any two  *)
(* of its steps.  A prompt is known by its task.  Traces, call counts and  *)
(* the total cost are statistics that no step reads, and are left out.     *)
(***************************************************************************)
EXTENDS Integers, Sequences, FiniteSetsExt

CONSTANTS
    Task,          \* CMISTaskType values
    Gate,          \* task |-> its quality gates, "json" or "text"
    Model,         \* the models of model_registry.yaml
    ProviderOf,    \* model |-> the provider it belongs to
    DefaultModel,  \* provider |-> the model it is created with
    CostOf,        \* model |-> the estimated cost of one call
    Capable,       \* task |-> the models with the capabilities it requires
    Policy,        \* policy |-> its llm routing, a record (see Routing)
    Unknown,       \* a policy_ref that does not resolve
    Budget,        \* values of budget_remaining_usd
    MaxAttempts,   \* largest max_attempts
    MaxPerMinute,  \* rate_limit_per_minute
    MaxCostPerDay, \* max_cost_per_day
    Minute,        \* the length of a minute in ticks
    Horizon,       \* bound: the clock stops here
    MaxDay,        \* bound: the calendar stops here
    MaxBooked      \* bound: what may be booked before the last request

VARIABLES
    registered, \* the providers LLMRegistry holds
    fallback,   \* its default provider, which the default route names
    time, day,  \* the clock and the calendar
    tokens,     \* RateLimiter.tokens
    refilled,   \* RateLimiter.last_refill
    daily,      \* daily_cost
    resetDay,   \* daily_reset_date
    cache,      \* cache: key |-> the model that answered
    pc,         \* what the service does
    job,        \* the request it works on
    asked,      \* observer: how often `call` has asked a provider, up to each tick
    spent       \* observer: what `call` booked, by the day it checked

vars == <<registered, fallback, time, day, tokens, refilled, daily, resetDay, cache,
          pc, job, asked, spent>>
Registry == <<registered, fallback>>
Clock    == <<time, day>>
Limiter  == <<tokens, refilled>>
Observed == <<asked, spent>>

NoPolicy == "none"  \* no policy_ref is given
Place == {"idle", "limiting", "full", "asleep", "charging", "asking", "failed", "returned"}

\* The llm block of a policy (policy_types.py).  `order` stands for the tier
\* preference with its ties broken by cost and name, `profile` for the models
\* that may run in its execution_profile.
Routing == [forbidden: SUBSET Task, allow: SUBSET Model, profile: SUBSET Model,
            maxCost: Nat, prefer: [Task -> Seq(Model)],
            ladder: [Task -> Seq([when: {"json", "text"}, next: Model])],
            order: Seq(Model)]

LLMAssumption ==
    /\ MaxPerMinute \in Nat \ {0} /\ MaxCostPerDay \in Nat /\ Minute \in Nat \ {0}
    /\ Horizon \in Nat /\ MaxDay \in Nat /\ MaxBooked \in Nat
    /\ MaxAttempts \in Nat \ {0} /\ Budget \subseteq Nat
    /\ Gate \in [Task -> SUBSET {"json", "text"}] /\ Capable \in [Task -> SUBSET Model]
    /\ ProviderOf \in [Model -> {"openai", "mock"}] /\ CostOf \in [Model -> Nat]
    /\ DefaultModel \in [{"openai", "mock"} -> Model]
    /\ \A q \in DOMAIN DefaultModel : ProviderOf[DefaultModel[q]] = q
    /\ \A p \in DOMAIN Policy :
           /\ Policy[p] \in Routing
           /\ \A m \in Model : \E i \in DOMAIN Policy[p].order : Policy[p].order[i] = m
    /\ {Unknown, NoPolicy} \cap DOMAIN Policy = {}

PolicyRef == DOMAIN Policy \cup {Unknown, NoPolicy}

-----------------------------------------------------------------------------
(* Selection                                                               *)

\* The models a policy leaves for a task (ModelSelector.select, up to the
\* budget filter); none, where select raises.
Candidates(p, t, budget) ==
    IF p \notin DOMAIN Policy \/ t \in Policy[p].forbidden THEN {}
    ELSE {m \in Policy[p].allow \cap Policy[p].profile \cap Capable[t] :
              CostOf[m] <= Policy[p].maxCost /\ CostOf[m] <= budget}

\* The steps of the ladder that name one of the failures.
Named(p, t, failures) ==
    {i \in DOMAIN Policy[p].ladder[t] : Policy[p].ladder[t][i].when \in failures}

\* Mutant: the model of the ladder comes last.
PreferredFirst(p, t, failures) ==
    LET named == Named(p, t, failures)
    IN  IF named = {} THEN Policy[p].prefer[t]
        ELSE Policy[p].prefer[t] \o <<Policy[p].ladder[t][Min(named)].next>>

\* preferred_models of the task, and before them the model of the first step of
\* the ladder that names one of the failures.
Preferred(p, t, failures) ==
    LET named == Named(p, t, failures)
    IN  IF named = {} THEN Policy[p].prefer[t]
        ELSE <<Policy[p].ladder[t][Min(named)].next>> \o Policy[p].prefer[t]

\* The candidate of least rank: the preferred ones first, then tier and cost.
Chosen(p, t, failures, budget) ==
    LET ranked == Preferred(p, t, failures) \o Policy[p].order
    IN  ranked[Min({i \in DOMAIN ranked : ranked[i] \in Candidates(p, t, budget)})]

\* Who is asked: the selected model, or, whenever the selection fails or no
\* policy is given, the default route.
Route(p, t, failures, budget) ==
    IF Candidates(p, t, budget) # {}
    THEN [managed |-> "yes", model |-> Chosen(p, t, failures, budget)]
    ELSE [managed |-> "no", model |-> DefaultModel[fallback]]

\* The quality gates an answer fails: json_parseable wants an object; has_claims
\* and has_strategies want a list in plain text, which the answer of a structured
\* call is only if it was a JSON string.
FailuresOf(t, answer) ==
    {g \in Gate[t] : answer # IF g = "json" THEN "object" ELSE "text"}

\* Mutant: the key has the model of the default route, not the selected one.
CacheKeyOfRoute(t, m) == <<t, DefaultModel[fallback]>>

\* _build_cache_key: no provider, no prompt profile.
CacheKey(t, m) == <<t, m>>

Job == [kind: {"call", "structured"}, task: Task, policy: PolicyRef, budget: Budget,
        managed: {"yes", "no"}, model: Model, by: Model, day: Nat,
        gates: {"on", "off"}, attempts: 1 .. MaxAttempts,
        attempt: 1 .. MaxAttempts, failures: SUBSET {"json", "text"}]
NoJob == [kind |-> "none"]

-----------------------------------------------------------------------------
(* create_llm_service, with or without a key for OpenAI                     *)

\* The contract declares openai alone; without a key it is not registered and
\* mock stands in.  In "mock" mode mock is added and made the default.
Init ==
    /\ \E mode \in {"auto", "mock"}, key \in {"present", "absent"} :
           /\ registered = (IF key = "present" THEN {"openai"} ELSE {})
                             \cup (IF mode = "mock" \/ key = "absent" THEN {"mock"} ELSE {})
           /\ fallback = IF mode = "mock" \/ key = "absent" THEN "mock" ELSE "openai"
    /\ time = 0 /\ day = 0
    /\ tokens = MaxPerMinute /\ refilled = 0
    /\ daily = 0 /\ resetDay = 0
    /\ cache = <<>>
    /\ pc = "idle"
    /\ job = NoJob
    /\ asked = [i \in 0 .. Horizon |-> 0]
    /\ spent = [d \in 0 .. MaxDay |-> 0]

-----------------------------------------------------------------------------
(* call                                                                    *)

\* Selection, route and cache: an answer in the cache is returned at once.
Call(t, p, budget) ==
    LET r == Route(p, t, {}, budget)
        key == CacheKey(t, r.model)
        hit == key \in DOMAIN cache
    IN  /\ pc = "idle"
        /\ job' = [kind |-> "call", task |-> t, policy |-> p, budget |-> budget,
                   managed |-> r.managed, model |-> r.model,
                   by |-> IF hit THEN cache[key] ELSE r.model, day |-> 0,
                   gates |-> "off", attempts |-> 1, attempt |-> 1, failures |-> {}]
        /\ pc' = IF hit THEN "returned" ELSE "limiting"
        /\ UNCHANGED <<Registry, Clock, Limiter, daily, resetDay, cache, Observed>>

Expired == time - refilled >= Minute

\* check_or_wait: refill, then take a token if there is one.
TakeToken ==
    LET left == IF Expired THEN MaxPerMinute ELSE tokens
    IN  /\ pc = "limiting"
        /\ refilled' = IF Expired THEN time ELSE refilled
        /\ tokens' = IF left > 0 THEN left - 1 ELSE left
        /\ pc' = IF left > 0 THEN "charging" ELSE "full"
        /\ UNCHANGED <<Registry, Clock, daily, resetDay, cache, job, Observed>>

\* It reads the clock again to know how long to wait.  If the minute ended in
\* between it neither waits nor refills, and takes a token that is not there.
WaitOrNot ==
    /\ pc = "full"
    /\ IF Expired THEN tokens' = tokens - 1 /\ pc' = "charging"
       ELSE UNCHANGED tokens /\ pc' = "asleep"
    /\ UNCHANGED <<Registry, Clock, refilled, daily, resetDay, cache, job, Observed>>

Wake ==
    /\ pc = "asleep" /\ Expired
    /\ tokens' = MaxPerMinute - 1
    /\ refilled' = time
    /\ pc' = "charging"
    /\ UNCHANGED <<Registry, Clock, daily, resetDay, cache, job, Observed>>

\* Mutant: the day of the last reset is not looked at.
BookedOnFirstDay == IF day = 0 THEN daily ELSE 0

\* _check_daily_cost_reset: the costs booked so far count only for their day.
Booked == IF day = resetDay THEN daily ELSE 0

\* The reset, the provider (a selected one must be there), the limit of the day.
Charge ==
    LET here == ProviderOf[job.model] \in registered
        fits == Booked + CostOf[job.model] <= MaxCostPerDay
    IN  /\ pc = "charging"
        /\ daily' = Booked
        /\ resetDay' = day
        /\ IF here /\ fits
           THEN /\ pc' = "asking"
                /\ job' = [job EXCEPT !.day = day]
                /\ asked' = [i \in 0 .. Horizon |-> IF i < time THEN asked[i] ELSE asked[i] + 1]
           ELSE pc' = "idle" /\ job' = NoJob /\ UNCHANGED asked
        /\ UNCHANGED <<Registry, Clock, Limiter, cache, spent>>

\* The provider answers `call`; cost and answer are kept.
Answered ==
    /\ pc = "asking" /\ job.kind = "call"
    /\ daily' = daily + CostOf[job.model]
    /\ spent' = [spent EXCEPT ![job.day] = @ + CostOf[job.model]]
    /\ cache' = [k \in DOMAIN cache \cup {CacheKey(job.task, job.model)} |->
                     IF k = CacheKey(job.task, job.model) THEN job.model ELSE cache[k]]
    /\ pc' = "returned"
    /\ UNCHANGED <<Registry, Clock, Limiter, resetDay, job, asked>>

\* The provider raises, in either kind of call: nothing is booked.
Raised ==
    /\ pc = "asking"
    /\ pc' = "idle" /\ job' = NoJob
    /\ UNCHANGED <<Registry, Clock, Limiter, daily, resetDay, cache, Observed>>

-----------------------------------------------------------------------------
(* call_structured                                                         *)

Send(j) ==
    LET here == ProviderOf[j.model] \in registered
    IN  /\ pc' = IF here THEN "asking" ELSE "idle"
        /\ job' = IF here THEN j ELSE NoJob

\* No cache, no limiter and no limit of the day.  Without enable_escalation one
\* attempt is the last, as with max_attempts = 1; without a selection there is
\* one attempt that nothing judges.
CallStructured(t, p, budget, attempts, gates) ==
    LET r == Route(p, t, {}, budget)
    IN  /\ pc = "idle"
        /\ daily <= MaxBooked
        /\ Send([kind |-> "structured", task |-> t, policy |-> p, budget |-> budget,
                 managed |-> r.managed, model |-> r.model, by |-> r.model, day |-> 0,
                 gates |-> IF r.managed = "yes" THEN gates ELSE "off",
                 attempts |-> IF r.managed = "yes" THEN attempts ELSE 1,
                 attempt |-> 1, failures |-> {}])
        /\ UNCHANGED <<Registry, Clock, Limiter, daily, resetDay, cache, Observed>>

\* The provider answers.  Only the gates of a managed call judge the answer; one
\* that fails them is returned all the same when no attempt is left.
AnsweredStructured(answer) ==
    LET failures == IF job.managed = "yes" /\ job.gates = "on"
                    THEN FailuresOf(job.task, answer) ELSE {}
        last == job.attempt = job.attempts
    IN  /\ pc = "asking" /\ job.kind = "structured"
        /\ daily' = daily + CostOf[job.model]
        /\ job' = [job EXCEPT !.failures = IF last THEN @ ELSE failures]
        /\ pc' = IF failures # {} /\ ~last THEN "failed" ELSE "returned"
        /\ UNCHANGED <<Registry, Clock, Limiter, resetDay, cache, Observed>>

\* Another selection, with the failures of the last attempt and the same budget;
\* the candidates are those of the first, so it does not raise.
Escalate ==
    LET r == Route(job.policy, job.task, job.failures, job.budget)
    IN  /\ pc = "failed"
        /\ Send([job EXCEPT !.model = r.model, !.by = r.model, !.attempt = @ + 1])
        /\ UNCHANGED <<Registry, Clock, Limiter, daily, resetDay, cache, Observed>>

\* The caller has its answer.
Return ==
    /\ pc = "returned"
    /\ pc' = "idle" /\ job' = NoJob
    /\ UNCHANGED <<Registry, Clock, Limiter, daily, resetDay, cache, Observed>>

ClearCache ==
    /\ pc = "idle"
    /\ cache' = <<>>
    /\ UNCHANGED <<Registry, Clock, Limiter, daily, resetDay, pc, job, Observed>>

Tick ==
    /\ time < Horizon
    /\ time' = time + 1
    /\ UNCHANGED <<day, Registry, Limiter, daily, resetDay, cache, pc, job, Observed>>

Midnight ==
    /\ day < MaxDay
    /\ day' = day + 1
    /\ UNCHANGED <<time, Registry, Limiter, daily, resetDay, cache, pc, job, Observed>>

Next ==
    \/ \E t \in Task, p \in PolicyRef, b \in Budget :
           \/ Call(t, p, b)
           \/ \E n \in 1 .. MaxAttempts, g \in {"on", "off"} :
                  CallStructured(t, p, b, n, g)
    \/ TakeToken \/ WaitOrNot \/ Wake \/ Charge \/ Answered \/ Raised
    \/ \E answer \in {"object", "text", "broken"} : AnsweredStructured(answer)
    \/ Escalate \/ Return \/ ClearCache \/ Tick \/ Midnight

Spec == Init /\ [][Next]_vars

-----------------------------------------------------------------------------
(* Properties                                                              *)

TypeOK ==
    /\ registered \subseteq {"openai", "mock"} /\ fallback \in registered
    /\ time \in 0 .. Horizon /\ refilled \in 0 .. time
    /\ day \in 0 .. MaxDay /\ resetDay \in 0 .. day
    /\ tokens \in -1 .. MaxPerMinute
    /\ daily \in Nat
    /\ DOMAIN cache \subseteq Task \X Model /\ \A k \in DOMAIN cache : cache[k] \in Model
    /\ pc \in Place
    /\ job \in Job \/ job = NoJob
    /\ pc = "idle" <=> job = NoJob
    /\ asked \in [0 .. Horizon -> Nat]
    /\ spent \in [0 .. MaxDay -> Nat]

\* What the selection decided for is what the caller gets: an answer of a
\* managed call, from the cache, the first attempt or an escalated one, was
\* given by a model the policy leaves for the task, within both cost limits.
AnswersAreAllowed ==
    pc = "returned" /\ job.managed = "yes" =>
        job.by \in Candidates(job.policy, job.task, job.budget)

\* The count as it was before tick i.
Before(count, i) == IF i = 0 THEN 0 ELSE count[IF i <= Horizon THEN i - 1 ELSE Horizon]

\* `call` asks providers at most twice the limit and once more in any minute:
\* the end of one window, the token that is not there, and the next window.
RateHolds ==
    \A i \in 0 .. Horizon :
        Before(asked, i + Minute) - Before(asked, i) <= 2 * MaxPerMinute + 1

\* What `call` books for the requests it checked on one day stays within the
\* limit of the day, also when midnight passes between the check and the answer.
DayHolds == \A d \in DOMAIN spent : spent[d] <= MaxCostPerDay

\* After a failure that the ladder of the task names, the next attempt is made
\* by the model of the first such step, if the policy lets it.
LadderIsTaken ==
    pc \in {"asking", "returned"} /\ job.attempt > 1 =>
        LET named == Named(job.policy, job.task, job.failures)
            next == Policy[job.policy].ladder[job.task][Min(named)].next
        IN  named # {} /\ next \in Candidates(job.policy, job.task, job.budget)
                => job.model = next
=============================================================================
