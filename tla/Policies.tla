------------------------------ MODULE Policies ------------------------------
(***************************************************************************)
(* The policy engine of cmis_core (policy_engine.py): it reads the policy  *)
(* pack once, compiles a policy from its profiles on first use, reads the  *)
(* routing of language models anew on every resolution, and judges metrics *)
(* and their evidence by the gates a policy lists.                         *)
(*                                                                         *)
(* Ratios are integers in hundredths.  A profile names only the settings   *)
(* it has; the parsers fill in the others.                                 *)
(***************************************************************************)
EXTENDS Integers, Sequences, FiniteSets, SequencesExt, FiniteSetsExt

CONSTANTS Packs,      \* the policy packs that may lie on the disk
          Routings,   \* the routing files: [policy |-> its block]
          Ref,        \* [reference |-> the policy it names]: "policy:x@v3" names x
          Bundle,     \* summaries of evidence: [sources, tiers, age]
          Evaluations,\* sequences of metric evaluations that are judged together
          CustomGate, \* a gate of the user's own, or the like of an existing one
          Absent      \* nothing: no spread, no convergence, no entry of a cache

VARIABLES packFile, routingFile,   \* what lies on the disk
          pack, gates, compiled, effective,   \* the engine: its pack, registry and caches
          answer                   \* its last answer

vars == <<packFile, routingFile, pack, gates, compiled, effective, answer>>

-----------------------------------------------------------------------------
(***************************************************************************)
(* The shipped pack, config/policies.yaml.                                 *)
(***************************************************************************)
EvidenceProfiles ==
    [strict |-> [min_sources |-> 2, require_official |-> TRUE, max_age |-> 365, allow_web |-> FALSE,
                 tiers |-> {"official", "curated", "commercial"}],
     balanced |-> [min_sources |-> 1, max_age |-> 730, allow_web |-> TRUE,
                   tiers |-> {"official", "curated", "commercial", "web"}],
     permissive |-> [min_sources |-> 0, max_age |-> 3650, allow_web |-> TRUE,
                     tiers |-> {"official", "curated", "commercial", "web"}]]

ValueProfiles ==
    [strict |-> [literal |-> 70, spread |-> 30, confidence |-> 80,
                 specific |-> [Revenue |-> [literal |-> 90, spread |-> 20],
                               TAM |-> [literal |-> 80, spread |-> 25]]],
     balanced |-> [literal |-> 50, spread |-> 50, confidence |-> 60,
                   specific |-> [Revenue |-> [literal |-> 70, spread |-> 30]]],
     permissive |-> [literal |-> 30, spread |-> 70, confidence |-> 30]]

PriorProfiles ==
    [none |-> [allow |-> FALSE, ratio |-> 0, types |-> {}],
     limited |-> [allow |-> TRUE, ratio |-> 30, types |-> {"pattern", "belief", "uninformative"}],
     free |-> [allow |-> TRUE, ratio |-> 70, types |-> {"pattern", "belief", "llm", "uninformative"}]]

ConvergenceProfiles ==
    [default |-> [threshold |-> 30, methods |-> 1,
                  specific |-> [TAM |-> [threshold |-> 30, methods |-> 2],
                                SAM |-> [threshold |-> 30, methods |-> 2],
                                Revenue |-> [threshold |-> 20, methods |-> 1]]]]

JudgedByAll == <<"max_age", "literal_ratio", "spread_ratio", "prior_ratio", "convergence">>

Modes ==
    [reporting_strict |-> [evidence |-> "strict", value |-> "strict", prior |-> "none",
                           convergence |-> "default",
                           gates |-> <<"min_sources", "require_official">> \o JudgedByAll],
     decision_balanced |-> [evidence |-> "balanced", value |-> "balanced", prior |-> "limited",
                            convergence |-> "default", gates |-> <<"min_sources">> \o JudgedByAll],
     exploration_friendly |-> [evidence |-> "permissive", value |-> "permissive", prior |-> "free",
                               convergence |-> "default", gates |-> <<"spread_ratio", "prior_ratio">>]]

PackRouting ==
    [usage |-> [reporting |-> "reporting_strict", decision |-> "decision_balanced",
                exploration |-> "exploration_friendly"],
     role |-> [structure_analyst |-> "reporting_strict", numerical_modeler |-> "reporting_strict",
               reality_monitor |-> "reporting_strict", strategy_architect |-> "decision_balanced",
               opportunity_designer |-> "exploration_friendly"],
     fallback |-> "decision_balanced"]

ShippedPack ==
    [evidence |-> EvidenceProfiles, value |-> ValueProfiles, prior |-> PriorProfiles,
     convergence |-> ConvergenceProfiles, modes |-> Modes, routing |-> PackRouting]

-----------------------------------------------------------------------------
(***************************************************************************)
(* Compiling a policy.                                                     *)
(***************************************************************************)
Forever == 1000000

\* What a profile does not name is filled in.
Filled(d, rest) == [x \in DOMAIN d \cup DOMAIN rest |-> IF x \in DOMAIN d THEN d[x] ELSE rest[x]]

EvidencePolicy(d) ==
    Filled(d, [min_sources |-> 0, require_official |-> FALSE, tiers |-> {}, max_age |-> Forever,
               allow_web |-> TRUE])
ValuePolicy(d) == Filled(d, [literal |-> 0, spread |-> 100, confidence |-> 0, specific |-> <<>>])
PriorPolicy(d) == Filled(d, [allow |-> FALSE, ratio |-> 0, types |-> {}])
ConvergencePolicy(d) == Filled(d, [threshold |-> 30, methods |-> 1, specific |-> <<>>])

\* Every profile is one of its group, and every gate of the mode is registered.
Compilable(pk, id, registry) ==
    /\ id \in DOMAIN pk.modes
    /\ LET m == pk.modes[id]
       IN  /\ m.evidence \in DOMAIN pk.evidence /\ m.value \in DOMAIN pk.value
           /\ m.prior \in DOMAIN pk.prior /\ m.convergence \in DOMAIN pk.convergence
           /\ ToSet(m.gates) \subseteq registry

Compile(pk, id) ==
    LET m == pk.modes[id]
    IN  [id |-> id, gates |-> m.gates,
         evidence |-> EvidencePolicy(pk.evidence[m.evidence]),
         value |-> ValuePolicy(pk.value[m.value]),
         prior |-> PriorPolicy(pk.prior[m.prior]),
         convergence |-> ConvergencePolicy(pk.convergence[m.convergence])]

\* The override, else the policy of the usage, else that of the role, else the fallback.
ResolvePolicyId(pk, role, usage, override) ==
    IF override # Absent THEN override
    ELSE IF usage \in DOMAIN pk.routing.usage THEN pk.routing.usage[usage]
    ELSE IF role \in DOMAIN pk.routing.role THEN pk.routing.role[role]
    ELSE pk.routing.fallback

-----------------------------------------------------------------------------
(***************************************************************************)
(* The gates: each answers the actions it suggests, one for a violation.   *)
(***************************************************************************)
ValueFor(policy, metric) ==
    IF metric \in DOMAIN policy.value.specific
    THEN Filled(policy.value.specific[metric], policy.value) ELSE policy.value

RuleFor(policy, metric) ==
    IF metric \in DOMAIN policy.convergence.specific
    THEN policy.convergence.specific[metric] ELSE policy.convergence

When(condition, action) == IF condition THEN <<action>> ELSE <<>>

GateMinSources(policy, ev, m) == When(ev.sources < policy.evidence.min_sources, "fetch_more_evidence")

GateOfficial(policy, ev, m) ==
    When(~(ev.tiers \subseteq policy.evidence.tiers), "refetch_with_allowed_tiers")
    \o When(~policy.evidence.allow_web /\ "web" \in ev.tiers, "refetch_without_web")
    \o When(policy.evidence.require_official /\ "official" \notin ev.tiers, "fetch_official_sources")

GateMaxAge(policy, ev, m) == When(ev.age > policy.evidence.max_age, "refetch_recent_evidence")

GateConfidence(policy, ev, m) ==
    When(m.confidence < ValueFor(policy, m.id).confidence, "improve_evidence_or_methods")

GateLiteral(policy, ev, m) ==
    When(m.literal < ValueFor(policy, m.id).literal, "fetch_more_direct_evidence")

\* A spread that is not known counts as none.
GateSpread(policy, ev, m) ==
    When(m.spread # Absent /\ m.spread > ValueFor(policy, m.id).spread, "reduce_uncertainty")

\* Mutant: a policy that allows no prior looks at its share alone, not at its types.
GatePriorShare(policy, ev, m) ==
    IF ~policy.prior.allow THEN When(m.prior > 0, "rerun_without_prior")
    ELSE When(m.prior > policy.prior.ratio, "increase_evidence_share")
         \o When(~(m.priors \subseteq policy.prior.types), "rerun_with_allowed_prior_types")

GatePrior(policy, ev, m) ==
    IF ~policy.prior.allow THEN When(m.prior > 0 \/ m.priors # {}, "rerun_without_prior")
    ELSE When(m.prior > policy.prior.ratio, "increase_evidence_share")
         \o When(~(m.priors \subseteq policy.prior.types), "rerun_with_allowed_prior_types")

GateConvergence(policy, ev, m) ==
    LET rule == RuleFor(policy, m.id)
        methods == m.methods \ {"fusion_validation"}
    IN  IF Cardinality(methods) < rule.methods THEN <<"run_additional_method">>
        ELSE IF rule.methods <= 1 THEN <<>>
        ELSE IF m.convergence = Absent THEN <<"compute_convergence_ratio">>
        ELSE When(m.convergence > rule.threshold, "refine_or_fuse_methods")

DefaultGates == {"min_sources", "require_official", "max_age", "min_confidence", "literal_ratio",
                 "spread_ratio", "prior_ratio", "convergence"}

\* A gate of the user's own lets every metric pass.
RunGate(g, policy, ev, m) ==
    CASE g = "min_sources"      -> GateMinSources(policy, ev, m)
      [] g = "require_official" -> GateOfficial(policy, ev, m)
      [] g = "max_age"          -> GateMaxAge(policy, ev, m)
      [] g = "min_confidence"   -> GateConfidence(policy, ev, m)
      [] g = "literal_ratio"    -> GateLiteral(policy, ev, m)
      [] g = "spread_ratio"     -> GateSpread(policy, ev, m)
      [] g = "prior_ratio"      -> GatePrior(policy, ev, m)
      [] g = "convergence"      -> GateConvergence(policy, ev, m)
      [] OTHER                  -> <<>>

\* evaluate_metric: the violations of all its gates, in their order.
EvaluateMetric(policy, ev, m) ==
    FlattenSeq([i \in DOMAIN policy.gates |-> RunGate(policy.gates[i], policy, ev, m)])

\* evaluate_metrics: one result for each identifier, the last of those that share it.
EvaluateMetrics(policy, ev, ms) ==
    [passed |-> \A i \in DOMAIN ms : EvaluateMetric(policy, ev, ms[i]) = <<>>,
     by |-> [id \in {ms[i].id : i \in DOMAIN ms} |->
               EvaluateMetric(policy, ev, ms[Max({i \in DOMAIN ms : ms[i].id = id})])]]

FailedMetrics(result) == {id \in DOMAIN result.by : result.by[id] # <<>>}

\* extract_all_suggested_actions, and how many violations there are.
SuggestedActions(result) == UNION {ToSet(result.by[id]) : id \in DOMAIN result.by}
TotalViolations(result) == Cardinality(UNION {{id} \X DOMAIN result.by[id] : id \in DOMAIN result.by})

\* dry_run_policy.
DryRun(policy, ev, ms) ==
    LET result == EvaluateMetrics(policy, ev, ms)
    IN  [would |-> result.passed, failed |-> FailedMetrics(result),
         total |-> TotalViolations(result), actions |-> SuggestedActions(result)]

-----------------------------------------------------------------------------
(***************************************************************************)
(* The engine.                                                             *)
(***************************************************************************)
\* The shipped pack is one that may lie there; modes list their gates; metrics are judged in
\* order, by numbers.
PolicyAssumption ==
    /\ ShippedPack \in Packs
    /\ \A pk \in Packs : \A id \in DOMAIN pk.modes : pk.modes[id].gates \in Seq(STRING)
    /\ \A ev \in Bundle : ev.sources \in Int /\ ev.age \in Int
    /\ \A ms \in Evaluations : ms \in Seq(ToSet(ms)) /\ \A m \in ToSet(ms) :
        m.literal \in Int /\ m.prior \in Int /\ (m.spread \in Int \/ m.spread = Absent)

Policy == UNION {DOMAIN pk.modes : pk \in Packs}
NoCompiled == [id \in Policy |-> Absent]

Init ==
    /\ packFile = ShippedPack /\ routingFile \in Routings
    /\ pack = packFile /\ gates = DefaultGates
    /\ compiled = NoCompiled /\ effective = {} /\ answer = Absent

\* The files are edited while the engine lives.
EditPack ==
    /\ packFile' \in Packs
    /\ UNCHANGED <<routingFile, pack, gates, compiled, effective, answer>>

EditRouting ==
    /\ routingFile' \in Routings
    /\ UNCHANGED <<packFile, pack, gates, compiled, effective, answer>>

\* A new engine reads the pack that is there now (__init__, _load_policy_pack).
NewEngine ==
    /\ pack' = packFile /\ gates' = DefaultGates
    /\ compiled' = NoCompiled /\ effective' = {} /\ answer' = Absent
    /\ UNCHANGED <<packFile, routingFile>>

\* get_policy: what the cache has, else what is compiled from the engine's pack.
Known(id) == compiled[id] # Absent \/ Compilable(pack, id, gates)
PolicyOf(id) == IF compiled[id] # Absent THEN compiled[id] ELSE Compile(pack, id)
Cached(id) == compiled' = [compiled EXCEPT ![id] = PolicyOf(id)]

\* register_custom_gate: an identifier that is taken is refused.
RegisterGate(g) ==
    /\ g \notin gates
    /\ gates' = gates \union {g}
    /\ UNCHANGED <<packFile, routingFile, pack, compiled, effective, answer>>

\* The block of a policy in the routing file; the parser gives a policy without one its defaults.
RoutingOf(id) == IF id \in DOMAIN routingFile THEN routingFile[id] ELSE "default"

\* Mutant: the cache is looked up by the reference alone.
EffectiveKeyByRef(ref, id, routing) == [ref |-> ref]

\* effective_policy_digest: of the compiled policy and the routing, under the reference.
EffectiveKey(ref, id, routing) == [ref |-> ref, policy |-> PolicyOf(id), routing |-> routing]

ResolveEffective(ref) ==
    LET id == Ref[ref]
        key == EffectiveKey(ref, id, RoutingOf(id))
        hits == {e \in effective : e.key = key}
        entry == IF hits # {} THEN CHOOSE e \in hits : TRUE
                 ELSE [key |-> key, ref |-> ref, routing |-> RoutingOf(id)]
    IN  /\ id \in Policy /\ Known(id) /\ Cached(id)
        /\ effective' = effective \union {entry}
        /\ answer' = [kind |-> "routing", ref |-> ref, routing |-> entry.routing]
        /\ UNCHANGED <<packFile, routingFile, pack, gates>>

Evaluate(id, ev, ms) ==
    /\ Known(id) /\ Cached(id)
    /\ answer' = [kind |-> "judgement", id |-> id, ev |-> ev, ms |-> ms,
                  run |-> DryRun(PolicyOf(id), ev, ms)]
    /\ UNCHANGED <<packFile, routingFile, pack, gates, effective>>

Route(role, usage, override) ==
    LET id == ResolvePolicyId(pack, role, usage, override)
    IN  /\ id \in DOMAIN pack.modes
        /\ answer' = [kind |-> "route", id |-> id]
        /\ UNCHANGED <<packFile, routingFile, pack, gates, compiled, effective>>

Next ==
    \/ EditPack \/ EditRouting \/ NewEngine
    \/ \E g \in CustomGate : RegisterGate(g)
    \/ \E ref \in DOMAIN Ref : ResolveEffective(ref)
    \/ \E id \in Policy, ev \in Bundle, ms \in Evaluations : Evaluate(id, ev, ms)
    \/ \E role \in {Absent, "structure_analyst"}, usage \in {Absent, "exploration"},
          override \in {Absent} \union Policy : Route(role, usage, override)

Spec == Init /\ [][Next]_vars

-----------------------------------------------------------------------------
(***************************************************************************)
(* Properties.                                                             *)
(***************************************************************************)
TypeOK ==
    /\ packFile \in Packs /\ pack \in Packs /\ routingFile \in Routings
    /\ gates \subseteq DefaultGates \union CustomGate /\ DefaultGates \subseteq gates
    /\ \A id \in Policy : compiled[id] # Absent => compiled[id].id = id

\* What the engine resolves is what its own pack and the routing file of the moment say, however
\* often either was resolved or edited before.
ResolvedIsCurrent ==
    [][(answer' # answer /\ answer' # Absent /\ answer'.kind = "routing")
        => answer'.routing = RoutingOf(Ref[answer'.ref])]_vars

\* A bundle and metrics that pass the stricter policy of the shipped pack pass the laxer ones too,
\* whatever the metric's own thresholds are; and a judgement that fails names a metric that failed,
\* unless two of the metrics it judged share their identifier.
StricterPassesLess ==
    LET passes(id, ev, ms) == EvaluateMetrics(Compile(ShippedPack, id), ev, ms).passed
    IN  (answer # Absent /\ answer.kind = "judgement") =>
        /\ (pack = ShippedPack /\ answer.run.would) =>
            /\ answer.id = "reporting_strict" => passes("decision_balanced", answer.ev, answer.ms)
            /\ answer.id = "decision_balanced" => passes("exploration_friendly", answer.ev, answer.ms)
        /\ answer.run.would => answer.run.failed = {} /\ answer.run.actions = {}
        /\ (~answer.run.would /\ \A i, j \in DOMAIN answer.ms :
                i # j => answer.ms[i].id # answer.ms[j].id)
            => answer.run.failed # {} /\ answer.run.total > 0
=============================================================================
