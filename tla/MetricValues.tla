---------------------------- MODULE MetricValues ----------------------------
(***************************************************************************)
(* The value engine of cmis_core (value_engine.py) and the task of the     *)
(* kernel's executor that computes a metric with it                        *)
(* (orchestration/executor.py, COMPUTE_METRIC).  A metric is valued by     *)
(* its evidence, else by the reality graph, else by a prior if the policy  *)
(* allows one.  The task collects the evidence that the gates judge, cuts  *)
(* a snapshot, lets the value engine collect again and evaluate, and       *)
(* judges; meanwhile other processes fill the cache of evidence, it        *)
(* expires, the graph grows and the policy pack is edited.                 *)
(*                                                                         *)
(* Ratios are integers in hundredths, a value is a fraction.               *)
(***************************************************************************)
EXTENDS Integers, Sequences, FiniteSets, SequencesExt, FiniteSetsExt, Functions, TLC

CONSTANTS Metric,
          Graph,      \* reality graphs: [segments, paid]
          Found,      \* bundles: sequences of evidence [source, tier, value, confidence]
          Prior,      \* what the belief engine answers: [result, kind, spread]
          PackOnDisk, \* the policy packs that may lie on the disk
          Candidates, \* sequences of values to be fused: [method, value, literal]
          Absent

VARIABLES world,      \* the reality graph
          cached,     \* the shared cache of evidence
          file, held, \* the policy pack on the disk and that of the executor's policy engine
          task,       \* the metric task that runs or ended last
          fused       \* the last fusion

valueVars == <<world, cached, file, held, task, fused>>

P == INSTANCE Policies WITH
    Packs <- {}, Routings <- {}, Ref <- <<>>, Bundle <- {}, Evaluations <- {}, CustomGate <- {},
    packFile <- Absent, routingFile <- Absent, pack <- Absent, gates <- {}, compiled <- Absent,
    effective <- {}, answer <- Absent

-----------------------------------------------------------------------------
(***************************************************************************)
(* Evidence: its best record and its quality.                              *)
(***************************************************************************)
MaxOf(S) == CHOOSE x \in S : \A y \in S : x >= y
MinOf(S) == CHOOSE x \in S : \A y \in S : x <= y

\* get_best_record: the first of those with the highest confidence.
BestRecord(b) ==
    LET best == {i \in DOMAIN b : \A j \in DOMAIN b : b[j].confidence <= b[i].confidence}
    IN  b[MinOf(best)]

Literal(b) ==
    (100 * Len(SelectSeq(b, LAMBDA r : r.tier \in {"official", "curated_internal"}))) \div Len(b)

Numbers(b) == SelectSeq(b, LAMBDA r : r.value # Absent)

\* The spread of the numbers around their average, which has to be positive.
Spread(b) ==
    LET vs == [i \in DOMAIN Numbers(b) |-> Numbers(b)[i].value]
        sum == FoldLeft(LAMBDA s, v : s + v, 0, vs)
    IN  IF Len(vs) < 2 \/ sum <= 0 THEN 0
        ELSE (100 * Len(vs) * (MaxOf(ToSet(vs)) - MinOf(ToSet(vs)))) \div sum

\* get_evidence_bundle_summary, for evidence that was retrieved today.
Summary(b) ==
    [sources |-> Cardinality({b[i].source : i \in DOMAIN b}),
     tiers |-> {b[i].tier : i \in DOMAIN b}, age |-> 0]

-----------------------------------------------------------------------------
(***************************************************************************)
(* The stages of a valuation.                                              *)
(***************************************************************************)
Valued(m, value, method, status) ==
    [metric |-> m, value |-> value, method |-> method, status |-> status,
     literal |-> IF value = Absent THEN 0 ELSE 100, spread |-> 0, confidence |-> 0,
     prior |-> 0, kind |-> Absent, decision |-> Absent]

EvidenceValue(m, b) ==
    LET best == BestRecord(b)
    IN  [Valued(m, IF best.value = Absent THEN Absent ELSE <<best.value, 1>>, "evidence_direct", "ok")
            EXCEPT !.literal = Literal(b), !.spread = Spread(b), !.confidence = best.confidence]

OrNone(x) == IF x = Absent THEN 0 ELSE x

NCustomers(g) ==
    MapThenSumSet(LAMBDA s : OrNone(g.segments[s].people) + OrNone(g.segments[s].companies),
                  DOMAIN g.segments)

\* What customer segments paid, along the edges that name a flow.
TotalRevenue(g) ==
    MapThenSumSet(LAMBDA f : OrNone(f.amount), {f \in g.paid : f.from \in DOMAIN g.segments})

GraphValue(m, g) ==
    CASE m = "N_customers" -> Valued(m, <<NCustomers(g), 1>>, "r_graph_aggregation", "ok")
      [] m = "Revenue"     -> Valued(m, <<TotalRevenue(g), 1>>, "r_graph_aggregation", "ok")
      [] m = "Avg_price"   -> Valued(m, IF NCustomers(g) <= 0 THEN Absent
                                        ELSE <<TotalRevenue(g), NCustomers(g)>>, "derived_calculation", "ok")
      [] OTHER             -> Valued(m, Absent, "not_implemented", "not_implemented")

\* _resolve_metric_prior_estimation_with_decision: why a prior is adopted or not.
Decision(policy, p) ==
    LET reason == IF ~policy.prior.allow THEN "policy_disallows_prior"
                  ELSE CASE p.result = "error" -> "belief_engine_error"
                         [] p.result = "empty" -> "empty_distribution"
                         [] OTHER              -> "evidence_and_fallback_failed"
    IN  [policy |-> policy.id, allow |-> policy.prior.allow, reason |-> reason,
         adopted |-> reason = "evidence_and_fallback_failed"]

PriorValue(m, p, d) ==
    [Valued(m, Absent, "belief_engine", "prior_estimation")
        EXCEPT !.spread = p.spread, !.confidence = 50, !.prior = 100, !.kind = p.kind, !.decision = d]

\* Mutant: a prior is preferred to the graph.
ValueByPrior(m, b, g, policy, p) ==
    LET d == Decision(policy, p)
    IN  IF b # <<>> THEN EvidenceValue(m, b)
        ELSE IF d.adopted THEN PriorValue(m, p, d) ELSE [GraphValue(m, g) EXCEPT !.decision = d]

\* evaluate_metrics: evidence first, prior last.
ValueOf(m, b, g, policy, p) ==
    LET graphValue == GraphValue(m, g)
        d == Decision(policy, p)
    IN  IF b # <<>> THEN EvidenceValue(m, b)
        ELSE IF graphValue.value # Absent THEN graphValue
        ELSE IF d.adopted THEN PriorValue(m, p, d)
        ELSE [graphValue EXCEPT !.decision = d]

\* Mutant: the share of the prior is not passed on to the gates.
EvalWithoutPrior(r) ==
    [id |-> r.metric, literal |-> r.literal, spread |-> r.spread, confidence |-> r.confidence,
     methods |-> {r.method}, convergence |-> Absent, prior |-> 0, priors |-> {}]

\* _create_metric_eval: what the gates are told of a value.
Eval(r) ==
    [id |-> r.metric, literal |-> r.literal, spread |-> r.spread, confidence |-> r.confidence,
     methods |-> {r.method}, convergence |-> Absent, prior |-> r.prior,
     priors |-> IF r.prior > 0 THEN {r.kind} ELSE {}]

-----------------------------------------------------------------------------
(***************************************************************************)
(* The task.  The value engine makes a policy engine of its own for every  *)
(* call, and so reads the pack that is on the disk then.                   *)
(***************************************************************************)
PolicyId == DOMAIN P!Modes
NoTask == [at |-> "idle"]

\* Bundles list evidence with its confidence, policies list gates that are registered, and
\* their ratios are numbers.
ValueAssumption ==
    /\ P!ShippedPack \in PackOnDisk
    /\ \A b \in Found : b \in Seq(ToSet(b)) /\ \A i \in DOMAIN b : b[i].confidence \in 0 .. 100
    /\ \A pk \in PackOnDisk, id \in PolicyId :
        LET policy == P!Compile(pk, id)
        IN  /\ policy.gates \in Seq(P!DefaultGates)
            /\ policy.prior.ratio \in Nat /\ policy.evidence.min_sources \in Nat
            /\ \A p \in Prior : Decision(policy, p) # Absent

ValueInit ==
    /\ world \in Graph /\ cached = [m \in Metric |-> Absent]
    /\ file = P!ShippedPack /\ held = file /\ task = NoTask /\ fused = Absent

\* Mutant: the sources are asked anew every time.
FetchedAnew(m, b) == b \in Found

\* What fetch_for_metrics answers of a metric: what is cached, else what the sources find, which
\* is then cached.
Fetched(m, b) == IF cached[m] # Absent THEN b = cached[m] ELSE b \in Found
Keep(m, b) == cached' = [cached EXCEPT ![m] = b]

\* The task gets further, with more that it knows.
Further(stage, more) ==
    task' = [x \in DOMAIN task \cup DOMAIN more |->
                IF x = "at" THEN stage ELSE IF x \in DOMAIN more THEN more[x] ELSE task[x]]

Collect(m, id) ==
    /\ task.at \in {"idle", "judged"}
    /\ \E b \in Found :
        /\ Fetched(m, b) /\ Keep(m, b)
        /\ task' = [at |-> "collected", metric |-> m, policy |-> id, first |-> b]
    /\ UNCHANGED <<world, file, held, fused>>

TakeSnapshot ==
    /\ task.at = "collected"
    /\ Further("ready", [graph |-> world])
    /\ UNCHANGED <<world, cached, file, held, fused>>

\* The engine collects again.  If that fails it goes on without evidence.
Evaluated(b, lost) ==
    \E p \in Prior :
        Further("valued", [second |-> b, lost |-> lost, disk |-> file,
                           record |-> ValueOf(task.metric, b, task.graph, P!Compile(file, task.policy), p)])

EvaluateMetric ==
    /\ task.at = "ready"
    /\ \/ \E b \in Found : Fetched(task.metric, b) /\ Keep(task.metric, b) /\ Evaluated(b, FALSE)
       \/ Evaluated(<<>>, TRUE) /\ UNCHANGED cached
    /\ UNCHANGED <<world, file, held, fused>>

\* The gates judge the evidence of the first collection and the value of the second.
Judge ==
    /\ task.at = "valued"
    /\ Further("judged", [passed |-> P!EvaluateMetric(P!Compile(held, task.policy),
                                                      Summary(task.first), Eval(task.record)) = <<>>])
    /\ UNCHANGED <<world, cached, file, held, fused>>

\* The task raises: evidence or a snapshot cannot be had.
Abandon ==
    /\ task.at \in {"collected", "ready"}
    /\ task' = NoTask
    /\ UNCHANGED <<world, cached, file, held, fused>>

\* What others do meanwhile.
Expire(m) ==
    /\ cached[m] # Absent /\ cached' = [cached EXCEPT ![m] = Absent]
    /\ UNCHANGED <<world, file, held, task, fused>>

OtherSaves(m, b) == Keep(m, b) /\ UNCHANGED <<world, file, held, task, fused>>

GrowGraph(g) == world' = g /\ UNCHANGED <<cached, file, held, task, fused>>

EditPack(p) == file' = p /\ UNCHANGED <<world, cached, held, task, fused>>

NewProcess ==
    /\ held' = file /\ task' = NoTask
    /\ UNCHANGED <<world, cached, file, fused>>

-----------------------------------------------------------------------------
(***************************************************************************)
(* fuse_4method.                                                           *)
(***************************************************************************)
Weights == "top_down" :> 20 @@ "bottom_up" :> 40 @@ "fermi" :> 30 @@ "proxy" :> 10
WeightOf(c) == IF c.method \in DOMAIN Weights THEN Weights[c.method] ELSE 25

Abs(x) == IF x < 0 THEN -x ELSE x

\* Mutant: a value is compared with the threshold from one side only.
FuseOneSided(cs) ==
    LET known == SelectSeq(cs, LAMBDA c : c.value # Absent)
        sum == FoldLeft(LAMBDA s, c : s + WeightOf(c) * c.value, 0, known)
        weight == FoldLeft(LAMBDA s, c : s + WeightOf(c), 0, known)
        values == {known[i].value : i \in DOMAIN known}
    IN  IF known = <<>> THEN Absent
        ELSE [sum |-> sum, weight |-> weight, low |-> MinOf(values), high |-> MaxOf(values),
              literal |-> FoldLeft(LAMBDA s, c : s + c.literal, 0, known) \div Len(known),
              converged |-> \A v \in values : 100 * (v * weight - sum) <= 30 * sum,
              methods |-> {known[i].method : i \in {j \in DOMAIN known : known[j].value # 0}}]

\* The weighted average is sum/weight; it converges if no value is further than 30 percent off.
Fuse(cs) ==
    LET known == SelectSeq(cs, LAMBDA c : c.value # Absent)
        sum == FoldLeft(LAMBDA s, c : s + WeightOf(c) * c.value, 0, known)
        weight == FoldLeft(LAMBDA s, c : s + WeightOf(c), 0, known)
        values == {known[i].value : i \in DOMAIN known}
    IN  IF known = <<>> THEN Absent
        ELSE [sum |-> sum, weight |-> weight, low |-> MinOf(values), high |-> MaxOf(values),
              literal |-> FoldLeft(LAMBDA s, c : s + c.literal, 0, known) \div Len(known),
              converged |-> \/ sum <= 0   \* a deviation is divided by the average itself
                            \/ \A v \in values : 100 * Abs(v * weight - sum) <= 30 * sum,
              methods |-> {known[i].method : i \in {j \in DOMAIN known : known[j].value # 0}}]

FuseCandidates(cs) ==
    /\ fused' = [of |-> cs, result |-> Fuse(cs)]
    /\ UNCHANGED <<world, cached, file, held, task>>

ValueNext ==
    \/ \E m \in Metric, id \in PolicyId : Collect(m, id)
    \/ TakeSnapshot \/ EvaluateMetric \/ Judge \/ Abandon
    \/ \E m \in Metric : Expire(m) \/ \E b \in Found : OtherSaves(m, b)
    \/ \E g \in Graph : GrowGraph(g)
    \/ \E p \in PackOnDisk : EditPack(p)
    \/ NewProcess
    \/ \E cs \in Candidates : FuseCandidates(cs)

ValueSpec == ValueInit /\ [][ValueNext]_valueVars

-----------------------------------------------------------------------------
(***************************************************************************)
(* Properties.                                                             *)
(***************************************************************************)
TaskStage == {"idle", "collected", "ready", "valued", "judged"}

ValueTypeOK ==
    /\ world \in Graph /\ \A m \in Metric : cached[m] = Absent \/ cached[m] \in Found
    /\ {file, held} \subseteq PackOnDisk
    /\ task.at \in TaskStage /\ (task.at # "idle" => task.metric \in Metric /\ task.policy \in PolicyId)

HasValue == task.at \in {"valued", "judged"}

\* A prior stands for a value only where neither evidence nor the snapshot of the task had one and
\* the policy on the disk allowed it when it was asked; and a metric is left without a value, its
\* evidence apart, only together with the reason why no prior was taken (value_engine.py
\* evaluate_metrics).
PriorIsLast ==
    HasValue =>
        LET r == task.record
        IN  /\ r.prior > 0 =>
                /\ task.second = <<>> /\ GraphValue(task.metric, task.graph).value = Absent
                /\ P!Compile(task.disk, task.policy).prior.allow
            /\ (r.value = Absent /\ r.prior = 0 /\ task.second = <<>>) =>
                /\ r.decision # Absent
                /\ ~r.decision.adopted /\ r.decision.reason # "evidence_and_fallback_failed"

\* What passes the gates is no prior, even if the pack was edited after the executor read it and
\* allows one now; and under a policy that asks for sources it is a value of the very evidence that
\* was judged, unless that evidence was lost or replaced between the two collections of the task
\* (executor.py, value_engine.py, policy_engine.py).
WhatPassesIsBacked ==
    (task.at = "judged" /\ task.passed) =>
        LET policy == P!Compile(held, task.policy)
        IN  /\ ("prior_ratio" \in ToSet(policy.gates) /\ policy.prior.ratio < 100) =>
                task.record.prior = 0
            /\ (/\ "min_sources" \in ToSet(policy.gates) /\ policy.evidence.min_sources > 0
                /\ task.second = task.first) =>
                /\ task.record.method = "evidence_direct"
                /\ \E i \in DOMAIN task.first :
                    task.record.value = (IF task.first[i].value = Absent THEN Absent
                                         ELSE <<task.first[i].value, 1>>)

\* The two collections of a task differ only if the cache lost the first, by expiry or to another
\* process, or could not be read: what is cached stays what it was.
CollectedIsCached ==
    [][(task'.at = "valued" /\ task.at = "ready" /\ ~task'.lost /\ cached[task.metric] # Absent)
        => task'.second = cached[task.metric]]_valueVars

\* A fusion lies between the least and the greatest of its values, does not depend on their order,
\* and converges only if they are within thirty percent of it, at least where it is positive
\* (value_engine.py fuse_4method).
FusionIsBetween ==
    (fused # Absent /\ fused.result # Absent) =>
        LET r == fused.result
            values == {fused.of[i].value : i \in DOMAIN fused.of} \ {Absent}
        IN  /\ r.low * r.weight <= r.sum /\ r.sum <= r.high * r.weight
            /\ r = Fuse(Reverse(fused.of))
            /\ (r.converged /\ r.sum > 0) =>
                \A v \in values : 7 * r.sum <= 10 * v * r.weight /\ 10 * v * r.weight <= 13 * r.sum
=============================================================================
