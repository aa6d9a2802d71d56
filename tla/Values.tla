------------------------------- MODULE Values -------------------------------
(***************************************************************************)
(* The metric values of cmis_v2 (engines/value.py) and the gates by which  *)
(* engines/policy.py judges values and evidence.  The memory of values is  *)
(* keyed by the metric alone, the files by project and metric.             *)
(***************************************************************************)
EXTENDS Collections

CONSTANTS Method,     \* the ways to estimate; "unknown" and "prior" among them
          Evidence,   \* the identifiers of evidence a caller may give
          Sure,       \* the least confidence, in tenths, that makes a value "ok"
          Mode        \* [mode |-> its gates and the thresholds of its profiles]

\* A mode of policies.yaml that forbids priors or requires an official source declares the gate.
ModeAssumption ==
    \A mode \in DOMAIN Mode :
        /\ {Mode[mode].minSources, Mode[mode].maxAge, Mode[mode].maxPrior} \subseteq Nat
        /\ Mode[mode].official => "require_official" \in Mode[mode].gates
        /\ (~Mode[mode].allowPrior \/ Mode[mode].maxPrior = 0) => "prior_ratio" \in Mode[mode].gates
ValueAssumption == IsFiniteSet(Metric) /\ "unknown" \in Method /\ Sure \in 1 .. 10

VARIABLES values, valueFile,
          verdict     \* the last answer of check_all_gates, with what it was asked

ledger == <<values, valueFile, verdict>>

EmptyValue(e) ==
    [set |-> FALSE, confidence |-> 0, method |-> "unknown", status |-> "insufficient",
     evidence |-> e, given |-> Absent]

ValuesInit ==
    /\ values = [m \in Metric |-> Absent]
    /\ valueFile = [p \in Project |-> [m \in Metric |-> Absent]]
    /\ verdict = Absent

KeepValue(p, m, v) ==
    /\ values' = [values EXCEPT ![m] = v]
    /\ valueFile' = [valueFile EXCEPT ![p][m] = v]
    /\ UNCHANGED verdict

\* evaluate_metrics of one metric: an empty record takes the place of any other.
EvaluateMetric(p, m, e) == KeepValue(p, m, EmptyValue(e))

\* Mutant: the quality is that of the evidence the record is linked to.
QualityOfRecord(confidence, summary, e, linked) ==
    IF linked = Absent THEN "force_unverified"
    ELSE IF ~summary THEN "unverified"
    ELSE IF confidence >= Sure THEN "ok" ELSE "low_confidence"

\* The quality of a value that is set with or without a summary and evidence; linked is the
\* evidence that the record keeps from then on.
Quality(confidence, summary, e, linked) ==
    IF e = Absent THEN "force_unverified"
    ELSE IF ~summary THEN "unverified"
    ELSE IF confidence >= Sure THEN "ok" ELSE "low_confidence"

\* set_metric_value: a record in the memory is changed in place, else a new one is made, without a
\* look at the file.  Without evidence the call must be forced, and the record keeps the evidence
\* it was linked to before.  "given" is the evidence of the call itself.
SetMetricValue(p, m, confidence, method, summary, e, force) ==
    /\ e # Absent \/ force
    /\ LET old == IF values[m] = Absent THEN EmptyValue(Absent) ELSE values[m]
           linked == IF e = Absent THEN old.evidence ELSE e
       IN  KeepValue(p, m, [set |-> TRUE, confidence |-> confidence, method |-> method,
                            status |-> Quality(confidence, summary, e, linked),
                            evidence |-> linked, given |-> e])

GetMetricValue(p, m) ==
    /\ values[m] = Absent /\ valueFile[p][m] # Absent
    /\ values' = [values EXCEPT ![m] = valueFile[p][m]]
    /\ UNCHANGED <<valueFile, verdict>>

ValuesEnd == values' = [m \in Metric |-> Absent] /\ verdict' = Absent /\ UNCHANGED valueFile

-----------------------------------------------------------------------------
(***************************************************************************)
(* Gates.  records is the list of an evidence collection, vs a list of     *)
(* value records by metric, or Absent where the caller gives none.         *)
(***************************************************************************)
GatesOf(group) ==
    CASE group = "evidence"    -> {"min_sources", "require_official", "max_age"}
      [] group = "value"       -> {"spread_ratio", "literal_ratio"}
      [] group = "prior"       -> {"prior_ratio"}
      [] group = "convergence" -> {"convergence"}

Declared(mode) == Mode[mode].gates

\* Mutant: an official source is asked of no mode.
EvidenceGatePassesLax(records, mode, now) ==
    /\ "min_sources" \in Declared(mode) => Len(records) >= Mode[mode].minSources
    /\ "max_age" \in Declared(mode) =>
        \A i \in DOMAIN records : now - records[i].at <= Mode[mode].maxAge

\* check_evidence_gate.
EvidenceGatePasses(records, mode, now) ==
    /\ "min_sources" \in Declared(mode) => Len(records) >= Mode[mode].minSources
    /\ "require_official" \in Declared(mode) /\ Mode[mode].official =>
        \E i \in DOMAIN records : records[i].tier = "official"
    /\ "max_age" \in Declared(mode) =>
        \A i \in DOMAIN records : now - records[i].at <= Mode[mode].maxAge

\* check_value_gate, of records as evaluate_metrics and set_metric_value make them: they have no
\* "value" to compute a spread of, and their literal ratio stays 0.0.
ValueGatePasses(vs, mode) ==
    "literal_ratio" \in Declared(mode) => DOMAIN vs = {} \/ Mode[mode].minLiteral = 0

Priors(vs) == {m \in DOMAIN vs : vs[m].method = "prior"}

PriorGatePasses(vs, mode) ==
    IF Mode[mode].allowPrior
    THEN 10 * Cardinality(Priors(vs)) <= Mode[mode].maxPrior * Cardinality(DOMAIN vs)
    ELSE Priors(vs) = {}

ConvergenceGatePasses(vs, mode) ==
    IF DOMAIN vs = {} THEN Mode[mode].methods <= 1
    ELSE Cardinality({vs[m].method : m \in DOMAIN vs} \ {"unknown"}) >= Mode[mode].methods

\* The groups of gates that count: a group that is declared counts without its input too, one that
\* is not declared counts if its input is given.
Groups(records, vs, mode) ==
    {g \in {"evidence", "value", "prior", "convergence"} :
        \/ Declared(mode) \intersect GatesOf(g) # {}
        \/ g = "evidence" /\ records # Absent
        \/ g = "value" /\ vs # Absent}

\* prior and convergence gates take no values for an empty list.
GroupPasses(g, records, vs, mode, now) ==
    LET list == IF vs = Absent THEN <<>> ELSE vs
    IN  CASE g = "evidence"    -> records # Absent /\ EvidenceGatePasses(records, mode, now)
          [] g = "value"       -> vs # Absent /\ ValueGatePasses(vs, mode)
          [] g = "prior"       -> PriorGatePasses(list, mode)
          [] g = "convergence" -> ConvergenceGatePasses(list, mode)

\* check_all_gates; nothing is saved.
CheckAllGates(records, vs, mode, now) ==
    LET groups == Groups(records, vs, mode)
    IN  /\ verdict' = [mode |-> mode, at |-> now, records |-> records,
                       methods |-> IF vs = Absent THEN Absent ELSE [m \in DOMAIN vs |-> vs[m].method],
                       passed |-> /\ groups # {}
                                  /\ \A g \in groups : GroupPasses(g, records, vs, mode, now)]
        /\ UNCHANGED <<values, valueFile>>

\* What callers can hold: the records of some metrics of the memory, or none.
Held == {Absent} \union
        {[m \in S |-> values[m]] : S \in SUBSET {m \in Metric : values[m] # Absent}}

-----------------------------------------------------------------------------
(***************************************************************************)
(* Properties.                                                             *)
(***************************************************************************)
KeptValues == ({values[m] : m \in Metric} \union {valueFile[p][m] : p \in Project, m \in Metric})
              \ {Absent}

ValuesTypeOK ==
    \A v \in KeptValues :
        /\ v.set \in BOOLEAN /\ v.confidence \in 0 .. 10 /\ v.method \in Method
        /\ v.evidence \in Evidence \union {Absent}
        /\ v.status \in {"insufficient", "force_unverified", "unverified", "ok", "low_confidence"}

\* A value that is "ok" was given together with the evidence it is linked to: a value set by force
\* does not take over the quality or the evidence of the one before it.
OkIsBacked ==
    \A v \in KeptValues : v.status = "ok" =>
        v.set /\ v.given # Absent /\ v.evidence = v.given /\ v.confidence >= Sure

\* All gates passed means what the mode asks: enough evidence that was given and is fresh, an
\* official source where one is required, priors within their share, as many methods as asked for;
\* and, since the records of the value engine have no literal ratio, no value at all where the mode
\* asks for one.
PassedMeansAll ==
    (verdict # Absent /\ verdict.passed) =>
        LET mode == Mode[verdict.mode]
            rs == verdict.records
            used == IF verdict.methods = Absent THEN <<>> ELSE verdict.methods
        IN  /\ "min_sources" \in mode.gates => rs # Absent /\ Len(rs) >= mode.minSources
            /\ mode.official => rs # Absent /\ \E i \in DOMAIN rs : rs[i].tier = "official"
            /\ ("max_age" \in mode.gates /\ rs # Absent) =>
                ~\E i \in DOMAIN rs : verdict.at > rs[i].at + mode.maxAge
            /\ (~mode.allowPrior \/ mode.maxPrior = 0) => ~\E m \in DOMAIN used : used[m] = "prior"
            /\ ("literal_ratio" \in mode.gates /\ mode.minLiteral > 0) => used = <<>>
=============================================================================

