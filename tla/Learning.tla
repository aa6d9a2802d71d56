------------------------------ MODULE Learning ------------------------------
(***************************************************************************)
(* The learning of cmis_v2 on top of its estimates: outcomes are recorded  *)
(* and rated against what was predicted (engines/learning.py), summed up   *)
(* as reference classes and calibrated reliabilities (reference_class.py,  *)
(* calibration.py) and fed back as estimates.                              *)
(*                                                                         *)
(* Outcomes, like estimates, are kept in the memory of the process for all *)
(* projects together and written to the directory of one.                  *)
(***************************************************************************)
EXTENDS Estimation

CONSTANTS Actual,          \* the values observed
          Tier,            \* the tiers of sources
          DefaultReliability,
          OutcomeWeight,   \* the reliability of an average of outcomes, 0.7
          EnoughRated,     \* outcomes of a tier that calibrate it, 5
          EnoughCases,     \* outcomes that make a reference class, 3
          MaxOutcomes      \* bound on the outcomes recorded

\* What the theorems assume of them.
LearningAssumption ==
    /\ Actual \subseteq Int /\ OutcomeWeight \in 0 .. Unit
    /\ \A t \in Tier : DefaultReliability[t] \in 0 .. Unit /\ 10 * DefaultReliability[t] <= 9 * Unit
    /\ {EnoughRated, EnoughCases} \subseteq Nat \ {0} /\ MaxOutcomes \in Nat

VARIABLES outcomes,     \* _OUTCOME_STORE
          outcomeFile,  \* engine_data/learning of each project
          value,        \* the point estimates of the value engine
          recorded      \* the number of outcomes recorded, which numbers them

learning == <<outcomes, outcomeFile, value, recorded>>
allVars == <<vars, learning>>

Rating == {"accurate", "acceptable", "poor", "no_prediction"}
Outcome == [id: 1 .. MaxOutcomes, of: Project, metric: Variable, actual: Actual, tier: Tier,
            rating: Rating]

Size(x) == IF x < 0 THEN -x ELSE x

-----------------------------------------------------------------------------
(***************************************************************************)
(* Ratings and what is computed from the outcomes.                         *)
(***************************************************************************)
\* The error in per cent of a prediction, both doubled: under 10, under 30, or more.
Rated(actual2, predicted2) ==
    LET error == Size(actual2 - predicted2)
    IN  CASE predicted2 = 0 -> IF actual2 = 0 THEN "accurate" ELSE "poor"
          [] predicted2 # 0 /\ 10 * error < Size(predicted2) -> "accurate"
          [] predicted2 # 0 /\ 10 * error >= Size(predicted2) /\ 10 * error < 3 * Size(predicted2)
                -> "acceptable"
          [] OTHER -> "poor"

\* The range that the old belief interface shows of a record: the fused one, else the latest.
Shown(rec) == IF rec.fused # Absent THEN rec.fused.iv ELSE Last(rec.estimates).iv

\* get_prior: what the memory then holds of v.
Looked(p, v) == IF memory[v] # Absent THEN memory[v] ELSE file[p][v]

\* The value engine is asked first, then the estimates.
Predicted2(p, v) ==
    IF value[v] # Absent THEN 2 * value[v]
    ELSE IF Looked(p, v) # Absent THEN Midpoint2(Shown(Looked(p, v))) ELSE Absent

\* Every reader but apply_learnings merges the files of the project it is asked about.
Loaded(p) == outcomes \union outcomeFile[p]

\* apply_learnings reads the files only if the memory holds no outcome at all.
LoadedIfEmpty(p) == IF outcomes = {} THEN outcomeFile[p] ELSE outcomes

OfMetric(S, v) == {o \in S : o.metric = v}
OfTier(S, t) == {o \in S : o.tier = t /\ o.rating # "no_prediction"}

Average(S) == LET sum[T \in SUBSET S] == IF T = {} THEN 0
                                         ELSE LET o == CHOOSE o \in T : TRUE
                                              IN  o.actual + sum[T \ {o}]
              IN  Div(sum[S], Cardinality(S))

\* calibrated_reliability, in units of 1 / Unit.
Calibrated(S, t) ==
    LET rated == OfTier(S, t)
        count(k) == Cardinality({o \in rated : o.rating = k})
    IN  IF Cardinality(rated) >= EnoughRated
        THEN ((9 * count("accurate") + 5 * count("acceptable")) * Unit) \div (10 * Cardinality(rated))
        ELSE DefaultReliability[t]

\* The outcome at a position of the list sorted by value, which starts at 0.
Nth(S, k) ==
    LET before(a, b) == a.actual < b.actual \/ (a.actual = b.actual /\ a.id < b.id)
    IN  CHOOSE o \in S : Cardinality({u \in S : before(u, o)}) = k

\* The P10 and P90 of a reference class.
Suggested(S) ==
    LET n == Cardinality(S)
    IN  IF n < EnoughCases THEN Absent
        ELSE Iv(Nth(S, n \div 10).actual, Nth(S, (9 * n) \div 10).actual)

-----------------------------------------------------------------------------
LearningInit ==
    /\ Init
    /\ outcomes = {}
    /\ outcomeFile = [p \in Project |-> {}]
    /\ value = [v \in Variable |-> Absent]
    /\ recorded = 0

\* set_metric_value of the value engine, of which only the point matters here.
SetValue(v, x) ==
    /\ value[v] # x
    /\ value' = [value EXCEPT ![v] = x]
    /\ UNCHANGED <<vars, outcomes, outcomeFile, recorded>>

\* Mutant: the outcomes in memory are written with it.
SavedAll(p, o) == [outcomeFile EXCEPT ![p] = @ \union outcomes \union {o}]

\* Only the new outcome is written.
Saved(p, o) == [outcomeFile EXCEPT ![p] = @ \union {o}]

\* record_outcome.  Asking the estimates for a prediction brings them into the memory.
RecordOutcome(p, v, x, t) ==
    /\ recorded < MaxOutcomes
    /\ recorded' = recorded + 1
    /\ LET o == [id |-> recorded + 1, of |-> p, metric |-> v, actual |-> x, tier |-> t,
                 rating |-> IF Predicted2(p, v) = Absent THEN "no_prediction"
                            ELSE Rated(2 * x, Predicted2(p, v))]
       IN  /\ outcomes' = outcomes \union {o}
           /\ outcomeFile' = Saved(p, o)
    /\ memory' = IF value[v] = Absent THEN [memory EXCEPT ![v] = Looked(p, v)] ELSE memory
    /\ UNCHANGED <<file, made, value>>

\* get_learning_summary, list_outcomes_by_metric, list_outcomes_by_source_tier, get_calibration.
ReadOutcomes(p) ==
    /\ outcomes' = Loaded(p)
    /\ outcomes' # outcomes
    /\ UNCHANGED <<vars, outcomeFile, value, recorded>>

\* apply_learnings: nothing without outcomes of v or without an estimate of v.
ApplyLearnings(p, v) ==
    LET S == OfMetric(LoadedIfEmpty(p), v)
    IN  /\ S # {}
        /\ Looked(p, v) # Absent
        /\ outcomes' = LoadedIfEmpty(p)
        /\ made < MaxEstimates
        /\ made' = made + 1
        /\ LET es == Append(Looked(p, v).estimates,
                            [id |-> made + 1, r |-> OutcomeWeight,
                             iv |-> Clamped(v, BeliefRange(Average(S), OutcomeWeight)),
                             given |-> BeliefRange(Average(S), OutcomeWeight)])
           IN  memory' = [memory EXCEPT ![v] =
                    [estimates |-> es, version |-> Looked(p, v).version + 1,
                     fused |-> IF Len(es) >= 2 THEN BatchFuse(es, v) ELSE Looked(p, v).fused]]
        /\ file' = [file EXCEPT ![p][v] = memory'[v]]
        /\ UNCHANGED <<outcomeFile, value, recorded>>

\* suggest_estimate and get_calibrated_reliability, and the estimate that a caller makes of them.
EstimateFromReference(p, v, t) ==
    LET S == Loaded(p)
    IN  /\ Suggested(OfMetric(S, v)) # Absent
        /\ outcomes' = S
        /\ CreateEstimate(p, v, Suggested(OfMetric(S, v)), Calibrated(OfMetric(S, v), t))
        /\ UNCHANGED <<outcomeFile, value, recorded>>

NewProcess ==
    /\ Restart
    /\ outcomes' = {}
    /\ value' = [v \in Variable |-> Absent]
    /\ UNCHANGED <<outcomeFile, recorded>>

LearningNext ==
    \/ \E p \in Project, v \in Variable :
        \/ \E x \in Actual, t \in Tier : RecordOutcome(p, v, x, t)
        \/ ApplyLearnings(p, v)
        \/ \E t \in Tier : EstimateFromReference(p, v, t)
        \/ \E iv \in Given, r \in Reliability : CreateEstimate(p, v, iv, r) /\ UNCHANGED learning
        \/ \E x \in Guess, c \in Reliability : SetPrior(p, v, x, c) /\ UNCHANGED learning
        \/ GetEstimate(p, v) /\ UNCHANGED learning
    \/ \E v \in Variable, x \in Actual : SetValue(v, x)
    \/ \E p \in Project : ReadOutcomes(p)
    \/ NewProcess

LearningSpec == LearningInit /\ [][LearningNext]_allVars

-----------------------------------------------------------------------------
(***************************************************************************)
(* Properties.                                                             *)
(***************************************************************************)
LearningTypeOK ==
    /\ TypeOK
    /\ outcomes \subseteq Outcome
    /\ outcomeFile \in [Project -> SUBSET Outcome]
    /\ value \in [Variable -> Actual \union {Absent}]

\* However projects share the memory of a process, a project's files hold only its own outcomes,
\* each with the rating it was given, and what is in memory is in some file; so what a later
\* process calibrates with is what was recorded, though it is the outcomes of every project that
\* the process has read.
OutcomesStayHome ==
    /\ \A p \in Project : \A o \in outcomeFile[p] : o.of = p
    /\ outcomes \subseteq UNION {outcomeFile[p] : p \in Project}
    /\ \A p, q \in Project : \A o \in outcomeFile[p], u \in outcomeFile[q] : o.id = u.id => o = u

\* A suggestion is two observed values, and a calibrated reliability is never above 0.9, so an
\* estimate made of them keeps within what was observed and is never taken for certain.
SuggestionsAreObserved ==
    \A v \in Variable :
        LET S == OfMetric(outcomes, v)
        IN  Suggested(S) # Absent =>
                /\ {Suggested(S).lo, Suggested(S).hi} \subseteq {o.actual : o \in S}
                /\ \A t \in Tier : 10 * Calibrated(S, t) <= 9 * Unit
=============================================================================
