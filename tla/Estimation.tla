----------------------------- MODULE Estimation -----------------------------
(***************************************************************************)
(* The estimates of cmis_v2: the store that engines/estimation.py keeps in *)
(* the memory of a process, the copy it writes to the project's directory, *)
(* and the fusion of the estimates of a variable into one range.           *)
(*                                                                         *)
(* The memory is keyed by the variable alone, a file by project and        *)
(* variable.  Only reading an estimate loads a file; making one does not.  *)
(* A process may end at any time and another start with an empty memory.   *)
(***************************************************************************)
EXTENDS Intervals, Sequences, SequencesExt

CONSTANTS Project, Variable,
          Bounds,        \* the range that a registered metric has, if it has one
          Given,         \* the ranges a caller may give
          One,           \* the integer that stands for 1.0
          Unit,          \* a source reliability is one of 0..Unit
          Reliability,   \* the reliabilities callers give
          Guess,         \* the point estimates callers of the old belief interface give
          MaxEstimates,  \* bound on the estimates made
          Absent

VARIABLES memory,  \* _ESTIMATION_STORE
          file,    \* engine_data/estimation of each project
          made     \* the number of estimates made, which numbers them

vars == <<memory, file, made>>

Bounded(v) == Bounds[v] # Absent
Clamped(v, iv) == IF Bounded(v) THEN Clamp(iv, Bounds[v].lo, Bounds[v].hi) ELSE iv

Estimate == [id: 1 .. MaxEstimates, iv: [lo: Int, hi: Int], r: 0 .. Unit, given: [lo: Int, hi: Int]]
Fusion == [iv: Interval, conflicts: SUBSET Nat]

\* What the theorems assume of the constants: ranges and numbers, and that nothing is no record.
EstimationAssumption ==
    /\ Given \subseteq Interval /\ Guess \subseteq Int /\ Reliability \subseteq 0 .. Unit
    /\ \A v \in Variable : Bounds[v] \in Interval \union {Absent}
    /\ {MaxEstimates, One} \subseteq Nat /\ Unit \in Nat \ {0}
    /\ Absent \notin Fusion
    /\ Absent \notin [estimates: Seq(Estimate), version: Nat, fused: Fusion \union {Absent}]

-----------------------------------------------------------------------------
(***************************************************************************)
(* Fusion.                                                                 *)
(***************************************************************************)
\* Mutant: the order of arrival is kept.
ByArrival(es) == es

\* The most reliable first; the sort is stable, so ties keep the order of arrival.
ByReliability(es) ==
    LET before(j, i) == es[j].r > es[i].r \/ (es[j].r = es[i].r /\ j < i)
        place(i) == Cardinality({j \in DOMAIN es : before(j, i)}) + 1
    IN  [k \in DOMAIN es |-> es[CHOOSE i \in DOMAIN es : place(i) = k]]

\* What another estimate does to the range fused so far.
Toward(iv, other, r) ==
    LET both == Meet(iv, other)
    IN  Iv(iv.lo + ((both.lo - iv.lo) * r) \div Unit, iv.hi + ((both.hi - iv.hi) * r) \div Unit)

Joined(acc, e) ==
    IF Overlap(acc.iv, e.iv)
    THEN [acc EXCEPT !.iv = Toward(@, e.iv, e.r)]
    ELSE [iv |-> Hull(acc.iv, e.iv), conflicts |-> acc.conflicts \union {e.id}]

BatchFuse(es, v) ==
    LET sorted == ByReliability(es)
        all[k \in DOMAIN es] == IF k = 1 THEN [iv |-> sorted[1].iv, conflicts |-> {}]
                                ELSE Joined(all[k - 1], sorted[k])
    IN  [all[Len(es)] EXCEPT !.iv = Clamped(v, @)]

-----------------------------------------------------------------------------
Init ==
    /\ memory = [v \in Variable |-> Absent]
    /\ file = [p \in Project |-> [v \in Variable |-> Absent]]
    /\ made = 0

\* The record of v after one more estimate.
Known(v) == IF memory[v] = Absent THEN [estimates |-> <<>>, fused |-> Absent, version |-> 0]
            ELSE memory[v]

\* Mutant: only the newest estimates are kept.
WithEstimateCapped(v, iv, r) ==
    LET e == [id |-> made + 1, iv |-> Clamped(v, iv), r |-> r, given |-> iv]
        es == IF Len(Known(v).estimates) >= 2 THEN <<Last(Known(v).estimates), e>>
              ELSE Append(Known(v).estimates, e)
    IN  [estimates |-> es, version |-> Known(v).version + 1,
         fused |-> IF Len(es) >= 2 THEN BatchFuse(es, v) ELSE Known(v).fused]

WithEstimate(v, iv, r) ==
    LET e == [id |-> made + 1, iv |-> Clamped(v, iv), r |-> r, given |-> iv]
        es == Append(Known(v).estimates, e)
    IN  [estimates |-> es, version |-> Known(v).version + 1,
         fused |-> IF Len(es) >= 2 THEN BatchFuse(es, v) ELSE Known(v).fused]

\* create_estimate, which update_estimate is another name of.
CreateEstimate(p, v, iv, r) ==
    /\ made < MaxEstimates
    /\ made' = made + 1
    /\ memory' = [memory EXCEPT ![v] = WithEstimate(v, iv, r)]
    /\ file' = [file EXCEPT ![p][v] = memory'[v]]

\* The range that the old interface makes of a point and a confidence of c / Unit.
BeliefRange(x, c) ==
    Around(x, IF x = 0 THEN One ELSE ((IF x < 0 THEN -x ELSE x) * (Unit - c)) \div (2 * Unit))

\* set_prior and update_belief.
SetPrior(p, v, x, c) == CreateEstimate(p, v, BeliefRange(x, c), c)

\* get_estimate and get_prior: the memory first, then the file of the project.
GetEstimate(p, v) ==
    /\ memory[v] = Absent
    /\ file[p][v] # Absent
    /\ memory' = [memory EXCEPT ![v] = file[p][v]]
    /\ UNCHANGED <<file, made>>

\* A process ends and the next one starts.
Restart ==
    /\ memory' = [v \in Variable |-> Absent]
    /\ UNCHANGED <<file, made>>

Next ==
    \/ \E p \in Project, v \in Variable :
        \/ \E iv \in Given, r \in Reliability : CreateEstimate(p, v, iv, r)
        \/ \E x \in Guess, c \in Reliability : SetPrior(p, v, x, c)
        \/ GetEstimate(p, v)
    \/ Restart

Spec == Init /\ [][Next]_vars

-----------------------------------------------------------------------------
(***************************************************************************)
(* Properties.                                                             *)
(***************************************************************************)
EstimatesOf(rec) == IF rec = Absent THEN <<>> ELSE rec.estimates
Records == {memory[v] : v \in Variable} \union {file[p][v] : p \in Project, v \in Variable}

TypeOK ==
    /\ made \in 0 .. MaxEstimates
    /\ \A rec \in Records \ {Absent} :
        /\ rec.estimates \in Seq(Estimate)
        /\ rec.version = Len(rec.estimates)
        /\ (rec.fused # Absent) <=> (Len(rec.estimates) >= 2)

Disjoint(es) == \E i, j \in DOMAIN es : ~Overlap(es[i].iv, es[j].iv)
Reach(es) == [lo |-> Min({es[i].iv.lo : i \in DOMAIN es}), hi |-> Max({es[i].iv.hi : i \in DOMAIN es})]
Common(es) == [lo |-> Max({es[i].iv.lo : i \in DOMAIN es}), hi |-> Min({es[i].iv.hi : i \in DOMAIN es})]
InBounds(v, iv) == Bounded(v) => Within(iv, Bounds[v])

\* What a variable's fused range says of its estimates, whatever their number and the order they
\* came in: it claims nothing that none of them reaches, keeps all that they agree on when any two
\* of them overlap, names a conflict only if two of them are disjoint, stays within the metric's
\* bounds as long as no estimate given lies wholly below them, and, when no two are equally
\* reliable, does not depend on the order of arrival.
FusionIsSound ==
    \A v \in Variable :
        LET rec == memory[v]
            es == EstimatesOf(rec)
        IN  Len(es) >= 2 =>
            /\ rec.fused = BatchFuse(es, v)
            /\ InBounds(v, Reach(es)) => Within(rec.fused.iv, Reach(es))
            /\ ~Disjoint(es) => Within(Common(es), rec.fused.iv) /\ rec.fused.conflicts = {}
            /\ (\A i \in DOMAIN es : Bounded(v) => es[i].given.hi >= Bounds[v].lo)
                => InBounds(v, rec.fused.iv)
            /\ (\A i, j \in DOMAIN es : i # j => es[i].r # es[j].r)
                => BatchFuse(Reverse(es), v) = rec.fused

Ids(es) == {es[i].id : i \in DOMAIN es}

\* A project's file loses an estimate only to an estimate made by a process that had not read it:
\* create_estimate starts the record anew when the memory is empty, where add_record of the
\* evidence engine would have loaded the file, or when another project's estimates are in it.
ForgottenOnlyBlind ==
    [][\A p \in Project, v \in Variable :
        ~(Ids(EstimatesOf(file[p][v])) \subseteq Ids(EstimatesOf(file'[p][v])))
            => ~(Ids(EstimatesOf(file[p][v])) \subseteq Ids(EstimatesOf(memory[v])))]_vars
=============================================================================
