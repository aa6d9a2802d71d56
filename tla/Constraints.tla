---------------------------- MODULE Constraints ----------------------------
(***************************************************************************)
(* Constraint propagation of cmis_v2/engines/constraints.py: the relations *)
(* that schemas/ontology.yaml declares between metrics are checked, one    *)
(* after another, against the ranges that the caller gives, and a relation *)
(* that holds narrows the ranges for the ones after it.                    *)
(***************************************************************************)
EXTENDS Intervals, Sequences

CONSTANTS Metric,
          Relations,  \* the declared relations, in the order of the file
          Ranges,     \* the ranges a caller may give
          MaxGiven,   \* bound on the metrics with a range
          Sample,     \* the values that the properties try for each metric
          Error, Absent

VARIABLES given,   \* metric_intervals
          answer   \* what check_constraints returned

vars == <<given, answer>>

\* An identity equates lhs with an expression: an operator, its left operand or an inner
\* expression in parentheses, and its right operand.  An inequality relates its two variables.
Simple(e) == "left" \in DOMAIN e
MetricsOf(rel) ==
    IF rel.type = "inequality" THEN {rel.a, rel.b}
    ELSE {rel.lhs, rel.rhs.right}
            \union (IF Simple(rel.rhs) THEN {rel.rhs.left} ELSE {rel.rhs.inner.left, rel.rhs.inner.right})

Known(ivs, S) == {m \in S : ivs[m] # Absent}

\* What the theorems assume: relations of the two types that the schema has, ranges and numbers,
\* and that neither of the two other answers is any of them.
Expression == [op : {"*", "/", "+", "-"}, left : Metric, right : Metric]
Relation ==
    [type : {"identity"}, lhs : Metric,
     rhs : Expression \union [op : {"*", "/", "+", "-"}, inner : Expression, right : Metric]]
    \union [type : {"inequality"}, a : Metric, b : Metric, sign : {">=", "<="}]
Narrowed == [Metric -> Interval \union {Absent}]
Verdict == [ok : BOOLEAN, ivs : Narrowed]
Report == [known : Narrowed, checked : Nat, violations : SUBSET Relation]

ConstraintAssumption ==
    /\ Relations \in Seq(Relation) /\ Ranges \subseteq Interval /\ Sample \subseteq Int
    /\ \A none \in {Absent, Error} : none \notin Interval /\ none \notin Verdict /\ none \notin Report
    /\ Absent # Error

-----------------------------------------------------------------------------
(***************************************************************************)
(* One relation.                                                           *)
(***************************************************************************)
\* Error for a division by a range that holds zero, which ends the whole call.
Apply(op, a, b) ==
    CASE op = "*" -> Times(a, b)
      [] op = "/" -> IF HoldsZero(b) THEN Error ELSE Over(a, b)
      [] op = "+" -> Plus(a, b)
      [] op = "-" -> Less(a, b)

\* A difference of two metrics is never evaluated: the text is split at the first "-", and every
\* metric's own name has one.
EvalSimple(e, ivs) == IF e.op = "-" THEN Absent ELSE Apply(e.op, ivs[e.left], ivs[e.right])

Eval(rhs, ivs) ==
    IF Simple(rhs)
    THEN IF ivs[rhs.left] = Absent \/ ivs[rhs.right] = Absent THEN Absent ELSE EvalSimple(rhs, ivs)
    ELSE IF \E m \in {rhs.inner.left, rhs.inner.right, rhs.right} : ivs[m] = Absent THEN Absent
         ELSE LET inner == EvalSimple(rhs.inner, ivs)
              IN  IF inner \in {Absent, Error} THEN inner ELSE Apply(rhs.op, inner, ivs[rhs.right])

Passed(ivs) == [ok |-> TRUE, ivs |-> ivs]
Violated(ivs) == [ok |-> FALSE, ivs |-> ivs]

\* Mutant: the range of the greater side is narrowed too, to what lies above the lesser one.
CheckInequalityEager(rel, ivs) ==
    LET a == ivs[rel.a]
        b == ivs[rel.b]
    IN  IF a.hi < b.lo THEN Violated(ivs)
        ELSE Passed([ivs EXCEPT ![rel.a] = Iv(Max({a.lo, b.hi}), Max({a.hi, b.hi}))])

\* The variables are read as first >= second, whichever way the relation is written.
CheckInequality(rel, ivs) ==
    LET a == ivs[rel.a]
        b == ivs[rel.b]
    IN  IF a.hi < b.lo THEN Violated(ivs)
        ELSE IF b.hi > a.hi THEN Passed([ivs EXCEPT ![rel.b] = Iv(b.lo, a.hi)])
        ELSE Passed(ivs)

CheckIdentity(rel, ivs) ==
    LET rhs == Eval(rel.rhs, ivs)
        lhs == ivs[rel.lhs]
    IN  CASE rhs = Absent -> Passed(ivs)
          [] rhs = Error -> Error
          [] OTHER -> IF lhs = Absent THEN Passed([ivs EXCEPT ![rel.lhs] = rhs])
                      ELSE IF ~Overlap(lhs, rhs) THEN Violated(ivs)
                      ELSE Passed([ivs EXCEPT ![rel.lhs] = Meet(lhs, rhs)])

-----------------------------------------------------------------------------
\* The relations in their order; acc is Error once a division has failed.
Start(ivs) == [known |-> ivs, checked |-> 0, violations |-> {}]

Step(acc, rel) ==
    IF acc = Error THEN Error
    ELSE IF Cardinality(Known(acc.known, MetricsOf(rel))) < 2 THEN acc
    ELSE LET r == IF rel.type = "inequality" THEN CheckInequality(rel, acc.known)
                  ELSE CheckIdentity(rel, acc.known)
         IN  IF r = Error THEN Error
             ELSE [known |-> r.ivs, checked |-> acc.checked + 1,
                   violations |-> IF r.ok THEN acc.violations ELSE acc.violations \union {rel}]

Check(ivs) ==
    LET after[k \in 0 .. Len(Relations)] == IF k = 0 THEN Start(ivs) ELSE Step(after[k - 1], Relations[k])
    IN  after[Len(Relations)]

Init ==
    /\ given = [m \in Metric |-> Absent]
    /\ answer = Absent

Give(m, iv) ==
    /\ answer = Absent
    /\ given[m] = Absent
    /\ Cardinality(Known(given, Metric)) < MaxGiven
    /\ given' = [given EXCEPT ![m] = iv]
    /\ UNCHANGED answer

CheckConstraints ==
    /\ answer = Absent
    /\ answer' = Check(given)
    /\ UNCHANGED given

Next == CheckConstraints \/ \E m \in Metric, iv \in Ranges : Give(m, iv)

Spec == Init /\ [][Next]_vars

-----------------------------------------------------------------------------
(***************************************************************************)
(* Properties.                                                             *)
(***************************************************************************)
TypeOK ==
    /\ \A m \in Metric : given[m] \in Ranges \union {Absent}
    /\ answer \in {Absent, Error} \/ answer.checked \in 0 .. Len(Relations)

\* What a relation says of a point, one value per metric.
Result(op, x, y) == CASE op = "*" -> x * y [] op = "/" -> Div(x, y) [] op = "+" -> x + y [] op = "-" -> x - y
Defined(rel, x) == rel.type = "inequality" \/ rel.rhs.op # "/" \/ x[rel.rhs.right] # 0

Satisfies(rel, x) ==
    CASE rel.type = "inequality" -> IF rel.sign = ">=" THEN x[rel.a] >= x[rel.b] ELSE x[rel.a] <= x[rel.b]
      [] OTHER -> x[rel.lhs] = Result(rel.rhs.op,
                                      IF Simple(rel.rhs) THEN x[rel.rhs.left]
                                      ELSE Result(rel.rhs.inner.op, x[rel.rhs.inner.left], x[rel.rhs.inner.right]),
                                      x[rel.rhs.right])

\* The points of the given ranges over the metrics that have one or are derived, and those among
\* them that satisfy every relation that the call could look at.
KnownNow == Known(answer.known, Metric)
Points == {x \in [KnownNow -> Sample] : \A m \in KnownNow : given[m] # Absent => Holds(given[m], x[m])}
Looked == {i \in DOMAIN Relations : MetricsOf(Relations[i]) \subseteq KnownNow}
Solutions == {x \in Points : \A i \in Looked : Defined(Relations[i], x) /\ Satisfies(Relations[i], x)}

\* Propagation loses no solution: values within the given ranges that satisfy every declared
\* relation stay within the narrowed and derived ranges, and there are none when a relation is
\* reported violated; as each relation is narrowed by the ones before it, one wrong bound would
\* spread to all that follow.
NoSolutionIsLost ==
    answer \notin {Absent, Error} =>
        /\ \A x \in Solutions : \A m \in KnownNow : Holds(answer.known[m], x[m])
        /\ answer.violations # {} => Solutions = {}
=============================================================================
