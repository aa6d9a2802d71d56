----------------------------- MODULE Intervals -----------------------------
(***************************************************************************)
(* The P10/P90 ranges of cmis_v2/engines/interval.py, over integers: every *)
(* engine that estimates computes with them.                               *)
(***************************************************************************)
EXTENDS Integers, FiniteSetsExt

Interval == {iv \in [lo : Int, hi : Int] : iv.lo <= iv.hi}

\* Reversed bounds are meant to be swapped, but lo is overwritten before hi is taken from it,
\* so the range shrinks to its second bound.
Iv(a, b) == [lo |-> IF a > b THEN b ELSE a, hi |-> b]

Around(x, half) == Iv(x - half, x + half)

\* The point estimate, doubled to stay an integer.
Midpoint2(a) == a.lo + a.hi

Plus(a, b) == Iv(a.lo + b.lo, a.hi + b.hi)
Less(a, b) == Iv(a.lo - b.hi, a.hi - b.lo)

Spanning(S) == Iv(Min(S), Max(S))

\* Mutant: only the like ends are multiplied, as if no range crossed zero.
TimesLikeEnds(a, b) == Spanning({a.lo * b.lo, a.hi * b.hi})

Times(a, b) == Spanning({a.lo * b.lo, a.lo * b.hi, a.hi * b.lo, a.hi * b.hi})

HoldsZero(a) == a.lo <= 0 /\ 0 <= a.hi

\* Division, rounded down.
Div(x, y) == IF y > 0 THEN x \div y ELSE (-x) \div (-y)

\* The product with the reciprocal; only for a range that does not hold zero.
Over(a, b) == Spanning({Div(a.lo, b.hi), Div(a.lo, b.lo), Div(a.hi, b.hi), Div(a.hi, b.lo)})

Overlap(a, b) == a.lo <= b.hi /\ b.lo <= a.hi
Meet(a, b) == Iv(Max({a.lo, b.lo}), Min({a.hi, b.hi}))
Hull(a, b) == Iv(Min({a.lo, b.lo}), Max({a.hi, b.hi}))
Clamp(a, low, high) == Iv(Max({a.lo, low}), Min({a.hi, high}))

Within(a, b) == b.lo <= a.lo /\ a.hi <= b.hi
Holds(a, x) == a.lo <= x /\ x <= a.hi
=============================================================================
