---------------------------- MODULE MCBrownfield ----------------------------
(* Instances of Brownfield for TLC.                                         *)
EXTENDS Brownfield, TLC

CONSTANTS f1, f2, f3

\* Runs and processes are interchangeable; files are not (Quality).
RunSymmetry == Permutations(Run)
Symmetry == Permutations(Run) \cup Permutations(Worker)

\* Files that may be committed, the second with warnings only ...
GoodFiles == [f \in File |-> IF f = f2 THEN "warn_only" ELSE "pass"]

\* ... and one that validation refuses.
AllFiles == [f \in File |-> IF f = f3 THEN "fail" ELSE IF f = f2 THEN "warn_only" ELSE "pass"]
=============================================================================
