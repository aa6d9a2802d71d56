------------------------------ MODULE MCKernel ------------------------------
(***************************************************************************)
(* An instance for TLC of the kernel and two of the imports.               *)
(***************************************************************************)
EXTENDS KernelAndImports, TLC

CONSTANTS m1, m2,              \* metrics of a goal
          b1, f1, f2, i1, i2, w1, w2

\* A goal with two metrics.
TwoMetrics == <<m1, m2>>

\* Two imports to one context, processes that die and steps that fail; one process at a time, as
\* two may plan the same version (run bf_replace) ...
TwoImports ==
    [Run |-> {i1, i2}, File |-> {f1, f2}, Base |-> {b1}, Worker |-> {w1},
     Quality |-> (f1 :> "pass" @@ f2 :> "warn_only"), MaxVersion |-> 2, MaxFaults |-> 2]

\* ... and one import to a context of its own, committed and reconciled by two processes.
TwoProcesses ==
    [Run |-> {i1}, File |-> {f1}, Base |-> {}, Worker |-> {w1, w2}, Quality |-> (f1 :> "pass"),
     MaxVersion |-> 1, MaxFaults |-> 2]
=============================================================================
