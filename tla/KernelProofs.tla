---------------------------- MODULE KernelProofs ----------------------------
(***************************************************************************)
(* Proofs about Kernel: the plans of the replanner, and the safety of the  *)
(* loop for any goal, budget, run modes and engines' answers.  Then proofs *)
(* about the orchestrator of workflows and the value engine that it asks,  *)
(* for any programs, graphs, evidence, priors and policy packs, and about  *)
(* the policy engine that the gates ask.                                   *)
(***************************************************************************)
EXTENDS KernelAndImports, TLAPS, SequenceTheorems, FiniteSetTheorems, NaturalsInduction, WellFoundedInduction

-----------------------------------------------------------------------------
(* Plans                                                                   *)

\* The tasks a plan for this table may contain.
Gaps(table) == {m \in Goal : \E reason \in Reason : m \in Diff(table, reason)}

PlanTasks(table) ==
    {NewTask("compute_metric", {m}, "no") : m \in Gaps(table)}
    \cup (IF Diff(table, "policy") = {} THEN {}
          ELSE {NewTask("collect_evidence", Diff(table, "policy"), "yes")})
    \cup (IF Diff(table, "lineage") = {} THEN {}
          ELSE {NewTask("collect_evidence", Diff(table, "lineage"), "no")})

LEMMA GoalType == Goal \subseteq Metric
  <1>1. \A i \in 1 .. Len(Required) : Required[i] \in Metric
    BY RequiredAssumption, ElementOfSeq
  <1>2. QED
    BY <1>1 DEF Goal

LEMMA NthType == ASSUME NEW S, NEW i \in 1 .. 3 PROVE Nth(S, i) \in Seq(S)
  BY DEF Nth

LEMMA ListedType == ASSUME NEW S PROVE Listed(S) \in Seq(S)
  <1>1. Nth(S, 1) \in Seq(S) /\ Nth(S, 2) \in Seq(S) /\ Nth(S, 3) \in Seq(S)
    BY NthType
  <1>2. QED
    BY <1>1 DEF Listed

\* A metric of the goal is listed: the list of a set is empty only if the set is.
LEMMA ListedFull == ASSUME NEW S, S \subseteq Goal, S # {} PROVE Len(Listed(S)) > 0
  <1>1. PICK i \in 1 .. Len(Required) : Required[i] \in S
    BY DEF Goal
  <1>2. i \in 1 .. 3
    BY RequiredAssumption
  <1>3. Nth(S, i) = <<Required[i]>>
    BY <1>1, <1>2, RequiredAssumption DEF Nth
  <1>4. Len(Nth(S, i)) = 1
    BY <1>3
  <1>5. Nth(S, 1) \in Seq(S) /\ Nth(S, 2) \in Seq(S) /\ Nth(S, 3) \in Seq(S)
    BY NthType
  <1>6. Len(Listed(S)) = Len(Nth(S, 1)) + Len(Nth(S, 2)) + Len(Nth(S, 3))
    BY <1>5 DEF Listed
  <1>7. /\ Len(Nth(S, 1)) \in Nat /\ Len(Nth(S, 2)) \in Nat /\ Len(Nth(S, 3)) \in Nat
    BY <1>5, LenProperties
  <1>8. QED
    BY <1>2, <1>4, <1>6, <1>7

LEMMA ComputeType ==
    ASSUME NEW S
    PROVE  /\ Compute(S) \in Seq({NewTask("compute_metric", {m}, "no") : m \in S})
           /\ Len(Compute(S)) = Len(Listed(S))
  <1> DEFINE T == {NewTask("compute_metric", {m}, "no") : m \in S}
  <1> DEFINE n == Len(Listed(S))
  <1>1. n \in Nat /\ \A i \in 1 .. n : Listed(S)[i] \in S
    BY ListedType, ElementOfSeq, LenProperties
  <1>2. Compute(S) \in [1 .. n -> T]
    BY <1>1 DEF Compute
  <1>3. Compute(S) \in Seq(T)
    BY <1>1, <1>2, SeqDef
  <1>4. QED
    BY <1>1, <1>2, <1>3, LenProperties

\* Every task of a plan is one of PlanTasks.
LEMMA PlanType == ASSUME NEW table PROVE Plan(table) \in Seq(PlanTasks(table))
  <1> DEFINE T == PlanTasks(table)
  <1> DEFINE D(reason) == Diff(table, reason)
  <1>1. ASSUME NEW S \in SUBSET Gaps(table) PROVE Compute(S) \in Seq(T)
    <2>1. {NewTask("compute_metric", {m}, "no") : m \in S} \subseteq T
      BY DEF PlanTasks
    <2>2. QED
      BY <2>1, ComputeType, SeqMonotonic
  <1>2. \A reason \in Reason : D(reason) \in SUBSET Gaps(table)
    BY DEF Diff, Gaps
  <1>3. CollectAndCompute(D("policy"), "yes") \in Seq(T)
    <2>1. CASE D("policy") = {}
      BY <2>1 DEF CollectAndCompute
    <2>2. CASE D("policy") # {}
      <3>1. Compute(D("policy")) \in Seq(T)
        BY <1>1, <1>2 DEF Reason
      <3>2. NewTask("collect_evidence", D("policy"), "yes") \in T
        BY <2>2 DEF PlanTasks
      <3>3. QED
        BY <2>2, <3>1, <3>2 DEF CollectAndCompute
    <2>3. QED
      BY <2>1, <2>2
  <1>4. CollectAndCompute(D("lineage"), "no") \in Seq(T)
    <2>1. CASE D("lineage") = {}
      BY <2>1 DEF CollectAndCompute
    <2>2. CASE D("lineage") # {}
      <3>1. Compute(D("lineage")) \in Seq(T)
        BY <1>1, <1>2 DEF Reason
      <3>2. NewTask("collect_evidence", D("lineage"), "no") \in T
        BY <2>2 DEF PlanTasks
      <3>3. QED
        BY <2>2, <3>1, <3>2 DEF CollectAndCompute
    <2>3. QED
      BY <2>1, <2>2
  <1>5. /\ Compute(D("consistency")) \in Seq(T)
        /\ Compute(D("missing_metric")) \in Seq(T)
        /\ Compute(D("missing_value") \ D("missing_metric")) \in Seq(T)
    <2>1. /\ D("consistency") \in SUBSET Gaps(table)
          /\ D("missing_metric") \in SUBSET Gaps(table)
          /\ D("missing_value") \ D("missing_metric") \in SUBSET Gaps(table)
      BY <1>2 DEF Reason
    <2>2. QED
      BY <2>1, <1>1
  <1>6. QED
    <2> HIDE DEF T, D
    <2>1. CollectAndCompute(D("policy"), "yes") \o CollectAndCompute(D("lineage"), "no") \in Seq(T)
      BY <1>3, <1>4
    <2>2. CollectAndCompute(D("policy"), "yes") \o CollectAndCompute(D("lineage"), "no")
            \o Compute(D("consistency")) \in Seq(T)
      BY <1>5, <2>1
    <2>3. CollectAndCompute(D("policy"), "yes") \o CollectAndCompute(D("lineage"), "no")
            \o Compute(D("consistency")) \o Compute(D("missing_metric")) \in Seq(T)
      BY <1>5, <2>2
    <2>4. CollectAndCompute(D("policy"), "yes") \o CollectAndCompute(D("lineage"), "no")
            \o Compute(D("consistency")) \o Compute(D("missing_metric"))
            \o Compute(D("missing_value") \ D("missing_metric")) \in Seq(T)
      BY <1>5, <2>3
    <2>5. QED
      BY <2>4 DEF Plan, D, T

\* A goal that is not satisfied yields a plan with at least one task.
LEMMA PlanNotEmpty == ASSUME NEW table, ~Satisfied(table) PROVE Plan(table) # <<>>
  <1> DEFINE D(reason) == Diff(table, reason)
  <1>1. \A S \in SUBSET Goal : Compute(S) \in Seq(Task) /\ (S # {} => Len(Compute(S)) > 0)
    <2> SUFFICES ASSUME NEW S \in SUBSET Goal
                 PROVE  Compute(S) \in Seq(Task) /\ (S # {} => Len(Compute(S)) > 0)
      OBVIOUS
    <2>1. {NewTask("compute_metric", {m}, "no") : m \in S} \subseteq Task
      BY GoalType DEF NewTask, Task, Status
    <2>2. QED
      BY <2>1, ComputeType, ListedFull, SeqMonotonic
  <1>2. \A reason : D(reason) \in SUBSET Goal
    BY DEF Diff
  <1>3. \A S \in SUBSET Goal, force \in {"yes", "no"} :
          /\ CollectAndCompute(S, force) \in Seq(Task)
          /\ S # {} => Len(CollectAndCompute(S, force)) > 0
    <2> SUFFICES ASSUME NEW S \in SUBSET Goal, NEW force \in {"yes", "no"}, S # {}
                 PROVE  /\ CollectAndCompute(S, force) \in Seq(Task)
                        /\ Len(CollectAndCompute(S, force)) > 0
      BY DEF CollectAndCompute
    <2>1. <<NewTask("collect_evidence", S, force)>> \in Seq(Task)
      BY GoalType DEF NewTask, Task, Status
    <2>2. Compute(S) \in Seq(Task) /\ Len(Compute(S)) \in Nat
      BY <1>1, LenProperties
    <2>3. QED
      BY <2>1, <2>2 DEF CollectAndCompute
  <1> DEFINE a == CollectAndCompute(D("policy"), "yes")
             b == CollectAndCompute(D("lineage"), "no")
             c == Compute(D("consistency"))
             d == Compute(D("missing_metric"))
             e == Compute(D("missing_value") \ D("missing_metric"))
  <1>4. /\ a \in Seq(Task) /\ (D("policy") # {} => Len(a) > 0)
        /\ b \in Seq(Task) /\ (D("lineage") # {} => Len(b) > 0)
        /\ c \in Seq(Task) /\ (D("consistency") # {} => Len(c) > 0)
        /\ d \in Seq(Task) /\ (D("missing_metric") # {} => Len(d) > 0)
        /\ e \in Seq(Task) /\ (D("missing_value") \ D("missing_metric") # {} => Len(e) > 0)
    <2>1. (D("missing_value") \ D("missing_metric")) \in SUBSET Goal
      BY <1>2
    <2> HIDE DEF D
    <2>2. QED
      BY <2>1, <1>1, <1>2, <1>3
  <1>5. \/ D("policy") # {} \/ D("lineage") # {} \/ D("consistency") # {}
        \/ D("missing_metric") # {} \/ D("missing_value") \ D("missing_metric") # {}
    BY DEF Satisfied, Reason
  <1>6. Plan(table) = a \o b \o c \o d \o e
    BY DEF Plan
  <1> HIDE DEF a, b, c, d, e, D
  <1>7. Len(a \o b \o c \o d \o e) = Len(a) + Len(b) + Len(c) + Len(d) + Len(e)
    BY <1>4
  <1>8. /\ Len(a) \in Nat /\ Len(b) \in Nat /\ Len(c) \in Nat /\ Len(d) \in Nat
        /\ Len(e) \in Nat
    BY <1>4, LenProperties
  <1>9. Len(Plan(table)) > 0
    BY <1>4, <1>5, <1>6, <1>7, <1>8
  <1>10. QED
    BY <1>9

-----------------------------------------------------------------------------
(* The queue and the loop                                                  *)

\* A compute task is for one metric.
ComputesOne ==
    \A i \in 1 .. Len(queue) :
        queue[i].kind = "compute_metric" => \E m \in Metric : queue[i].on = {m}

\* What holds at the labels of the loop.
Phases ==
    /\ pc \in {"verify", "replan", "gate", "execute", "save"} => overall = "running"
    /\ pc \in {"verify", "replan", "gate", "finalize", "last"} => iteration = Len(steps)
    /\ pc \in {"execute", "save"} => iteration + 1 = Len(steps)
    /\ pc = "execute" => queue[Len(steps)].status = "running"
    /\ pc = "replan" => ~Satisfied(metrics)
    /\ pc = "gate" => Pending # {}

LoopInv ==
    TypeOK /\ LedgersShowTheQueue /\ ComputesOne /\ Phases /\ WithinLimits /\ NeverStalls

LEMMA PlanTasksType == ASSUME NEW table PROVE PlanTasks(table) \subseteq Task
  BY GoalType DEF PlanTasks, Gaps, NewTask, Task, Status, Diff

LEMMA LoopInit == Init => LoopInv
  <1> SUFFICES ASSUME Init PROVE LoopInv
    OBVIOUS
  <1>1. NoEntry \in Entry
    BY DEF NoEntry, Entry
  <1>2. NoSnapshot \in Snapshot
    BY <1>1 DEF NoSnapshot, Snapshot, Overall
  <1>3. TypeOK
    BY <1>1, <1>2 DEF Init, TypeOK, Overall
  <1>4. /\ LedgersShowTheQueue /\ ComputesOne /\ Phases /\ WithinLimits /\ NeverStalls
    BY BudgetAssumption DEF Init, LedgersShowTheQueue, ComputesOne, Phases, WithinLimits, NeverStalls
  <1>5. QED
    BY <1>3, <1>4 DEF LoopInv

LEMMA StartLoop == ASSUME LoopInv, NEW r \in Run, NEW m \in Mode, Start(r, m) PROVE LoopInv'
  <1>1. NewTask("run_workflow", {}, "no") \in Task
    BY DEF NewTask, Task, Status
  <1>2. queue' \in Seq(Task) /\ shown' \in Seq(Status) /\ steps' \in Seq(Step)
    BY <1>1 DEF Start, Status
  <1>3. metrics' \in [Metric -> Entry]
    BY DEF Start, NoEntry, Entry
  <1>4. row' \in [Run -> {"absent", "open", "success", "incomplete", "stalled", "failed"}]
    BY DEF Start, LoopInv, TypeOK
  <1>5. TypeOK'
    BY <1>2, <1>3, <1>4, ModeAssumption DEF Start, Overall, LoopInv, TypeOK
  <1>6. /\ Len(queue') = 1 /\ Len(shown') = 1 /\ Len(steps') = 0
        /\ queue'[1].status = "pending" /\ queue'[1].kind = "run_workflow" /\ shown'[1] = "pending"
    BY DEF Start, NewTask
  <1>7. LedgersShowTheQueue' /\ ComputesOne'
    BY <1>6 DEF LedgersShowTheQueue, ComputesOne
  <1>8. Phases' /\ WithinLimits'
    BY <1>6, BudgetAssumption DEF Phases, WithinLimits, Start
  <1>9. NeverStalls'
    BY DEF NeverStalls, Start, LoopInv, TypeOK
  <1>10. QED
    BY <1>5, <1>7, <1>8, <1>9 DEF LoopInv

\* A step that leaves queue, steps and graph alone.
LEMMA QuietStep ==
    ASSUME LoopInv, UNCHANGED <<queue, steps, shown, mode, stall>>, TypeOK', Phases',
           pc = "execute" => pc' \in {"fail", "dead"},
           pc = "fail" => pc' \in {"done", "dead"},
           pc \notin {"done", "dead"},
           overall = "failed" => overall' = "failed",
           overall' # "stalled", \A r \in Run : row'[r] # "stalled"
    PROVE  LoopInv'
  <1>1. LedgersShowTheQueue'
    BY DEF LoopInv, LedgersShowTheQueue
  <1>2. ComputesOne' /\ WithinLimits'
    BY DEF LoopInv, ComputesOne, WithinLimits
  <1>3. NeverStalls'
    BY DEF LoopInv, NeverStalls
  <1>4. QED
    BY <1>1, <1>2, <1>3 DEF LoopInv

LEMMA QuietSteps ==
    ASSUME LoopInv,
           \/ Verify \/ WaitForApproval \/ PauseManual \/ StopOnBudget \/ SaveSnapshot
           \/ Raise \/ FinalizeFailed \/ FinalizeRun \/ LastSnapshot \/ Crash
    PROVE  LoopInv'
<1> USE DEF LoopInv
<1>1. CASE Verify
  <2>1. TypeOK'
    BY <1>1, GoalType DEF Verify, TypeOK, Overall
  <2>2. Phases'
    BY <1>1 DEF Verify, Phases
  <2>3. QED
    BY <1>1, <2>1, <2>2, QuietStep DEF Verify, Phases, NeverStalls
<1>2. CASE WaitForApproval \/ PauseManual \/ StopOnBudget
  <2>1. TypeOK'
    BY <1>2 DEF WaitForApproval, PauseManual, StopOnBudget, Pause, TypeOK, Overall
  <2>2. Phases'
    BY <1>2 DEF WaitForApproval, PauseManual, StopOnBudget, Pause, Phases
  <2>3. QED
    BY <1>2, <2>1, <2>2, QuietStep
    DEF WaitForApproval, PauseManual, StopOnBudget, Pause, Phases, NeverStalls
<1>3. CASE SaveSnapshot
  <2>1. Ledgers \in Snapshot
    BY DEF Ledgers, Snapshot, TypeOK
  <2>2. TypeOK'
    <3>1. snap \in [Run -> Snapshot] /\ iteration \in Nat
      BY DEF TypeOK
    <3>2. snap' = [snap EXCEPT ![run] = Ledgers] /\ iteration' = iteration + 1
      BY <1>3 DEF SaveSnapshot
    <3>3. snap' \in [Run -> Snapshot]
      <4> HIDE DEF LoopInv
      <4>1. QED
        BY <2>1, <3>1, <3>2
    <3>4. iteration' \in Nat
      BY <3>1, <3>2
    <3>5. QED
      BY <1>3, <3>3, <3>4 DEF SaveSnapshot, TypeOK
  <2>3. Phases'
    BY <1>3 DEF SaveSnapshot, Phases
  <2>4. QED
    BY <1>3, <2>2, <2>3, QuietStep DEF SaveSnapshot, NeverStalls
<1>4. CASE Raise
  <2>1. TypeOK' /\ Phases'
    BY <1>4 DEF Raise, TypeOK, Phases, Overall
  <2>2. QED
    BY <1>4, <2>1, QuietStep DEF Raise, NeverStalls
<1>5. CASE FinalizeFailed
  <2>1. TypeOK' /\ Phases'
    BY <1>5 DEF FinalizeFailed, TypeOK, Phases, memory
  <2>2. \A r \in Run : row'[r] # "stalled"
    BY <1>5 DEF FinalizeFailed, TypeOK, NeverStalls
  <2>3. QED
    BY <1>5, <2>1, <2>2, QuietStep DEF FinalizeFailed, NeverStalls, memory
<1>6. CASE FinalizeRun
  <2>1. FinalStatus \in {"success", "incomplete"}
    BY DEF FinalStatus, NeverStalls
  <2>2. TypeOK' /\ Phases'
    BY <1>6, <2>1 DEF FinalizeRun, TypeOK, Phases, memory
  <2>3. \A r \in Run : row'[r] # "stalled"
    BY <1>6, <2>1 DEF FinalizeRun, TypeOK, NeverStalls
  <2>4. QED
    BY <1>6, <2>2, <2>3, QuietStep DEF FinalizeRun, NeverStalls, memory
<1>7. CASE LastSnapshot
  <2>1. Ledgers \in Snapshot
    BY DEF Ledgers, Snapshot, TypeOK
  <2>2. TypeOK' /\ Phases'
    BY <1>7, <2>1 DEF LastSnapshot, TypeOK, Phases, memory
  <2>3. QED
    BY <1>7, <2>2, QuietStep DEF LastSnapshot, NeverStalls, memory
<1>8. CASE Crash
  <2>1. TypeOK' /\ Phases'
    BY <1>8 DEF Crash, TypeOK, Phases, memory
  <2>2. QED
    BY <1>8, <2>1, QuietStep DEF Crash, NeverStalls, memory
<1>9. QED
  BY <1>1, <1>2, <1>3, <1>4, <1>5, <1>6, <1>7, <1>8

\* What appending a plan to the queue does.
LEMMA Appended ==
    ASSUME TypeOK, ComputesOne, NEW n \in Nat, n = Len(queue),
           queue' = queue \o Plan(metrics)
    PROVE  /\ queue' \in Seq(Task)
           /\ Len(Plan(metrics)) \in Nat
           /\ Len(queue') = n + Len(Plan(metrics))
           /\ \A i \in 1 .. n : queue'[i] = queue[i]
           /\ \A i \in 1 .. Len(queue') : i > n =>
                 /\ queue'[i] = Plan(metrics)[i - n]
                 /\ queue'[i] \in PlanTasks(metrics)
                 /\ queue'[i].status = "pending"
           /\ ComputesOne'
  <1> DEFINE p == Plan(metrics)
  <1>1. p \in Seq(PlanTasks(metrics)) /\ p \in Seq(Task)
    BY PlanType, PlanTasksType, SeqMonotonic
  <1> HIDE DEF p
  <1>2. /\ Len(p) \in Nat /\ queue' \in Seq(Task) /\ Len(queue') = n + Len(p)
        /\ \A i \in 1 .. n : queue'[i] = queue[i]
        /\ \A i \in 1 .. Len(queue') : i > n => queue'[i] = p[i - n]
    BY <1>1 DEF TypeOK, p
  <1>3. \A i \in 1 .. Len(queue') : i > n => queue'[i] \in PlanTasks(metrics)
    BY <1>1, <1>2, ElementOfSeq
  <1>4. \A t \in PlanTasks(metrics) :
          /\ t.status = "pending"
          /\ t.kind = "compute_metric" => \E m \in Metric : t.on = {m}
    BY GoalType DEF PlanTasks, NewTask, Gaps
  <1>5. ComputesOne'
    <2> SUFFICES ASSUME NEW i \in 1 .. Len(queue'), queue'[i].kind = "compute_metric"
                 PROVE  \E m \in Metric : queue'[i].on = {m}
      BY DEF ComputesOne
    <2>1. CASE i > n
      BY <1>3, <1>4, <2>1
    <2>2. CASE ~(i > n)
      <3>1. i \in 1 .. n
        BY <1>2, <2>2
      <3>2. QED
        BY <1>2, <3>1 DEF ComputesOne
    <2>3. QED
      BY <2>1, <2>2
  <1>6. QED
    BY <1>2, <1>3, <1>4, <1>5 DEF p

LEMMA ReplanLoop == ASSUME LoopInv, Replan \/ ReplanRaises PROVE LoopInv'
<1> DEFINE n == Len(queue)
<1>1. n \in Nat /\ ~Satisfied(metrics) /\ Plan(metrics) # <<>>
  BY PlanNotEmpty DEF LoopInv, TypeOK, Phases, Replan, ReplanRaises
<1>2. queue' = queue \o Plan(metrics)
  BY <1>1 DEF Replan, ReplanRaises, Enqueue
<1>3. /\ queue' \in Seq(Task) /\ Len(Plan(metrics)) \in Nat
      /\ Len(queue') = n + Len(Plan(metrics))
      /\ \A i \in 1 .. n : queue'[i] = queue[i]
      /\ \A i \in 1 .. Len(queue') : i > n =>
            queue'[i] = Plan(metrics)[i - n] /\ queue'[i].status = "pending"
      /\ ComputesOne'
  BY <1>1, <1>2, Appended DEF LoopInv
<1>4. Plan(metrics) \in Seq(Task)
  BY PlanType, PlanTasksType, SeqMonotonic
<1>5. Len(Plan(metrics)) > 0
  BY <1>1, <1>4
<1>6. CASE Replan
  <2>1. shown' = shown \o [i \in 1 .. Len(Plan(metrics)) |-> Plan(metrics)[i].status]
    BY <1>1, <1>6 DEF Replan, Enqueue
  <2>2. [i \in 1 .. Len(Plan(metrics)) |-> Plan(metrics)[i].status] \in Seq(Status)
    <3>1. \A i \in 1 .. Len(Plan(metrics)) : Plan(metrics)[i] \in Task
      BY <1>4, ElementOfSeq
    <3>2. \A t \in Task : t.status \in Status
      BY DEF Task
    <3>3. \A i \in 1 .. Len(Plan(metrics)) : Plan(metrics)[i].status \in Status
      BY <3>1, <3>2
    <3>4. QED
      BY <1>3, <3>3, SeqDef
  <2>3. Len(shown) = n
    BY <1>6 DEF Replan, LoopInv, LedgersShowTheQueue, Phases
  <2>4. /\ shown' \in Seq(Status) /\ Len(shown') = n + Len(Plan(metrics))
        /\ \A i \in 1 .. n : shown'[i] = shown[i]
        /\ \A i \in 1 .. Len(shown') : i > n => shown'[i] = Plan(metrics)[i - n].status
    <3> DEFINE q == [i \in 1 .. Len(Plan(metrics)) |-> Plan(metrics)[i].status]
    <3>1. /\ q \in Seq(Status) /\ Len(q) = Len(Plan(metrics)) /\ shown' = shown \o q
          /\ \A k \in 1 .. Len(q) : q[k] = Plan(metrics)[k].status
      BY <1>3, <2>1, <2>2
    <3> HIDE DEF q
    <3>2. /\ shown' \in Seq(Status) /\ Len(shown') = Len(shown) + Len(q)
          /\ \A i \in 1 .. Len(shown) : shown'[i] = shown[i]
          /\ \A i \in 1 .. Len(shown') : i > Len(shown) =>
                i - Len(shown) \in 1 .. Len(q) /\ shown'[i] = q[i - Len(shown)]
      <4>1. shown \in Seq(Status) /\ q \in Seq(Status) /\ shown' = shown \o q
        BY <3>1 DEF LoopInv, TypeOK
      <4>2. QED
        BY <4>1, ConcatProperties
    <3>3. QED
      BY <1>1, <1>3, <2>3, <3>1, <3>2
  <2>5. TypeOK'
    BY <1>1, <1>3, <1>6, <2>4 DEF Replan, LoopInv, TypeOK, StallKey
  <2>6. UNCHANGED <<steps, iteration, overall, mode, row>> /\ pc' = "gate" /\ pc = "replan"
    BY <1>1, <1>6 DEF Replan
  <2>7. LedgersShowTheQueue'
    <3>1. /\ Len(steps) \in Nat /\ Len(steps) <= n
          /\ \A i \in 1 .. n :
                /\ shown[i] = queue[i].status
                /\ queue[i].status = "pending" <=> i > Len(steps)
                /\ queue[i].status # "running"
          /\ \A i \in 1 .. Len(steps) :
                steps[i] = [task |-> i, call |-> queue[i].kind, on |-> queue[i].on,
                            status |-> queue[i].status]
      BY <2>3, <2>6 DEF LoopInv, LedgersShowTheQueue, TypeOK
    <3>2. \A i \in 1 .. Len(queue') : i \in 1 .. n \/ i > n
      BY <1>1, <1>3
    <3>3. \A i \in 1 .. Len(queue') : shown'[i] = queue'[i].status
      BY <1>3, <2>4, <3>1, <3>2
    <3>4. \A i \in 1 .. Len(queue') :
            (queue'[i].status = "pending" <=> i > Len(steps)) /\ queue'[i].status # "running"
      BY <1>1, <1>3, <3>1, <3>2
    <3>5. \A i \in 1 .. Len(steps) :
            steps[i] = [task |-> i, call |-> queue'[i].kind, on |-> queue'[i].on,
                        status |-> queue'[i].status]
      <4>1. \A i \in 1 .. Len(steps) : i \in 1 .. n
        BY <1>1, <3>1
      <4>2. QED
        BY <1>3, <3>1, <4>1
    <3>6. QED
      BY <1>1, <1>3, <2>4, <2>6, <3>1, <3>3, <3>4, <3>5 DEF LedgersShowTheQueue
  <2>8. Pending' # {}
    <3>1. n + 1 \in 1 .. Len(queue') /\ n + 1 > n
      BY <1>1, <1>3, <1>5
    <3>2. queue'[n + 1].status = "pending"
      BY <1>3, <3>1
    <3>3. QED
      BY <3>1, <3>2 DEF Pending
  <2>9. Phases'
    BY <2>6, <2>8 DEF LoopInv, Phases
  <2>10. NeverStalls' /\ WithinLimits'
    BY <1>1, <1>6, <2>6 DEF Replan, LoopInv, NeverStalls, WithinLimits, TypeOK
  <2>11. QED
    BY <1>3, <2>5, <2>7, <2>9, <2>10 DEF LoopInv
<1>7. CASE ReplanRaises
  <2>1. TypeOK'
    BY <1>3, <1>7 DEF ReplanRaises, LoopInv, TypeOK, Overall
  <2>2. LedgersShowTheQueue'
    BY <1>1, <1>3, <1>7 DEF ReplanRaises, LoopInv, LedgersShowTheQueue, TypeOK
  <2>3. Phases' /\ NeverStalls' /\ WithinLimits'
    BY <1>7 DEF ReplanRaises, LoopInv, NeverStalls, WithinLimits, Phases
  <2>4. QED
    BY <1>3, <2>1, <2>2, <2>3 DEF LoopInv
<1>8. QED
  BY <1>6, <1>7

\* What marking a task does.
LEMMA Marked ==
    ASSUME LoopInv, overall # "failed", NEW i \in 1 .. Len(queue), NEW status \in Status,
           Mark(i, status)
    PROVE  /\ queue' \in Seq(Task) /\ shown' \in Seq(Status)
           /\ Len(queue') = Len(queue) /\ Len(shown') = Len(queue)
           /\ \A k \in 1 .. Len(queue) :
                 /\ queue'[k].kind = queue[k].kind /\ queue'[k].on = queue[k].on
                 /\ queue'[k].status = IF k = i THEN status ELSE queue[k].status
                 /\ shown'[k] = queue'[k].status
  <1>1. /\ queue \in Seq(Task) /\ shown \in Seq(Status) /\ Len(shown) = Len(queue)
        /\ \A k \in 1 .. Len(queue) : shown[k] = queue[k].status
    BY DEF LoopInv, TypeOK, LedgersShowTheQueue
  <1>2. queue[i] \in Task
    BY <1>1, ElementOfSeq
  <1> DEFINE t == [queue[i] EXCEPT !.status = status]
  <1>3. /\ t \in Task /\ t.kind = queue[i].kind /\ t.on = queue[i].on /\ t.status = status
    BY <1>2 DEF Task
  <1>4. queue' = [queue EXCEPT ![i] = t] /\ shown' = [shown EXCEPT ![i] = status]
    BY DEF Mark
  <1> HIDE DEF t
  <1>5. /\ queue' \in Seq(Task) /\ Len(queue') = Len(queue)
        /\ \A k \in 1 .. Len(queue) : queue'[k] = IF k = i THEN t ELSE queue[k]
    BY <1>1, <1>3, <1>4, ExceptSeq
  <1>6. /\ shown' \in Seq(Status) /\ Len(shown') = Len(shown)
        /\ \A k \in 1 .. Len(shown) : shown'[k] = IF k = i THEN status ELSE shown[k]
    BY <1>1, <1>4, ExceptSeq
  <1>7. QED
    BY <1>1, <1>3, <1>5, <1>6

LEMMA ExecuteLoop == ASSUME LoopInv, Execute PROVE LoopInv'
<1> DEFINE n == Len(queue)
<1> DEFINE d == Len(steps)
<1>1. /\ n \in Nat /\ d \in Nat /\ d <= n /\ pc = "gate" /\ iteration = d /\ Pending # {}
      /\ \A k \in 1 .. n : (queue[k].status = "pending" <=> k > d) /\ queue[k].status # "running"
      /\ \A k \in 1 .. d : steps[k] = [task |-> k, call |-> queue[k].kind, on |-> queue[k].on,
                                       status |-> queue[k].status]
  BY DEF Execute, LoopInv, LedgersShowTheQueue, Phases, TypeOK
<1>2. PICK i \in Pending :
        /\ Oldest(i) /\ ~ManualDone /\ iteration < MaxIterations
        /\ Mark(i, "running")
        /\ steps' = Append(steps, [task |-> i, call |-> queue[i].kind,
                                   on |-> queue[i].on, status |-> "running"])
        /\ pc' = "execute"
        /\ UNCHANGED <<overall, stall>>
  BY <1>1 DEF Execute
<1>3. i = d + 1 /\ i \in 1 .. n
  <2>1. i \in 1 .. n /\ i > d
    BY <1>1, <1>2 DEF Pending
  <2>2. d + 1 \in Pending
    BY <1>1, <2>1 DEF Pending
  <2>3. i <= d + 1
    BY <1>2, <2>2 DEF Oldest
  <2>4. QED
    BY <1>1, <2>1, <2>3
<1>4. overall = "running" /\ overall' = "running"
  BY <1>1, <1>2 DEF LoopInv, Phases
<1>5. /\ queue' \in Seq(Task) /\ shown' \in Seq(Status) /\ Len(queue') = n /\ Len(shown') = n
      /\ \A k \in 1 .. n :
            /\ queue'[k].kind = queue[k].kind /\ queue'[k].on = queue[k].on
            /\ queue'[k].status = IF k = i THEN "running" ELSE queue[k].status
            /\ shown'[k] = queue'[k].status
  BY <1>2, <1>3, <1>4, Marked DEF Status
<1> DEFINE step == [task |-> i, call |-> queue[i].kind, on |-> queue[i].on, status |-> "running"]
<1>6. step \in Step
  <2>1. queue[i] \in Task
    BY <1>3, ElementOfSeq DEF LoopInv, TypeOK
  <2>2. QED
    BY <1>3, <2>1 DEF Task, Step, Status
<1>7. /\ steps' \in Seq(Step) /\ Len(steps') = d + 1 /\ steps'[d + 1] = step
      /\ \A k \in 1 .. d : steps'[k] = steps[k]
  <2> HIDE DEF step
  <2>1. steps \in Seq(Step) /\ steps' = Append(steps, step)
    BY <1>2 DEF LoopInv, TypeOK, step
  <2>2. QED
    BY <1>1, <1>6, <2>1
<1>8. UNCHANGED <<run, mode, metrics, satisfied, gaps, hint, iteration, row, snap>>
  BY DEF Execute
<1>9. TypeOK'
  BY <1>2, <1>5, <1>7, <1>8 DEF LoopInv, TypeOK
<1>10. LedgersShowTheQueue'
  <2>1. \A k \in 1 .. n : /\ queue'[k].status = "pending" <=> k > d + 1
                          /\ queue'[k].status = "running" => k = d + 1
    BY <1>1, <1>3, <1>5
  <2>2. \A k \in 1 .. d + 1 :
          steps'[k] = [task |-> k, call |-> queue'[k].kind, on |-> queue'[k].on,
                       status |-> queue'[k].status]
    <3>1. ASSUME NEW k \in 1 .. d
          PROVE  steps'[k] = [task |-> k, call |-> queue'[k].kind, on |-> queue'[k].on,
                              status |-> queue'[k].status]
      <4>1. k \in 1 .. n /\ k # i
        BY <1>1, <1>3, <3>1
      <4>2. QED
        BY <1>1, <1>5, <1>7, <3>1, <4>1
    <3>2. steps'[d + 1] = [task |-> d + 1, call |-> queue'[d + 1].kind, on |-> queue'[d + 1].on,
                           status |-> queue'[d + 1].status]
      BY <1>3, <1>5, <1>7
    <3>3. \A k \in 1 .. d + 1 : k \in 1 .. d \/ k = d + 1
      BY <1>1
    <3>4. QED
      BY <3>1, <3>2, <3>3
  <2>3. QED
    BY <1>1, <1>2, <1>3, <1>4, <1>5, <1>7, <2>1, <2>2 DEF LedgersShowTheQueue
<1>11. ComputesOne'
  BY <1>5 DEF LoopInv, ComputesOne
<1>12. Phases'
  BY <1>1, <1>2, <1>3, <1>4, <1>5, <1>7, <1>8 DEF Phases
<1>13. WithinLimits'
  <2>1. d + 1 <= MaxIterations
    BY <1>1, <1>2, BudgetAssumption
  <2>2. mode # "approval_required"
    BY DEF Execute
  <2>3. mode = "manual" => d = 0
    BY <1>1, <1>2 DEF ManualDone
  <2>4. QED
    BY <1>1, <1>7, <1>8, <2>1, <2>2, <2>3 DEF WithinLimits
<1>14. NeverStalls'
  BY <1>2, <1>4, <1>8 DEF LoopInv, NeverStalls
<1>15. QED
  BY <1>9, <1>10, <1>11, <1>12, <1>13, <1>14 DEF LoopInv

LEMMA AnswerLoop == ASSUME LoopInv, NEW result \in Computed, Answer(result) PROVE LoopInv'
<1> DEFINE n == Len(queue)
<1> DEFINE d == Len(steps)
<1>1. /\ n \in Nat /\ d \in Nat /\ d <= n /\ pc = "execute" /\ iteration + 1 = d
      /\ overall = "running"
      /\ \A k \in 1 .. n : /\ queue[k].status = "pending" <=> k > d
                           /\ queue[k].status = "running" => k = d
      /\ \A k \in 1 .. d : steps[k] = [task |-> k, call |-> queue[k].kind, on |-> queue[k].on,
                                       status |-> queue[k].status]
  BY DEF Answer, LoopInv, LedgersShowTheQueue, Phases, TypeOK
<1>2. iteration \in Nat /\ d \in 1 .. d /\ d \in 1 .. n
  BY <1>1 DEF LoopInv, TypeOK
<1>3. /\ steps[d] = [task |-> d, call |-> queue[d].kind, on |-> queue[d].on,
                     status |-> queue[d].status]
      /\ steps[d].task = d
  <2>1. steps[d] = [task |-> d, call |-> queue[d].kind, on |-> queue[d].on,
                    status |-> queue[d].status]
    BY <1>1, <1>2
  <2>2. QED
    BY <2>1
<1>4. Mark(d, "completed")
  BY <1>3 DEF Answer
<1>5. /\ queue' \in Seq(Task) /\ shown' \in Seq(Status) /\ Len(queue') = n /\ Len(shown') = n
      /\ \A k \in 1 .. n :
            /\ queue'[k].kind = queue[k].kind /\ queue'[k].on = queue[k].on
            /\ queue'[k].status = IF k = d THEN "completed" ELSE queue[k].status
            /\ shown'[k] = queue'[k].status
  BY <1>1, <1>2, <1>4, Marked DEF Status
<1> DEFINE step == [steps[d] EXCEPT !.status = "completed"]
<1>6. /\ step \in Step
      /\ step = [task |-> d, call |-> queue[d].kind, on |-> queue[d].on, status |-> "completed"]
  <2>1. steps[d] \in Step
    BY <1>2, ElementOfSeq DEF LoopInv, TypeOK
  <2>2. step = [task |-> d, call |-> queue[d].kind, on |-> queue[d].on, status |-> "completed"]
    BY <1>3
  <2>3. step \in Step
    BY <2>1 DEF Step, Status
  <2>4. QED
    BY <2>2, <2>3
<1>7. /\ steps' \in Seq(Step) /\ Len(steps') = d /\ steps'[d] = step
      /\ \A k \in 1 .. d : k # d => steps'[k] = steps[k]
  <2>1. steps \in Seq(Step) /\ steps' = [steps EXCEPT ![d] = step]
    BY DEF LoopInv, TypeOK, Answer
  <2> HIDE DEF step
  <2>2. QED
    BY <1>2, <1>6, <2>1, ExceptSeq
<1> DEFINE m == CHOOSE x \in queue[d].on : TRUE
<1>8. metrics' \in [Metric -> Entry] /\ satisfied' \subseteq Metric
  <2>1. CASE queue[d].kind = "compute_metric"
    <3>1. m \in Metric
      BY <1>2, <2>1 DEF LoopInv, ComputesOne
    <3>2. /\ metrics' = [metrics EXCEPT ![m] = result]
          /\ satisfied' \in {satisfied \cup {m}, satisfied \ {m}}
      BY <1>3, <2>1 DEF Answer
    <3> HIDE DEF m
    <3>3. QED
      BY <3>1, <3>2 DEF Computed, LoopInv, TypeOK
  <2>2. CASE queue[d].kind # "compute_metric"
    BY <1>3, <2>2 DEF Answer, LoopInv, TypeOK
  <2>3. QED
    BY <2>1, <2>2
<1>9. /\ UNCHANGED <<run, mode, gaps, overall, hint, iteration, stall, row, snap>>
      /\ pc' = "save"
  BY DEF Answer
<1>10. TypeOK'
  BY <1>5, <1>7, <1>8, <1>9 DEF LoopInv, TypeOK
<1>11. LedgersShowTheQueue'
  <2>1. \A k \in 1 .. n : /\ queue'[k].status = "pending" <=> k > d
                          /\ queue'[k].status # "running"
    BY <1>1, <1>2, <1>5
  <2>2. \A k \in 1 .. d : k \in 1 .. n
    BY <1>1
  <2>3. \A k \in 1 .. d :
          steps'[k] = [task |-> k, call |-> queue'[k].kind, on |-> queue'[k].on,
                       status |-> queue'[k].status]
    BY <1>1, <1>5, <1>6, <1>7, <2>2
  <2>4. QED
    BY <1>1, <1>5, <1>7, <2>1, <2>3 DEF LedgersShowTheQueue
<1>12. ComputesOne'
  BY <1>5 DEF LoopInv, ComputesOne
<1>13. Phases' /\ WithinLimits' /\ NeverStalls'
  BY <1>1, <1>7, <1>9 DEF LoopInv, Phases, WithinLimits, NeverStalls
<1>14. QED
  BY <1>10, <1>11, <1>12, <1>13 DEF LoopInv

LEMMA LoopStep == LoopInv /\ [Next]_vars => LoopInv'
<1> SUFFICES ASSUME LoopInv, [Next]_vars PROVE LoopInv'
  OBVIOUS
<1>1. CASE UNCHANGED vars
  <2>1. TypeOK' /\ NeverStalls' /\ WithinLimits' /\ ComputesOne'
    BY <1>1 DEF vars, memory, LoopInv, TypeOK, NeverStalls, WithinLimits, ComputesOne
  <2>2. LedgersShowTheQueue'
    BY <1>1 DEF vars, memory, LoopInv, LedgersShowTheQueue
  <2>3. Phases'
    BY <1>1 DEF vars, memory, LoopInv, Phases, Pending
  <2>4. QED
    BY <2>1, <2>2, <2>3 DEF LoopInv
<1>2. CASE Next
  BY <1>2, StartLoop, QuietSteps, ReplanLoop, ExecuteLoop, AnswerLoop DEF Next, Proceed
<1>3. QED
  BY <1>1, <1>2

\* The loop's invariant holds in every reachable state.
THEOREM Inductive == Spec => []LoopInv
  BY LoopInit, LoopStep, PTL DEF Spec

\* Every reachable state is well typed, whatever the engines answer.
THEOREM TypeCorrect == Spec => []TypeOK
  BY Inductive, PTL DEF LoopInv

\* Tasks are executed in the order they were planned, once each, and the
\* ledgers show it, for every goal and budget and however the call ends.
THEOREM QueueIsShown == Spec => []LedgersShowTheQueue
  BY Inductive, PTL DEF LoopInv

\* No call starts more tasks than its budget and its run mode allow.
THEOREM LimitsHold == Spec => []WithinLimits
  BY Inductive, PTL DEF LoopInv

\* The verifier finds no gap that the replanner leaves without a task, so the
\* stall counters are never raised.
THEOREM NoStall == Spec => []NeverStalls
  BY Inductive, PTL DEF LoopInv

-----------------------------------------------------------------------------
(* The goal: why tasks were planned, and what success means                *)

\* Before a plan is made, the evidence plan lists the whole diff.
DiffIsNoted ==
    pc = "replan" =>
        \A m \in Goal, reason \in Reason : m \in Diff(metrics, reason) => <<m, reason>> \in gaps

\* The goal graph looks at value and policy, not at lineage and consistency.
GraphShowsMetrics ==
    satisfied = {m \in Metric : metrics[m].value \in {"good", "outside"}
                                /\ metrics[m].policy = "passed"}

\* Only the verifier completes a run, and nothing changes afterwards.
Completed ==
    overall = "completed" =>
        /\ pc \in {"finalize", "last", "done", "dead"}
        /\ Satisfied(metrics)
        /\ \A i \in 1 .. Len(steps) : steps[i].status = "completed"

GoalInv == EveryTaskHasItsReason /\ DiffIsNoted /\ GraphShowsMetrics /\ Completed

\* No step is left half done while the loop goes on.
LEMMA StepsDone ==
    ASSUME LoopInv, pc \notin {"execute", "fail", "done", "dead"}
    PROVE  \A i \in 1 .. Len(steps) : steps[i].status = "completed"
  <1> SUFFICES ASSUME NEW i \in 1 .. Len(steps) PROVE steps[i].status = "completed"
    OBVIOUS
  <1>1. /\ steps[i] = [task |-> i, call |-> queue[i].kind, on |-> queue[i].on,
                       status |-> queue[i].status]
        /\ i \in 1 .. Len(queue) /\ queue[i].status # "running"
        /\ ~(i > Len(steps)) /\ queue[i].status # "pending"
    BY DEF LoopInv, LedgersShowTheQueue, TypeOK
  <1>2. queue[i] \in Task
    BY <1>1, ElementOfSeq DEF LoopInv, TypeOK
  <1>3. queue[i].status = "completed"
    BY <1>1, <1>2 DEF Task, Status
  <1>4. QED
    BY <1>1, <1>3

LEMMA GoalInit == Init => GoalInv
  BY DEF Init, GoalInv, EveryTaskHasItsReason, DiffIsNoted, GraphShowsMetrics, Completed, NoEntry

LEMMA GoalStep == LoopInv /\ GoalInv /\ [Next]_vars => GoalInv'
<1> SUFFICES ASSUME LoopInv, GoalInv, [Next]_vars PROVE GoalInv'
  OBVIOUS
<1>1. ASSUME NEW r \in Run, NEW m \in Mode, Start(r, m) PROVE GoalInv'
  <2>1. /\ queue' = <<NewTask("run_workflow", {}, "no")>> /\ pc' = "verify"
        /\ overall' = "running" /\ satisfied' = {} /\ metrics' = [x \in Metric |-> NoEntry]
    BY <1>1 DEF Start
  <2>2. Len(queue') = 1 /\ queue'[1].on = {}
    BY <2>1 DEF NewTask
  <2>3. EveryTaskHasItsReason'
    BY <2>2 DEF EveryTaskHasItsReason
  <2>4. DiffIsNoted' /\ GraphShowsMetrics' /\ Completed'
    BY <2>1 DEF DiffIsNoted, GraphShowsMetrics, Completed, NoEntry
  <2>5. QED
    BY <2>3, <2>4 DEF GoalInv
<1>2. CASE Verify
  <2>1. UNCHANGED <<queue, metrics, satisfied, steps>> /\ pc = "verify" /\ gaps \subseteq gaps'
    BY <1>2 DEF Verify
  <2>2. EveryTaskHasItsReason'
    BY <2>1 DEF GoalInv, EveryTaskHasItsReason
  <2>3. DiffIsNoted'
    <3> SUFFICES ASSUME pc' = "replan", NEW m \in Goal, NEW reason \in Reason,
                        m \in Diff(metrics, reason)
                 PROVE  <<m, reason>> \in gaps'
      BY <2>1 DEF DiffIsNoted
    <3>1. gaps' = gaps \cup {gap \in Goal \X Reason : gap[1] \in Diff(metrics, gap[2])}
      BY <1>2 DEF Verify
    <3>2. QED
      BY <3>1
  <2>4. GraphShowsMetrics'
    BY <2>1 DEF GoalInv, GraphShowsMetrics
  <2>5. Completed'
    <3>1. \A i \in 1 .. Len(steps) : steps[i].status = "completed"
      BY <2>1, StepsDone
    <3>2. overall' = "completed" => Satisfied(metrics) /\ pc' = "finalize"
      BY <1>2, <2>1 DEF Verify, LoopInv, Phases
    <3>3. QED
      BY <2>1, <3>1, <3>2 DEF Completed
  <2>6. QED
    BY <2>2, <2>3, <2>4, <2>5 DEF GoalInv
<1>3. CASE Replan \/ ReplanRaises
  <2>1. /\ ~Satisfied(metrics) /\ Plan(metrics) # <<>> /\ pc = "replan"
        /\ UNCHANGED <<metrics, satisfied, steps, gaps>> /\ pc' \in {"gate", "fail"}
        /\ overall' \in {"running", "failed"}
        /\ queue' = queue \o Plan(metrics)
    BY <1>3, PlanNotEmpty DEF Replan, ReplanRaises, LoopInv, Phases, Enqueue
  <2>2. /\ \A i \in 1 .. Len(queue) : queue'[i] = queue[i]
        /\ \A i \in 1 .. Len(queue') : i > Len(queue) => queue'[i] \in PlanTasks(metrics)
        /\ Len(queue') \in Nat /\ Len(queue) \in Nat
    BY <2>1, Appended DEF LoopInv, TypeOK
  <2>3. \A t \in PlanTasks(metrics) : \A m \in t.on :
          /\ t.kind = "compute_metric" => \E reason \in Reason : <<m, reason>> \in gaps
          /\ t.kind = "collect_evidence" =>
                <<m, IF t.force = "yes" THEN "policy" ELSE "lineage">> \in gaps
    <3>1. \A m \in Goal, reason \in Reason : m \in Diff(metrics, reason) => <<m, reason>> \in gaps
      BY <2>1 DEF GoalInv, DiffIsNoted
    <3>2. \A m \in Gaps(metrics) : \E reason \in Reason : <<m, reason>> \in gaps
      BY <3>1 DEF Gaps
    <3>3. \A m \in Diff(metrics, "policy") : <<m, "policy">> \in gaps
      BY <3>1 DEF Diff, Reason
    <3>4. \A m \in Diff(metrics, "lineage") : <<m, "lineage">> \in gaps
      BY <3>1 DEF Diff, Reason
    <3>5. QED
      BY <3>2, <3>3, <3>4 DEF PlanTasks, NewTask
  <2>4. EveryTaskHasItsReason'
    <3> SUFFICES ASSUME NEW i \in 1 .. Len(queue'), NEW m \in queue'[i].on
                 PROVE  /\ queue'[i].kind = "compute_metric" =>
                              \E reason \in Reason : <<m, reason>> \in gaps
                        /\ queue'[i].kind = "collect_evidence" =>
                              <<m, IF queue'[i].force = "yes" THEN "policy" ELSE "lineage">> \in gaps
      BY <2>1 DEF EveryTaskHasItsReason
    <3>1. CASE i > Len(queue)
      BY <2>2, <2>3, <3>1
    <3>2. CASE ~(i > Len(queue))
      <4>1. i \in 1 .. Len(queue)
        BY <2>2, <3>2
      <4>2. QED
        BY <2>2, <4>1 DEF GoalInv, EveryTaskHasItsReason
    <3>3. QED
      BY <3>1, <3>2
  <2>5. DiffIsNoted' /\ GraphShowsMetrics' /\ Completed'
    BY <2>1 DEF GoalInv, DiffIsNoted, GraphShowsMetrics, Completed
  <2>6. QED
    BY <2>4, <2>5 DEF GoalInv
<1>4. CASE Execute
  <2>1. Pending # {} /\ pc = "gate" /\ overall = "running"
    BY <1>4 DEF Execute, LoopInv, Phases
  <2>2. PICK i \in Pending : Mark(i, "running") /\ pc' = "execute" /\ overall' = overall
    BY <1>4, <2>1 DEF Execute
  <2>3. /\ Len(queue') = Len(queue)
        /\ \A k \in 1 .. Len(queue) :
             queue'[k].kind = queue[k].kind /\ queue'[k].on = queue[k].on
    BY <2>1, <2>2, Marked DEF Pending, Status
  <2>4. \A k \in 1 .. Len(queue) : queue'[k].force = queue[k].force
    BY <2>2 DEF Mark, LoopInv, TypeOK, Pending, Task
  <2>5. UNCHANGED <<metrics, satisfied, gaps>>
    BY <1>4 DEF Execute
  <2>6. EveryTaskHasItsReason'
    BY <2>3, <2>4, <2>5 DEF GoalInv, EveryTaskHasItsReason
  <2>7. QED
    BY <2>1, <2>2, <2>5, <2>6 DEF GoalInv, DiffIsNoted, GraphShowsMetrics, Completed
<1>5. ASSUME NEW result \in Computed, Answer(result) PROVE GoalInv'
  <2> DEFINE d == Len(steps)
  <2>1. /\ d \in 1 .. d /\ d \in 1 .. Len(queue) /\ steps[d].task = d
        /\ pc = "execute" /\ overall = "running"
    <3>1. pc = "execute" /\ overall = "running" /\ iteration + 1 = d /\ iteration \in Nat
      BY <1>5 DEF Answer, LoopInv, Phases, TypeOK
    <3>2. d \in 1 .. d /\ d \in 1 .. Len(queue)
      BY <3>1 DEF LoopInv, LedgersShowTheQueue, TypeOK
    <3>3. steps[d] = [task |-> d, call |-> queue[d].kind, on |-> queue[d].on,
                      status |-> queue[d].status]
      BY <3>2 DEF LoopInv, LedgersShowTheQueue
    <3>4. QED
      BY <3>1, <3>2, <3>3
  <2>2. Mark(d, "completed") /\ pc' = "save" /\ UNCHANGED <<gaps, overall>>
    BY <1>5, <2>1 DEF Answer
  <2>3. /\ Len(queue') = Len(queue)
        /\ \A k \in 1 .. Len(queue) :
             queue'[k].kind = queue[k].kind /\ queue'[k].on = queue[k].on
    BY <2>1, <2>2, Marked DEF Status
  <2>4. \A k \in 1 .. Len(queue) : queue'[k].force = queue[k].force
    BY <2>2 DEF Mark, LoopInv, TypeOK, Task
  <2>5. EveryTaskHasItsReason'
    BY <2>2, <2>3, <2>4 DEF GoalInv, EveryTaskHasItsReason
  <2>6. GraphShowsMetrics'
    <3> DEFINE m == CHOOSE x \in queue[d].on : TRUE
    <3>1. CASE queue[d].kind = "compute_metric"
      <4>1. m \in Metric
        BY <2>1, <3>1 DEF LoopInv, ComputesOne
      <4>2. /\ metrics' = [metrics EXCEPT ![m] = result]
            /\ satisfied' = IF result.value \in {"good", "outside"} /\ result.policy = "passed"
                            THEN satisfied \cup {m} ELSE satisfied \ {m}
        BY <1>5, <2>1, <3>1 DEF Answer
      <4> HIDE DEF m
      <4>3. QED
        BY <4>1, <4>2 DEF GoalInv, GraphShowsMetrics, LoopInv, TypeOK
    <3>2. CASE queue[d].kind # "compute_metric"
      BY <1>5, <2>1, <3>2 DEF Answer, GoalInv, GraphShowsMetrics
    <3>3. QED
      BY <3>1, <3>2
  <2>7. QED
    BY <2>1, <2>2, <2>5, <2>6 DEF GoalInv, DiffIsNoted, Completed
<1>6. CASE \/ WaitForApproval \/ PauseManual \/ StopOnBudget \/ SaveSnapshot \/ Raise
           \/ FinalizeFailed \/ FinalizeRun \/ LastSnapshot \/ Crash
  <2>1. /\ UNCHANGED <<queue, metrics, satisfied, gaps, steps>>
        /\ pc' # "replan"
        /\ overall' = overall \/ overall' # "completed"
        /\ pc \in {"finalize", "last", "done", "dead"} => pc' \in {"finalize", "last", "done", "dead"}
    BY <1>6 DEF WaitForApproval, PauseManual, StopOnBudget, Pause, SaveSnapshot, Raise,
                FinalizeFailed, FinalizeRun, LastSnapshot, Crash, memory
  <2>2. QED
    BY <2>1 DEF GoalInv, EveryTaskHasItsReason, DiffIsNoted, GraphShowsMetrics, Completed
<1>7. CASE UNCHANGED vars
  BY <1>7 DEF vars, memory, GoalInv, EveryTaskHasItsReason, DiffIsNoted, GraphShowsMetrics, Completed
<1>8. QED
  BY <1>1, <1>2, <1>3, <1>4, <1>5, <1>6, <1>7 DEF Next, Proceed

-----------------------------------------------------------------------------
(* What is stored                                                          *)

\* Rows: open from the first step to the last, then the ledger's status.
RowsFollow ==
    /\ pc # "idle" => run \in Run /\ row[run] # "absent"
    /\ pc = "idle" => run = NoRun /\ overall = "running"
    /\ pc \in {"verify", "replan", "gate", "execute", "save", "fail", "finalize"} =>
          row[run] = "open"
    /\ pc \in {"finalize", "last"} => overall \in {"completed", "incomplete"}
    /\ pc = "fail" => overall = "failed"
    /\ pc = "last" => row[run] = FinalStatus
    /\ overall = "completed" => row[run] \in {"open", "success"}
    /\ \A r \in Run : row[r] = "absent" => snap[r] = NoSnapshot

\* Between two tasks the snapshot has all steps; within one, all but the last.
SnapshotFollows ==
    /\ pc \in {"verify", "replan", "gate", "finalize", "last"} =>
          snap[run].steps = steps /\ snap[run].metrics = metrics
    /\ pc = "execute" =>
          /\ Len(snap[run].steps) = Len(steps) - 1
          /\ snap[run].metrics = metrics

StoreInv == RowsFollow /\ SnapshotFollows /\ CrashLosesOneTask /\ FinalRecordsAgree

LEMMA StoreInit == Init => StoreInv
  BY RunAssumption DEF Init, StoreInv, RowsFollow, SnapshotFollows, CrashLosesOneTask,
                       FinalRecordsAgree

\* A step that leaves the stores and the ledgers' content alone.
LEMMA StoredStays ==
    ASSUME LoopInv, StoreInv, UNCHANGED <<run, row, snap, steps, metrics>>, pc' # "done",
           run \in Run
    PROVE  CrashLosesOneTask' /\ FinalRecordsAgree'
  BY DEF StoreInv, CrashLosesOneTask, FinalRecordsAgree

LEMMA StoreStep == LoopInv /\ LoopInv' /\ GoalInv' /\ StoreInv /\ [Next]_vars => StoreInv'
<1> SUFFICES ASSUME LoopInv, LoopInv', GoalInv', StoreInv, [Next]_vars PROVE StoreInv'
  OBVIOUS
<1>0. /\ row \in [Run -> {"absent", "open", "success", "incomplete", "stalled", "failed"}]
      /\ snap \in [Run -> Snapshot]
      /\ steps \in Seq(Step) /\ metrics \in [Metric -> Entry]
  BY DEF LoopInv, TypeOK
<1>1. ASSUME NEW r \in Run, NEW m \in Mode, Start(r, m) PROVE StoreInv'
  <2>1. /\ run' = r /\ row' = [row EXCEPT ![r] = "open"] /\ snap' = snap /\ row[r] = "absent"
        /\ steps' = <<>> /\ metrics' = [x \in Metric |-> NoEntry] /\ pc' = "verify"
        /\ overall' = "running"
    BY <1>1 DEF Start
  <2>2. snap[r] = NoSnapshot
    BY <2>1 DEF StoreInv, RowsFollow
  <2>3. row'[r] = "open" /\ \A q \in Run : q # r => row'[q] = row[q]
    BY <1>0, <2>1
  <2>4. RowsFollow'
    BY <2>1, <2>3 DEF StoreInv, RowsFollow
  <2>5. SnapshotFollows' /\ CrashLosesOneTask' /\ FinalRecordsAgree'
    BY <2>1, <2>2 DEF SnapshotFollows, CrashLosesOneTask, FinalRecordsAgree, NoSnapshot
  <2>6. QED
    BY <2>4, <2>5 DEF StoreInv
<1>2. CASE Verify \/ Replan \/ ReplanRaises \/ WaitForApproval \/ PauseManual \/ StopOnBudget
  <2>1. /\ UNCHANGED <<run, row, snap, steps, metrics>>
        /\ pc \in {"verify", "replan", "gate"}
        /\ pc' \in {"replan", "gate", "finalize", "fail"}
        /\ pc' = "finalize" => overall' \in {"completed", "incomplete", "stalled"}
        /\ pc' = "fail" => overall' = "failed"
        /\ pc' # "finalize" /\ pc' # "fail" => overall' = overall
    BY <1>2 DEF Verify, Replan, ReplanRaises, StallUp, WaitForApproval, PauseManual, StopOnBudget,
                Pause
  <2>2. overall' # "stalled" /\ overall = "running"
    BY <2>1 DEF LoopInv, NeverStalls, Phases
  <2>3. RowsFollow'
    BY <2>1, <2>2 DEF StoreInv, RowsFollow
  <2>4. SnapshotFollows'
    BY <2>1 DEF StoreInv, SnapshotFollows
  <2>5. CrashLosesOneTask' /\ FinalRecordsAgree'
    BY <2>1, StoredStays DEF StoreInv, RowsFollow
  <2>6. QED
    BY <2>3, <2>4, <2>5 DEF StoreInv
<1>3. CASE Execute
  <2>1. Pending # {} /\ pc = "gate" /\ overall = "running"
    BY <1>3 DEF Execute, LoopInv, Phases
  <2>2. PICK i \in Pending :
          /\ steps' = Append(steps, [task |-> i, call |-> queue[i].kind,
                                     on |-> queue[i].on, status |-> "running"])
          /\ pc' = "execute" /\ overall' = overall
    BY <1>3, <2>1 DEF Execute
  <2>3. UNCHANGED <<run, row, snap, metrics>>
    BY <1>3 DEF Execute
  <2>4. /\ Len(steps) \in Nat /\ Len(steps') = Len(steps) + 1
        /\ \A k \in 1 .. Len(steps) : steps'[k] = steps[k]
    <3> DEFINE e == [task |-> i, call |-> queue[i].kind, on |-> queue[i].on,
                     status |-> "running"]
    <3>1. steps' = Append(steps, e)
      BY <2>2
    <3> HIDE DEF e
    <3>2. QED
      BY <1>0, <3>1
  <2>5. snap[run].steps = steps /\ snap[run].metrics = metrics
    BY <2>1 DEF StoreInv, SnapshotFollows
  <2>6. \A k \in 1 .. Len(steps) : steps[k].status = "completed"
    BY <2>1, StepsDone
  <2>7. RowsFollow'
    BY <2>1, <2>2, <2>3 DEF StoreInv, RowsFollow
  <2>8. SnapshotFollows'
    BY <2>2, <2>3, <2>4, <2>5 DEF SnapshotFollows
  <2>9. CrashLosesOneTask'
    BY <2>3, <2>4, <2>5, <2>6 DEF CrashLosesOneTask
  <2>10. FinalRecordsAgree'
    BY <2>2 DEF FinalRecordsAgree
  <2>11. QED
    BY <2>7, <2>8, <2>9, <2>10 DEF StoreInv
<1>4. ASSUME NEW result \in Computed, Answer(result) PROVE StoreInv'
  <2> DEFINE d == Len(steps)
  <2>1. /\ d \in 1 .. d /\ d \in 1 .. Len(queue) /\ d \in Nat /\ steps[d].task = d
        /\ steps[d].call = queue[d].kind /\ steps[d].on = queue[d].on
        /\ pc = "execute" /\ overall = "running"
    <3>1. pc = "execute" /\ overall = "running" /\ iteration + 1 = d /\ iteration \in Nat
      BY <1>4 DEF Answer, LoopInv, Phases, TypeOK
    <3>2. d \in 1 .. d /\ d \in 1 .. Len(queue)
      BY <3>1 DEF LoopInv, LedgersShowTheQueue, TypeOK
    <3>3. steps[d] = [task |-> d, call |-> queue[d].kind, on |-> queue[d].on,
                      status |-> queue[d].status]
      BY <3>2 DEF LoopInv, LedgersShowTheQueue
    <3>4. QED
      BY <3>1, <3>2, <3>3
  <2>2. /\ UNCHANGED <<run, row, snap, overall>> /\ pc' = "save"
        /\ steps' = [steps EXCEPT ![d].status = "completed"]
    BY <1>4 DEF Answer
  <2>3. /\ Len(steps') = d /\ \A k \in 1 .. d : k # d => steps'[k] = steps[k]
        /\ steps'[d].call = steps[d].call /\ steps'[d].on = steps[d].on
    <3> DEFINE e == [steps[d] EXCEPT !.status = "completed"]
    <3>1. steps[d] \in Step
      BY <1>0, <2>1, ElementOfSeq
    <3>2. e \in Step /\ e.call = steps[d].call /\ e.on = steps[d].on
      BY <3>1 DEF Step, Status
    <3>3. steps' = [steps EXCEPT ![d] = e]
      BY <2>2
    <3> HIDE DEF e
    <3>4. QED
      BY <1>0, <2>1, <3>2, <3>3, ExceptSeq
  <2>4. \A m \in Metric : metrics'[m] # metrics[m] =>
           queue[d].kind = "compute_metric" /\ m \in queue[d].on
    <3> DEFINE m == CHOOSE x \in queue[d].on : TRUE
    <3>1. CASE queue[d].kind = "compute_metric"
      <4>1. m \in queue[d].on
        BY <2>1, <3>1 DEF LoopInv, ComputesOne
      <4>2. metrics' = [metrics EXCEPT ![m] = result]
        BY <1>4, <2>1, <3>1 DEF Answer
      <4> HIDE DEF m
      <4>3. QED
        BY <1>0, <3>1, <4>1, <4>2
    <3>2. CASE queue[d].kind # "compute_metric"
      BY <1>4, <2>1, <3>2 DEF Answer
    <3>3. QED
      BY <3>1, <3>2
  <2>5. /\ Len(snap[run].steps) = d - 1 /\ snap[run].metrics = metrics
        /\ \A k \in 1 .. Len(snap[run].steps) :
              snap[run].steps[k] = steps[k] /\ snap[run].steps[k].status = "completed"
    BY <2>1, RunAssumption DEF StoreInv, SnapshotFollows, CrashLosesOneTask, RowsFollow
  <2>6. RowsFollow' /\ SnapshotFollows' /\ FinalRecordsAgree'
    BY <2>1, <2>2 DEF StoreInv, RowsFollow, SnapshotFollows, FinalRecordsAgree
  <2>7. CrashLosesOneTask'
    <3> DEFINE stored == snap[run].steps
    <3>1. run' = run /\ snap'[run'].steps = stored /\ snap'[run'].metrics = metrics
      BY <2>2, <2>5
    <3>2. Len(stored) = Len(steps') - 1 /\ Len(stored) < Len(steps')
      BY <2>1, <2>3, <2>5
    <3>3. \A k \in 1 .. Len(stored) :
             stored[k] = steps'[k] /\ stored[k].status = "completed"
      BY <2>1, <2>3, <2>5
    <3>4. \A m \in Metric : metrics[m] # metrics'[m] =>
             /\ steps'[Len(steps')].call = "compute_metric"
             /\ m \in steps'[Len(steps')].on
      BY <2>1, <2>3, <2>4
    <3> HIDE DEF d, stored
    <3>5. QED
      BY <3>1, <3>2, <3>3, <3>4 DEF CrashLosesOneTask, stored
  <2>8. QED
    BY <2>6, <2>7 DEF StoreInv
<1>5. CASE SaveSnapshot
  <2>1. /\ pc = "save" /\ pc' = "verify" /\ UNCHANGED <<run, row, steps, metrics, overall>>
        /\ snap' = [snap EXCEPT ![run] = Ledgers] /\ run \in Run /\ overall = "running"
    BY <1>5 DEF SaveSnapshot, StoreInv, RowsFollow, LoopInv, Phases
  <2>2. /\ snap'[run] = Ledgers /\ \A r \in Run : r # run => snap'[r] = snap[r]
    BY <1>0, <2>1
  <2>3. \A k \in 1 .. Len(steps) : steps[k].status = "completed"
    BY <2>1, StepsDone
  <2>4. RowsFollow'
    BY <2>1, <2>2 DEF StoreInv, RowsFollow
  <2>5. SnapshotFollows' /\ CrashLosesOneTask' /\ FinalRecordsAgree'
    BY <1>0, <2>1, <2>2, <2>3 DEF SnapshotFollows, CrashLosesOneTask, FinalRecordsAgree, Ledgers
  <2>6. QED
    BY <2>4, <2>5 DEF StoreInv
<1>6. CASE Raise \/ Crash
  <2>1. /\ UNCHANGED <<run, row, snap, steps, metrics>> /\ pc # "idle" /\ pc' \in {"fail", "dead"}
        /\ pc' = "fail" => /\ overall' = "failed"
                           /\ pc \in {"verify", "replan", "gate", "execute", "save"}
        /\ pc' = "dead" => overall' = overall
    BY <1>6 DEF Raise, Crash, memory
  <2>2. RowsFollow'
    BY <2>1 DEF StoreInv, RowsFollow
  <2>3. SnapshotFollows'
    BY <2>1 DEF SnapshotFollows
  <2>4. CrashLosesOneTask' /\ FinalRecordsAgree'
    BY <2>1, StoredStays DEF StoreInv, RowsFollow
  <2>5. QED
    BY <2>2, <2>3, <2>4 DEF StoreInv
<1>7. CASE FinalizeFailed
  <2>1. /\ pc = "fail" /\ pc' = "done" /\ UNCHANGED <<run, snap, steps, metrics, overall>>
        /\ row' = [row EXCEPT ![run] = "failed"] /\ run \in Run /\ overall = "failed"
    BY <1>7 DEF FinalizeFailed, StoreInv, RowsFollow, memory
  <2>2. row'[run] = "failed" /\ \A r \in Run : r # run => row'[r] = row[r]
    BY <1>0, <2>1
  <2>3. RowsFollow' /\ SnapshotFollows' /\ FinalRecordsAgree' /\ CrashLosesOneTask'
    BY <2>1, <2>2 DEF StoreInv, RowsFollow, SnapshotFollows, FinalRecordsAgree, CrashLosesOneTask
  <2>4. QED
    BY <2>3 DEF StoreInv
<1>8. CASE FinalizeRun
  <2>1. /\ pc = "finalize" /\ pc' = "last" /\ UNCHANGED <<run, snap, steps, metrics, overall>>
        /\ row' = [row EXCEPT ![run] = FinalStatus] /\ run \in Run
        /\ overall \in {"completed", "incomplete"}
    BY <1>8 DEF FinalizeRun, StoreInv, RowsFollow, memory
  <2>2. row'[run] = FinalStatus /\ \A r \in Run : r # run => row'[r] = row[r]
    BY <1>0, <2>1
  <2>3. FinalStatus' = FinalStatus /\ FinalStatus \in {"success", "incomplete"}
    BY <2>1 DEF FinalStatus
  <2>4. overall = "completed" => FinalStatus = "success"
    BY DEF FinalStatus
  <2>5. RowsFollow'
    BY <2>1, <2>2, <2>3, <2>4 DEF StoreInv, RowsFollow
  <2>6. SnapshotFollows' /\ FinalRecordsAgree' /\ CrashLosesOneTask'
    BY <2>1 DEF StoreInv, SnapshotFollows, FinalRecordsAgree, CrashLosesOneTask
  <2>7. QED
    BY <2>5, <2>6 DEF StoreInv
<1>9. CASE LastSnapshot
  <2>1. /\ pc = "last" /\ pc' = "done" /\ UNCHANGED <<run, row, steps, metrics, overall>>
        /\ snap' = [snap EXCEPT ![run] = Ledgers] /\ run \in Run
        /\ row[run] = FinalStatus /\ overall \in {"completed", "incomplete"}
    BY <1>9 DEF LastSnapshot, StoreInv, RowsFollow, memory
  <2>2. /\ snap'[run] = Ledgers /\ \A r \in Run : r # run => snap'[r] = snap[r]
        /\ Ledgers' = Ledgers
    BY <1>0, <2>1 DEF Ledgers
  <2>3. \A k \in 1 .. Len(steps) : steps[k].status = "completed"
    BY <2>1, StepsDone
  <2>4. row[run] = IF overall = "completed" THEN "success" ELSE "incomplete"
    BY <2>1 DEF FinalStatus
  <2>5. RowsFollow'
    BY <2>1, <2>2, <2>4 DEF StoreInv, RowsFollow
  <2>6. SnapshotFollows' /\ CrashLosesOneTask'
    BY <1>0, <2>1, <2>2, <2>3 DEF SnapshotFollows, CrashLosesOneTask, Ledgers
  <2>7. FinalRecordsAgree'
    <3>1. snap'[run].overall = overall
      BY <2>2 DEF Ledgers
    <3>2. QED
      BY <2>1, <2>2, <2>4, <3>1 DEF FinalRecordsAgree
  <2>8. QED
    BY <2>5, <2>6, <2>7 DEF StoreInv
<1>10. CASE UNCHANGED vars
  BY <1>10 DEF vars, memory, StoreInv, RowsFollow, SnapshotFollows, CrashLosesOneTask,
               FinalRecordsAgree, FinalStatus, Ledgers
<1>11. QED
  BY <1>1, <1>2, <1>3, <1>4, <1>5, <1>6, <1>7, <1>8, <1>9, <1>10 DEF Next, Proceed

LEMMA Success == LoopInv /\ GoalInv /\ StoreInv => SuccessIsEarned
<1> SUFFICES ASSUME LoopInv, GoalInv, StoreInv, overall = "completed"
             PROVE  /\ \A m \in Goal : metrics[m] = [value |-> "good", lineage |-> "yes",
                                                     policy |-> "passed"]
                    /\ Goal \subseteq satisfied
                    /\ \A i \in 1 .. Len(steps) : steps[i].status = "completed"
                    /\ row[run] \in {"open", "success"}
  BY DEF SuccessIsEarned
<1>1. Satisfied(metrics)
  BY DEF GoalInv, Completed
<1>2. ASSUME NEW m \in Goal
      PROVE  /\ metrics[m].value = "good" /\ metrics[m].lineage = "yes"
             /\ metrics[m].policy = "passed" /\ metrics[m] \in Entry /\ m \in Metric
  <2>1. m \in Metric /\ metrics[m] \in Entry
    BY <1>2, GoalType DEF LoopInv, TypeOK
  <2>2. /\ m \notin Diff(metrics, "missing_value") /\ m \notin Diff(metrics, "policy")
        /\ m \notin Diff(metrics, "lineage") /\ m \notin Diff(metrics, "consistency")
    BY <1>1 DEF Satisfied, Reason
  <2>3. QED
    BY <1>2, <2>1, <2>2 DEF Diff, Entry
<1>3. \A m \in Goal : metrics[m] = [value |-> "good", lineage |-> "yes", policy |-> "passed"]
  BY <1>2 DEF Entry
<1>4. Goal \subseteq satisfied
  BY <1>2 DEF GoalInv, GraphShowsMetrics
<1>5. QED
  BY <1>3, <1>4 DEF GoalInv, Completed, StoreInv, RowsFollow

\* Everything above, in every reachable state.
THEOREM AllInvariants == Spec => [](LoopInv /\ GoalInv /\ StoreInv)
<1>1. Init => LoopInv /\ GoalInv /\ StoreInv
  BY LoopInit, GoalInit, StoreInit
<1>2. (LoopInv /\ GoalInv /\ StoreInv) /\ [Next]_vars => (LoopInv /\ GoalInv /\ StoreInv)'
  BY LoopStep, GoalStep, StoreStep
<1>3. QED
  BY <1>1, <1>2, PTL DEF Spec

\* The evidence plan names the reason of every task ever planned.
THEOREM ReasonsAreNoted == Spec => []EveryTaskHasItsReason
  BY AllInvariants, PTL DEF GoalInv

\* A run ends as success only when every required metric has a value that
\* passes policy, has a lineage and is consistent, with no task half done.
THEOREM SuccessMeansSatisfied == Spec => []SuccessIsEarned
  BY AllInvariants, Success, PTL

\* Wherever the process dies, the stored snapshot lacks at most one task.
THEOREM CrashLosesAtMostOne == Spec => []CrashLosesOneTask
  BY AllInvariants, PTL DEF StoreInv

\* When a call returns without an exception, row and snapshot agree.
THEOREM RecordsAgree == Spec => []FinalRecordsAgree
  BY AllInvariants, PTL DEF StoreInv

-----------------------------------------------------------------------------
(* What a plan answers                                                     *)

\* The positions of a sequence inside a longer one: where a part of a plan ends up in the queue.
Within(part, whole) ==
    \E k \in Nat : \A i \in 1 .. Len(part) :
        k + i \in 1 .. Len(whole) /\ whole[k + i] = part[i]

LEMMA WithinConcat ==
    ASSUME NEW T, NEW a \in Seq(T), NEW b \in Seq(T)
    PROVE  Within(a, a \o b) /\ Within(b, a \o b)
  <1>1. /\ Len(a) \in Nat /\ Len(b) \in Nat /\ Len(a \o b) = Len(a) + Len(b)
        /\ \A i \in 1 .. Len(a) : (a \o b)[i] = a[i]
        /\ \A i \in 1 .. Len(b) : (a \o b)[Len(a) + i] = b[i]
    OBVIOUS
  <1>2. \A i \in 1 .. Len(a) : 0 + i \in 1 .. Len(a \o b) /\ (a \o b)[0 + i] = a[i]
    BY <1>1
  <1>3. \A i \in 1 .. Len(b) :
           Len(a) + i \in 1 .. Len(a \o b) /\ (a \o b)[Len(a) + i] = b[i]
    BY <1>1
  <1>4. QED
    BY <1>1, <1>2, <1>3 DEF Within

LEMMA WithinTransitive ==
    ASSUME NEW a, NEW b, NEW c, Within(a, b), Within(b, c)
    PROVE  Within(a, c)
  <1>1. PICK k \in Nat : \A i \in 1 .. Len(a) : k + i \in 1 .. Len(b) /\ b[k + i] = a[i]
    BY DEF Within
  <1>2. PICK j \in Nat : \A i \in 1 .. Len(b) : j + i \in 1 .. Len(c) /\ c[j + i] = b[i]
    BY DEF Within
  <1>3. PICK s \in Nat : s = j + k
    OBVIOUS
  <1>4. \A i \in 1 .. Len(a) : s + i \in 1 .. Len(c) /\ c[s + i] = a[i]
    <2>1. \A i \in 1 .. Len(a) : s + i = j + (k + i)
      BY <1>3
    <2>2. QED
      BY <1>1, <1>2, <2>1
  <1>5. QED
    BY <1>4 DEF Within

\* Every metric of a set is in the list of the set.
LEMMA ListedHas ==
    ASSUME NEW S, S \subseteq Goal, NEW m \in S
    PROVE  \E i \in 1 .. Len(Listed(S)) : Listed(S)[i] = m
  <1>1. PICK i \in 1 .. Len(Required) : Required[i] = m
    BY DEF Goal
  <1>2. i \in 1 .. 3
    BY RequiredAssumption
  <1>3. Nth(S, i) = <<m>>
    BY <1>1, <1>2, RequiredAssumption DEF Nth
  <1>4. PICK x, y, z : x = Nth(S, 1) /\ y = Nth(S, 2) /\ z = Nth(S, 3)
    OBVIOUS
  <1>5. x \in Seq(S) /\ y \in Seq(S) /\ z \in Seq(S)
    BY <1>4, NthType
  <1>6. Listed(S) = (x \o y) \o z
    BY <1>4 DEF Listed
  <1>7. x \o y \in Seq(S)
    BY <1>5
  <1>8. /\ Within(x, x \o y) /\ Within(y, x \o y)
        /\ Within(x \o y, (x \o y) \o z) /\ Within(z, (x \o y) \o z)
    BY <1>5, <1>7, WithinConcat
  <1>9. Within(x, Listed(S)) /\ Within(y, Listed(S)) /\ Within(z, Listed(S))
    BY <1>6, <1>8, WithinTransitive
  <1>10. Within(Nth(S, i), Listed(S))
    BY <1>2, <1>4, <1>9
  <1>11. PICK k \in Nat : \A j \in 1 .. Len(Nth(S, i)) :
             k + j \in 1 .. Len(Listed(S)) /\ Listed(S)[k + j] = Nth(S, i)[j]
    BY <1>10 DEF Within
  <1>12. Len(Nth(S, i)) = 1 /\ Nth(S, i)[1] = m
    BY <1>3
  <1>13. k + 1 \in 1 .. Len(Listed(S)) /\ Listed(S)[k + 1] = m
    BY <1>11, <1>12
  <1>14. QED
    BY <1>13

LEMMA ComputeHas ==
    ASSUME NEW S, S \subseteq Goal, NEW m \in S
    PROVE  /\ Compute(S) \in Seq(Task)
           /\ \E i \in 1 .. Len(Compute(S)) :
                 Compute(S)[i] = NewTask("compute_metric", {m}, "no")
  <1>1. {NewTask("compute_metric", {x}, "no") : x \in S} \subseteq Task
    BY GoalType DEF NewTask, Task, Status
  <1>2. Compute(S) \in Seq(Task) /\ Len(Compute(S)) = Len(Listed(S))
    BY <1>1, ComputeType, SeqMonotonic
  <1>3. PICK i \in 1 .. Len(Listed(S)) : Listed(S)[i] = m
    BY ListedHas
  <1>4. Compute(S)[i] = NewTask("compute_metric", {m}, "no")
    BY <1>3 DEF Compute
  <1>5. QED
    BY <1>2, <1>3, <1>4

LEMMA ComputeSeq == ASSUME NEW S, S \subseteq Goal PROVE Compute(S) \in Seq(Task)
  <1>1. {NewTask("compute_metric", {x}, "no") : x \in S} \subseteq Task
    BY GoalType DEF NewTask, Task, Status
  <1>2. QED
    BY <1>1, ComputeType, SeqMonotonic

\* Evidence first, then every metric of the set.
LEMMA CollectHas ==
    ASSUME NEW S, S \subseteq Goal, NEW force \in {"yes", "no"}
    PROVE  /\ CollectAndCompute(S, force) \in Seq(Task)
           /\ \A m \in S :
                 /\ CollectAndCompute(S, force)[1] = NewTask("collect_evidence", S, force)
                 /\ \E i \in 1 .. Len(CollectAndCompute(S, force)) :
                       i > 1 /\ CollectAndCompute(S, force)[i]
                                   = NewTask("compute_metric", {m}, "no")
  <1>1. CASE S = {}
    BY <1>1 DEF CollectAndCompute
  <1>2. CASE S # {}
    <2>1. PICK c : c = Compute(S)
      OBVIOUS
    <2>2. PICK t : t = NewTask("collect_evidence", S, force)
      OBVIOUS
    <2>3. c \in Seq(Task)
      BY <2>1, ComputeSeq
    <2>4. t \in Task
      BY <2>2, GoalType DEF NewTask, Task, Status
    <2>5. CollectAndCompute(S, force) = <<t>> \o c
      BY <1>2, <2>1, <2>2 DEF CollectAndCompute
    <2>6. /\ <<t>> \o c \in Seq(Task) /\ (<<t>> \o c)[1] = t
          /\ Len(c) \in Nat /\ Len(<<t>> \o c) = 1 + Len(c)
          /\ \A i \in 1 .. Len(c) : (<<t>> \o c)[1 + i] = c[i]
      BY <2>3, <2>4
    <2>7. ASSUME NEW m \in S
          PROVE  \E i \in 1 .. Len(<<t>> \o c) :
                    i > 1 /\ (<<t>> \o c)[i] = NewTask("compute_metric", {m}, "no")
      <3>1. PICK i \in 1 .. Len(c) : c[i] = NewTask("compute_metric", {m}, "no")
        BY <2>1, ComputeHas
      <3>2. 1 + i \in 1 .. Len(<<t>> \o c) /\ 1 + i > 1
        BY <2>6
      <3>3. (<<t>> \o c)[1 + i] = NewTask("compute_metric", {m}, "no")
        BY <2>6, <3>1
      <3>4. QED
        BY <3>2, <3>3
    <2>8. QED
      BY <2>2, <2>5, <2>6, <2>7
  <1>3. QED
    BY <1>1, <1>2

\* The five parts of a plan, each in its order.
LEMMA PlanParts ==
    ASSUME NEW table
    PROVE  /\ Within(CollectAndCompute(Diff(table, "policy"), "yes"), Plan(table))
           /\ Within(CollectAndCompute(Diff(table, "lineage"), "no"), Plan(table))
           /\ Within(Compute(Diff(table, "consistency")), Plan(table))
           /\ Within(Compute(Diff(table, "missing_metric")), Plan(table))
           /\ Within(Compute(Diff(table, "missing_value") \ Diff(table, "missing_metric")),
                     Plan(table))
  <1>1. \A reason : Diff(table, reason) \subseteq Goal
    BY DEF Diff
  <1>2. PICK a : a = CollectAndCompute(Diff(table, "policy"), "yes")
    OBVIOUS
  <1>3. PICK b : b = CollectAndCompute(Diff(table, "lineage"), "no")
    OBVIOUS
  <1>4. PICK c : c = Compute(Diff(table, "consistency"))
    OBVIOUS
  <1>5. PICK d : d = Compute(Diff(table, "missing_metric"))
    OBVIOUS
  <1>6. PICK e : e = Compute(Diff(table, "missing_value") \ Diff(table, "missing_metric"))
    OBVIOUS
  <1>7. a \in Seq(Task) /\ b \in Seq(Task)
    BY <1>1, <1>2, <1>3, CollectHas
  <1>8. c \in Seq(Task) /\ d \in Seq(Task)
    BY <1>1, <1>4, <1>5, ComputeSeq
  <1>9. e \in Seq(Task)
    <2>1. Diff(table, "missing_value") \ Diff(table, "missing_metric") \subseteq Goal
      BY <1>1
    <2>2. QED
      BY <2>1, <1>6, ComputeSeq
  <1>10. Plan(table) = ((((a \o b) \o c) \o d) \o e)
    BY <1>2, <1>3, <1>4, <1>5, <1>6 DEF Plan
  <1>11. /\ a \o b \in Seq(Task) /\ (a \o b) \o c \in Seq(Task)
         /\ ((a \o b) \o c) \o d \in Seq(Task)
    BY <1>7, <1>8
  <1>12. PICK f, g, h : f = a \o b /\ g = f \o c /\ h = g \o d
    OBVIOUS
  <1>13. f \in Seq(Task) /\ g \in Seq(Task) /\ h \in Seq(Task) /\ Plan(table) = h \o e
    BY <1>10, <1>11, <1>12
  <1>14. /\ Within(a, f) /\ Within(b, f) /\ Within(f, g) /\ Within(c, g)
         /\ Within(g, h) /\ Within(d, h)
    BY <1>7, <1>8, <1>12, <1>13, WithinConcat
  <1>15. Within(h, Plan(table)) /\ Within(e, Plan(table))
    BY <1>9, <1>13, WithinConcat
  <1>16. Within(g, Plan(table)) /\ Within(d, Plan(table))
    BY <1>14, <1>15, WithinTransitive
  <1>17. Within(f, Plan(table)) /\ Within(c, Plan(table))
    BY <1>14, <1>16, WithinTransitive
  <1>18. Within(a, Plan(table)) /\ Within(b, Plan(table))
    BY <1>14, <1>17, WithinTransitive
  <1>19. QED
    BY <1>2, <1>3, <1>4, <1>5, <1>6, <1>15, <1>16, <1>17, <1>18

\* What a plan computes and, before it, collects.
LEMMA PlanCollects ==
    ASSUME NEW table, NEW reason \in {"policy", "lineage"}, NEW m \in Diff(table, reason)
    PROVE  \E c, i \in 1 .. Len(Plan(table)) :
              /\ c < i
              /\ Plan(table)[c] = NewTask("collect_evidence", Diff(table, reason),
                                          IF reason = "policy" THEN "yes" ELSE "no")
              /\ Plan(table)[i] = NewTask("compute_metric", {m}, "no")
  <1> DEFINE force == IF reason = "policy" THEN "yes" ELSE "no"
  <1>1. Diff(table, reason) \subseteq Goal /\ force \in {"yes", "no"}
    BY DEF Diff
  <1>2. PICK a : a = CollectAndCompute(Diff(table, reason), force)
    OBVIOUS
  <1>3. Within(a, Plan(table))
    BY <1>2, PlanParts
  <1>4. PICK k \in Nat : \A i \in 1 .. Len(a) :
            k + i \in 1 .. Len(Plan(table)) /\ Plan(table)[k + i] = a[i]
    BY <1>3 DEF Within
  <1> HIDE DEF force
  <1>5. /\ a \in Seq(Task)
        /\ a[1] = NewTask("collect_evidence", Diff(table, reason), force)
    BY <1>1, <1>2, CollectHas
  <1>6. PICK i \in 1 .. Len(a) : i > 1 /\ a[i] = NewTask("compute_metric", {m}, "no")
    BY <1>1, <1>2, CollectHas
  <1>7. 1 \in 1 .. Len(a) /\ k + 1 < k + i
    BY <1>6
  <1>8. QED
    BY <1>4, <1>5, <1>6, <1>7 DEF force

LEMMA PlanComputes ==
    ASSUME NEW table, NEW m \in Gaps(table)
    PROVE  \E i \in 1 .. Len(Plan(table)) :
              Plan(table)[i] = NewTask("compute_metric", {m}, "no")
  <1>1. ASSUME NEW S, S \subseteq Goal, m \in S, Within(Compute(S), Plan(table))
        PROVE  \E i \in 1 .. Len(Plan(table)) :
                  Plan(table)[i] = NewTask("compute_metric", {m}, "no")
    <2>1. PICK i \in 1 .. Len(Compute(S)) : Compute(S)[i] = NewTask("compute_metric", {m}, "no")
      BY <1>1, ComputeHas
    <2>2. PICK k \in Nat : \A j \in 1 .. Len(Compute(S)) :
             k + j \in 1 .. Len(Plan(table)) /\ Plan(table)[k + j] = Compute(S)[j]
      BY <1>1 DEF Within
    <2>3. QED
      BY <2>1, <2>2
  <1>2. \A reason : Diff(table, reason) \subseteq Goal
    BY DEF Diff
  <1>3. \/ m \in Diff(table, "policy") \/ m \in Diff(table, "lineage")
        \/ m \in Diff(table, "consistency") \/ m \in Diff(table, "missing_metric")
        \/ m \in Diff(table, "missing_value") \ Diff(table, "missing_metric")
    BY DEF Gaps, Reason
  <1>4. CASE m \in Diff(table, "policy")
    BY <1>4, PlanCollects
  <1>5. CASE m \in Diff(table, "lineage")
    BY <1>5, PlanCollects
  <1>6. CASE m \in Diff(table, "consistency")
    BY <1>1, <1>2, <1>6, PlanParts
  <1>7. CASE m \in Diff(table, "missing_metric")
    BY <1>1, <1>2, <1>7, PlanParts
  <1>8. CASE m \in Diff(table, "missing_value") \ Diff(table, "missing_metric")
    <2>1. Diff(table, "missing_value") \ Diff(table, "missing_metric") \subseteq Goal
      BY <1>2
    <2>2. QED
      BY <1>1, <1>8, <2>1, PlanParts
  <1>9. QED
    BY <1>3, <1>4, <1>5, <1>6, <1>7, <1>8

LEMMA OnlyReplanPlans == ASSUME LoopInv, [Next]_vars, pc = "replan", pc' = "gate"
                         PROVE  ~Satisfied(metrics) /\ queue' = queue \o Plan(metrics)
  <1>1. ~Satisfied(metrics)
    BY DEF LoopInv, Phases
  <1>2. Plan(metrics) # <<>>
    BY <1>1, PlanNotEmpty
  <1>3. Replan
    BY DEF Next, Proceed, vars, memory, Verify, WaitForApproval, PauseManual, StopOnBudget, Pause, Execute,
           Answer, SaveSnapshot, FinalizeFailed, FinalizeRun, LastSnapshot, Start, Raise,
           ReplanRaises, Crash
  <1>4. QED
    BY <1>1, <1>2, <1>3 DEF Replan, Enqueue

\* A replan answers the whole diff and nothing else, for any goal, budget and answers of the
\* engines (Kernel's PlanAnswersDiff, orchestrator replan).
THEOREM PlansAnswerDiffs == Spec => PlanAnswersDiff
<1> DEFINE new == {i \in 1 .. Len(queue') : i > Len(queue)}
           Computes(i, m) == queue'[i].kind = "compute_metric" /\ m \in queue'[i].on
           Collects(i, m) == queue'[i].kind = "collect_evidence" /\ m \in queue'[i].on
           Answers ==
             /\ \A m \in Goal :
                 /\ (\E reason \in Reason : m \in Diff(metrics, reason)) =>
                       \E i \in new : Computes(i, m)
                 /\ m \in Diff(metrics, "policy") =>
                       \E c, i \in new : /\ c < i /\ Collects(c, m) /\ Computes(i, m)
                                        /\ queue'[c].force = "yes"
                 /\ m \in Diff(metrics, "lineage") =>
                       \E c, i \in new : c < i /\ Collects(c, m) /\ Computes(i, m)
             /\ \A i \in new : \A m \in queue'[i].on :
                 \E reason \in Reason : m \in Diff(metrics, reason)
<1>1. ASSUME LoopInv, [Next]_vars, pc = "replan", pc' = "gate" PROVE Answers
  <2>1. PICK p : p = Plan(metrics)
    OBVIOUS
  <2>2. PICK n \in Nat : n = Len(queue)
    BY <1>1 DEF LoopInv, TypeOK
  <2>3. queue' = queue \o Plan(metrics)
    BY <1>1, OnlyReplanPlans
  <2>4. /\ Len(p) \in Nat /\ Len(queue') = n + Len(p)
        /\ \A i \in 1 .. Len(queue') : i > n =>
              queue'[i] = p[i - n] /\ queue'[i] \in PlanTasks(metrics)
    BY <1>1, <2>1, <2>2, <2>3, Appended DEF LoopInv
  <2>5. \A i \in 1 .. Len(p) : n + i \in new /\ queue'[n + i] = p[i]
    <3>1. \A i \in 1 .. Len(p) : n + i \in 1 .. Len(queue') /\ n + i > n /\ (n + i) - n = i
      BY <2>2, <2>4
    <3>2. QED
      BY <2>2, <2>4, <3>1
  <2>6. ASSUME NEW m \in Goal, \E reason \in Reason : m \in Diff(metrics, reason)
        PROVE  \E i \in new : Computes(i, m)
    <3>1. PICK i \in 1 .. Len(p) : p[i] = NewTask("compute_metric", {m}, "no")
      BY <2>1, <2>6, PlanComputes DEF Gaps
    <3>2. n + i \in new /\ Computes(n + i, m)
      BY <2>5, <3>1 DEF NewTask
    <3> HIDE DEF new, Computes
    <3>3. QED
      BY <3>2
  <2>7. ASSUME NEW m \in Goal, NEW reason \in {"policy", "lineage"}, m \in Diff(metrics, reason)
        PROVE  \E c, i \in new :
                  /\ c < i /\ Collects(c, m) /\ Computes(i, m)
                  /\ reason = "policy" => queue'[c].force = "yes"
    <3>1. PICK c \in 1 .. Len(p), i \in 1 .. Len(p) :
            /\ c < i
            /\ p[c] = NewTask("collect_evidence", Diff(metrics, reason),
                              IF reason = "policy" THEN "yes" ELSE "no")
            /\ p[i] = NewTask("compute_metric", {m}, "no")
      <4>1. \A r \in {"policy", "lineage"} : \A x \in Diff(metrics, r) :
               \E c, i \in 1 .. Len(Plan(metrics)) :
                  /\ c < i
                  /\ Plan(metrics)[c] = NewTask("collect_evidence", Diff(metrics, r),
                                               IF r = "policy" THEN "yes" ELSE "no")
                  /\ Plan(metrics)[i] = NewTask("compute_metric", {x}, "no")
        BY PlanCollects
      <4>2. QED
        BY <2>1, <2>7, <4>1
    <3>2. n + c \in new /\ n + i \in new /\ n + c < n + i
      BY <2>5, <3>1
    <3>3. Computes(n + i, m)
      BY <2>5, <3>1 DEF NewTask
    <3>4. Collects(n + c, m) /\ (reason = "policy" => queue'[n + c].force = "yes")
      BY <2>5, <2>7, <3>1 DEF NewTask
    <3> HIDE DEF new, Computes, Collects
    <3>5. QED
      BY <3>2, <3>3, <3>4
  <2>8. ASSUME NEW i \in new, NEW m \in queue'[i].on
        PROVE  \E reason \in Reason : m \in Diff(metrics, reason)
    <3>1. queue'[i] \in PlanTasks(metrics)
      BY <2>2, <2>4
    <3>2. QED
      BY <3>1 DEF PlanTasks, NewTask, Gaps, Reason
  <2>9. QED
    <3> HIDE DEF new, Computes, Collects
    <3>1. \A m \in Goal : m \in Diff(metrics, "policy") =>
                       \E c, i \in new : /\ c < i /\ Collects(c, m) /\ Computes(i, m)
                                        /\ queue'[c].force = "yes"
      BY <2>7
    <3>2. \A m \in Goal : m \in Diff(metrics, "lineage") =>
                       \E c, i \in new : c < i /\ Collects(c, m) /\ Computes(i, m)
      BY <2>7
    <3>3. QED
      BY <2>6, <2>8, <3>1, <3>2
<1>2. LoopInv /\ [Next]_vars => [(pc = "replan" /\ pc' = "gate") => Answers]_vars
  <2> HIDE DEF Answers
  <2>1. QED
    BY <1>1
<1>3. QED
  BY <1>2, Inductive, PTL DEF Spec, PlanAnswersDiff

-----------------------------------------------------------------------------
(***************************************************************************)
(* The orchestrator of workflows, of which the kernel's first task runs    *)
(* one, and the value engine that it asks: see Workflows.                  *)
(***************************************************************************)
CONSTANTS Graph, Found, Prior, PackOnDisk, Candidates, Absent, Program, Input
VARIABLES world, cached, file, held, task, fused, workflow

W == INSTANCE Workflows WITH run <- workflow

-----------------------------------------------------------------------------
(* Least and largest numbers, and lists of lists                           *)

\* Every set of numbers that is not empty has a least one.
LEMMA LeastNumber ==
    ASSUME NEW T, T \subseteq Nat, T # {}
    PROVE  \E x \in T : \A y \in T : x <= y
<1>1. IsWellFoundedOn(OpToRel(<, Nat), Nat)
  BY NatLessThanWellFounded, Zenon
<1>2. PICK x \in T : \A y \in T : ~ (<<y, x>> \in OpToRel(<, Nat))
  BY <1>1, WFMin, Zenon
<1>3. \A y \in T : ~ (y < x)
  BY <1>2 DEF OpToRel
<1>4. x \in T
  BY <1>2
<1>5. QED
  BY <1>3, <1>4

\* Every set of numbers up to n that is not empty has a largest one: n less the least distance.
LEMMA LargestNumber ==
    ASSUME NEW n \in Nat, NEW T, T \subseteq 0 .. n, T # {}
    PROVE  \E x \in T : \A y \in T : y <= x
<1>1. PICK D : D = {n - y : y \in T}
  OBVIOUS
<1>2. D \subseteq Nat /\ D # {}
  <2>1. \A y \in T : y \in Int /\ 0 <= y /\ y <= n
    OBVIOUS
  <2>2. \A y \in T : n - y \in Nat
    BY <2>1
  <2>3. QED
    BY <1>1, <2>2
<1>3. PICK d \in D : \A e \in D : d <= e
  BY <1>2, LeastNumber
<1>4. PICK x \in T : d = n - x
  BY <1>1, <1>3
<1>5. \A y \in T : n - x <= n - y
  BY <1>1, <1>3, <1>4
<1>6. \A y \in T : y \in Int /\ x \in Int
  BY <1>4
<1>7. QED
  BY <1>4, <1>5, <1>6


\* The lists up to every one put one after another.
Flat(f, lists, k) == f = [i \in 1 .. k |-> IF i = 1 THEN lists[i] ELSE f[i - 1] \o lists[i]]

\* They can be put so for any number of lists.
LEMMA FlatExists ==
    ASSUME NEW lists, NEW n \in Nat \ {0}
    PROVE  \E f : Flat(f, lists, n)
<1>1. PICK T : T = {k \in Nat \ {0} : ~ \E f : Flat(f, lists, k)}
  OBVIOUS
<1>2. T \subseteq Nat
  BY <1>1
<1>3. SUFFICES ASSUME T # {} PROVE FALSE
  BY <1>1
<1>4. PICK k \in T : \A j \in T : k <= j
  BY <1>2, <1>3, LeastNumber
<1>5. k \in Nat \ {0} /\ ~ \E f : Flat(f, lists, k)
  BY <1>1, <1>4
<1>6. CASE k = 1
  <2>1. Flat([i \in 1 .. 1 |-> lists[i]], lists, 1)
    BY DEF Flat
  <2>2. QED
    BY <1>5, <1>6, <2>1
<1>7. CASE k # 1
  <2>1. k - 1 \in Nat \ {0} /\ ~ (k <= k - 1)
    BY <1>5, <1>7
  <2>2. PICK f : Flat(f, lists, k - 1)
    BY <1>1, <1>4, <2>1
  <2>3. PICK g : g = [i \in 1 .. k |-> IF i = k THEN f[k - 1] \o lists[k] ELSE f[i]]
    OBVIOUS
  <2>4. ASSUME NEW i \in 1 .. k
        PROVE  g[i] = IF i = 1 THEN lists[i] ELSE g[i - 1] \o lists[i]
    <3>1. CASE i = k
      <4>1. i - 1 \in 1 .. k /\ i - 1 # k /\ i # 1
        BY <1>5, <1>7, <3>1
      <4>2. g[i - 1] = f[i - 1] /\ g[i] = f[k - 1] \o lists[k]
        BY <2>3, <3>1, <4>1
      <4>3. QED
        BY <3>1, <4>1, <4>2
    <3>2. CASE i # k
      <4>1. i \in 1 .. k - 1
        BY <1>5, <3>2
      <4>2. f[i] = IF i = 1 THEN lists[i] ELSE f[i - 1] \o lists[i]
        BY <2>2, <4>1 DEF Flat
      <4>3. g[i] = f[i]
        BY <2>3, <3>2
      <4>4. i # 1 => i - 1 \in 1 .. k /\ i - 1 # k
        BY <1>5, <4>1
      <4>5. i # 1 => g[i - 1] = f[i - 1]
        BY <2>3, <4>4
      <4>6. QED
        BY <4>2, <4>3, <4>5
    <3>3. QED
      BY <3>1, <3>2
  <2>5. g = [i \in 1 .. k |-> g[i]]
    BY <2>3
  <2>6. g = [i \in 1 .. k |-> IF i = 1 THEN lists[i] ELSE g[i - 1] \o lists[i]]
    BY <2>4, <2>5
  <2>7. QED
    BY <1>5, <2>6 DEF Flat
<1>8. QED
  BY <1>6, <1>7

\* Two lists one after the other are empty only if both are.
LEMMA EmptyConcat ==
    ASSUME NEW S, NEW a \in Seq(S), NEW b \in Seq(S), a \o b = <<>>
    PROVE  a = <<>> /\ b = <<>>
<1>1. Len(a \o b) = Len(a) + Len(b) /\ Len(a) \in Nat /\ Len(b) \in Nat
  OBVIOUS
<1>2. Len(a \o b) = 0
  OBVIOUS
<1>3. QED
  BY <1>1, <1>2, EmptySeq

\* FlattenSeq is the last of them ...
LEMMA FlattenIs ==
    ASSUME NEW n \in Nat \ {0}, NEW T, NEW lists \in Seq(T), Len(lists) = n
    PROVE  \E flat : Flat(flat, lists, n) /\ W!P!FlattenSeq(lists) = flat[n]
<1>1. PICK h : h = CHOOSE f : f = [i \in 1 .. Len(lists) |->
                                      IF i = 1 THEN lists[i] ELSE f[i - 1] \o lists[i]]
  OBVIOUS
<1>2. \E f : f = [i \in 1 .. Len(lists) |-> IF i = 1 THEN lists[i] ELSE f[i - 1] \o lists[i]]
  BY FlatExists DEF Flat
<1>3. h = [i \in 1 .. Len(lists) |-> IF i = 1 THEN lists[i] ELSE h[i - 1] \o lists[i]]
  BY <1>1, <1>2
<1>4. W!P!FlattenSeq(lists) = h[Len(lists)]
  BY <1>1 DEF W!P!FlattenSeq
<1>5. QED
  BY <1>3, <1>4 DEF Flat

\* ... and each of them is a list.
LEMMA FlatLists ==
    ASSUME NEW n \in Nat \ {0}, NEW S, NEW lists \in [1 .. n -> Seq(S)], NEW flat, Flat(flat, lists, n)
    PROVE  \A i \in 1 .. n : flat[i] \in Seq(S)
<1>1. ASSUME NEW i \in 1 .. n
      PROVE  flat[i] = IF i = 1 THEN lists[i] ELSE flat[i - 1] \o lists[i]
  BY DEF Flat
<1>2. PICK T : T = {k \in 1 .. n : flat[k] \notin Seq(S)}
  OBVIOUS
<1>3. SUFFICES ASSUME T # {} PROVE FALSE
  BY <1>2
<1> T \subseteq Nat
  BY <1>2
<1>4. PICK k \in T : \A j \in T : k <= j
  BY <1>3, LeastNumber
<1>5. k \in 1 .. n /\ flat[k] \notin Seq(S) /\ lists[k] \in Seq(S)
  BY <1>2, <1>4
<1>6. k # 1
  BY <1>1, <1>5
<1>7. k - 1 \in 1 .. n /\ ~ (k <= k - 1)
  BY <1>5, <1>6
<1>8. flat[k - 1] \in Seq(S)
  BY <1>2, <1>4, <1>7
<1>9. flat[k - 1] \o lists[k] \in Seq(S)
  BY <1>5, <1>8
<1>10. QED
  BY <1>1, <1>5, <1>6, <1>9

\* Lists put one after another are empty only if each of them is.
LEMMA FlatIsEmpty ==
    ASSUME NEW n \in Nat \ {0}, NEW S, NEW lists \in [1 .. n -> Seq(S)],
           W!P!FlattenSeq(lists) = <<>>
    PROVE  \A i \in 1 .. n : lists[i] = <<>>
<1>1. lists \in Seq(Seq(S)) /\ Len(lists) = n
  OBVIOUS
<1>2. PICK flat : Flat(flat, lists, n) /\ flat[n] = <<>>
  BY <1>1, FlattenIs
<1>3. ASSUME NEW i \in 1 .. n
      PROVE  flat[i] = IF i = 1 THEN lists[i] ELSE flat[i - 1] \o lists[i]
  BY <1>2 DEF Flat
<1>4. \A i \in 1 .. n : flat[i] \in Seq(S)
  BY <1>2, FlatLists
<1>5. SUFFICES ASSUME NEW i \in 1 .. n, lists[i] # <<>> PROVE FALSE
  OBVIOUS
<1>6. PICK T : T = {k \in i .. n : flat[k] = <<>>}
  OBVIOUS
<1>7. T \subseteq Nat /\ n \in T
  BY <1>2, <1>6
<1>8. PICK k \in T : \A j \in T : k <= j
  BY <1>7, LeastNumber
<1>9. k \in i .. n /\ k \in 1 .. n /\ flat[k] = <<>>
  BY <1>6, <1>8
<1>10. CASE k = 1
  BY <1>3, <1>5, <1>9, <1>10
<1>11. CASE k # 1
  <2>0. k - 1 \in 1 .. n
    BY <1>9, <1>11
  <2>1. flat[k] = flat[k - 1] \o lists[k] /\ k - 1 \in 1 .. n
    BY <1>3, <1>9, <1>11, <2>0
  <2>2. flat[k - 1] \in Seq(S) /\ lists[k] \in Seq(S)
    BY <1>4, <1>9, <2>1
  <2>3. flat[k - 1] = <<>> /\ lists[k] = <<>>
    BY <1>9, <2>1, <2>2, EmptyConcat
  <2>4. k # i
    BY <1>5, <2>3
  <2>5. k - 1 \in i .. n /\ ~ (k <= k - 1)
    BY <1>9, <2>4
  <2>6. QED
    BY <1>6, <1>8, <2>3, <2>5
<1>12. QED
  BY <1>10, <1>11

-----------------------------------------------------------------------------
(* Policies: gates                                                         *)

\* What gates suggest.
Action == {"fetch_more_evidence", "refetch_with_allowed_tiers", "refetch_without_web",
           "fetch_official_sources", "refetch_recent_evidence", "improve_evidence_or_methods",
           "fetch_more_direct_evidence", "reduce_uncertainty", "rerun_without_prior",
           "increase_evidence_share", "rerun_with_allowed_prior_types", "run_additional_method",
           "compute_convergence_ratio", "refine_or_fuse_methods"}

LEMMA ActionLists == <<>> \in Seq(Action) /\ \A a \in Action : <<a>> \in Seq(Action)
  OBVIOUS

LEMMA WhenList == ASSUME NEW a \in Action PROVE \A c : W!P!When(c, a) \in Seq(Action)
  BY ActionLists, Zenon DEF W!P!When

LEMMA WhenNot == ASSUME NEW c, NEW a, W!P!When(c, a) = <<>> PROVE ~c
<1>1. <<a>> # <<>>
  OBVIOUS
<1>2. QED
  BY <1>1, Zenon DEF W!P!When

\* Every gate answers a list.
LEMMA GateList ==
    ASSUME NEW g, NEW policy, NEW ev, NEW e
    PROVE  W!P!RunGate(g, policy, ev, e) \in Seq(Action)
<1>1. W!P!GateMinSources(policy, ev, e) \in Seq(Action)
  BY WhenList, Zenon DEF Action, W!P!GateMinSources
<1>2. W!P!GateOfficial(policy, ev, e) \in Seq(Action)
  <2>1. PICK a \in Seq(Action) :
            a = W!P!When(~(ev.tiers \subseteq policy.evidence.tiers), "refetch_with_allowed_tiers")
    BY WhenList, Zenon DEF Action
  <2>2. PICK b \in Seq(Action) :
            b = W!P!When(~policy.evidence.allow_web /\ "web" \in ev.tiers, "refetch_without_web")
    BY WhenList, Zenon DEF Action
  <2>3. PICK c \in Seq(Action) :
            c = W!P!When(policy.evidence.require_official /\ "official" \notin ev.tiers,
                         "fetch_official_sources")
    BY WhenList, Zenon DEF Action
  <2>4. W!P!GateOfficial(policy, ev, e) = a \o b \o c
    BY <2>1, <2>2, <2>3, Zenon DEF W!P!GateOfficial
  <2>5. QED
    BY <2>4
<1>3. W!P!GateMaxAge(policy, ev, e) \in Seq(Action)
  BY WhenList, Zenon DEF Action, W!P!GateMaxAge
<1>4. W!P!GateConfidence(policy, ev, e) \in Seq(Action)
  BY WhenList, Zenon DEF Action, W!P!GateConfidence
<1>5. W!P!GateLiteral(policy, ev, e) \in Seq(Action)
  BY WhenList, Zenon DEF Action, W!P!GateLiteral
<1>6. W!P!GateSpread(policy, ev, e) \in Seq(Action)
  BY WhenList, Zenon DEF Action, W!P!GateSpread
<1>7. W!P!GatePrior(policy, ev, e) \in Seq(Action)
  <2>1. PICK a \in Seq(Action) :
            a = W!P!When(e.prior > policy.prior.ratio, "increase_evidence_share")
    BY WhenList, Zenon DEF Action
  <2>2. PICK b \in Seq(Action) :
            b = W!P!When(~(e.priors \subseteq policy.prior.types), "rerun_with_allowed_prior_types")
    BY WhenList, Zenon DEF Action
  <2>3. PICK c \in Seq(Action) :
            c = W!P!When(e.prior > 0 \/ e.priors # {}, "rerun_without_prior")
    BY WhenList, Zenon DEF Action
  <2>4. W!P!GatePrior(policy, ev, e) = IF ~policy.prior.allow THEN c ELSE a \o b
    BY <2>1, <2>2, <2>3, Zenon DEF W!P!GatePrior
  <2>5. QED
    BY <2>4
<1>8. W!P!GateConvergence(policy, ev, e) \in Seq(Action)
  <2>1. \A c : W!P!When(c, "refine_or_fuse_methods") \in Seq(Action)
    BY WhenList, Zenon DEF Action
  <2>2. /\ <<"run_additional_method">> \in Seq(Action) /\ <<"compute_convergence_ratio">> \in Seq(Action)
        /\ <<>> \in Seq(Action)
    BY ActionLists DEF Action
  <2>3. QED
    BY <2>1, <2>2, Zenon DEF W!P!GateConvergence
<1>9. <<>> \in Seq(Action)
  OBVIOUS
<1>10. QED
  BY <1>1, <1>2, <1>3, <1>4, <1>5, <1>6, <1>7, <1>8, <1>9, Zenon DEF W!P!RunGate

\* What passes the gates of a policy passes each of them.
LEMMA GatesArePassed ==
    ASSUME NEW policy, NEW ev, NEW e, policy.gates \in Seq(W!P!DefaultGates),
           W!P!EvaluateMetric(policy, ev, e) = <<>>,
           NEW i \in 1 .. Len(policy.gates)
    PROVE  W!P!RunGate(policy.gates[i], policy, ev, e) = <<>>
<1>1. PICK n \in Nat : n = Len(policy.gates) /\ DOMAIN policy.gates = 1 .. n
  OBVIOUS
<1>2. n # 0 /\ i \in 1 .. n
  BY <1>1
<1>3. PICK lists : lists = [j \in 1 .. n |-> W!P!RunGate(policy.gates[j], policy, ev, e)]
  OBVIOUS
<1>4. lists \in [1 .. n -> Seq(Action)]
  BY <1>3, GateList
<1>5. W!P!FlattenSeq(lists) = <<>>
  BY <1>1, <1>3, Zenon DEF W!P!EvaluateMetric
<1>6. lists[i] = <<>>
  BY <1>2, <1>4, <1>5, FlatIsEmpty
<1>7. QED
  BY <1>2, <1>3, <1>6

\* What passes the gate of priors under a policy that allows no more than a share of them ...
LEMMA NoPriorPasses ==
    ASSUME NEW policy, NEW ev, NEW e, policy.prior.ratio \in Nat, e.prior \in {0, 100},
           W!P!RunGate("prior_ratio", policy, ev, e) = <<>>
    PROVE  e.prior = 0 \/ policy.prior.ratio >= 100
<1>1. W!P!GatePrior(policy, ev, e) = <<>>
  BY Zenon DEF W!P!RunGate
<1>2. PICK allow : allow = policy.prior.allow
  OBVIOUS
<1>3. CASE ~allow
  <2>1. W!P!When(e.prior > 0 \/ e.priors # {}, "rerun_without_prior") = <<>>
    BY <1>1, <1>2, <1>3, Zenon DEF W!P!GatePrior
  <2>2. ~(e.prior > 0)
    BY <2>1, WhenNot
  <2>3. QED
    BY <2>2
<1>4. CASE allow
  <2>1. PICK a \in Seq(Action) :
            a = W!P!When(e.prior > policy.prior.ratio, "increase_evidence_share")
    BY WhenList, Zenon DEF Action
  <2>2. PICK b \in Seq(Action) :
            b = W!P!When(~(e.priors \subseteq policy.prior.types), "rerun_with_allowed_prior_types")
    BY WhenList, Zenon DEF Action
  <2>3. a \o b = <<>>
    BY <1>1, <1>2, <1>4, <2>1, <2>2, Zenon DEF W!P!GatePrior
  <2>4. ~(e.prior > policy.prior.ratio)
    BY <2>1, <2>3, EmptyConcat, WhenNot
  <2>5. QED
    BY <2>4
<1>5. QED
  BY <1>3, <1>4

\* ... and the gate of sources under one that asks for any.
LEMMA SourcesPass ==
    ASSUME NEW policy, NEW b, NEW e, policy.evidence.min_sources \in Nat \ {0},
           W!P!RunGate("min_sources", policy, W!Summary(b), e) = <<>>
    PROVE  b # <<>>
<1>1. W!P!When(W!Summary(b).sources < policy.evidence.min_sources, "fetch_more_evidence") = <<>>
  BY Zenon DEF W!P!RunGate, W!P!GateMinSources
<1>2. ~(W!Summary(b).sources < policy.evidence.min_sources)
  BY <1>1, WhenNot
<1>3. ASSUME b = <<>> PROVE W!Summary(b).sources = 0
  <2>1. {b[i].source : i \in DOMAIN b} = {}
    BY <1>3
  <2>2. W!Cardinality({}) = Cardinality({})
    BY DEF W!Cardinality, Cardinality
  <2>3. W!Summary(b).sources = W!Cardinality({})
    BY <2>1 DEF W!Summary
  <2>4. QED
    BY <2>2, <2>3, FS_EmptySet
<1>4. QED
  BY <1>2, <1>3

-----------------------------------------------------------------------------
(* MetricValues: evidence                                                  *)

\* The best record of evidence is one of it.
LEMMA BestIsListed ==
    ASSUME NEW b, NEW S, b \in Seq(S), b # <<>>,
           \A i \in DOMAIN b : b[i].confidence \in 0 .. 100
    PROVE  \E i \in DOMAIN b : W!BestRecord(b) = b[i]
<1>1. PICK C : C = {b[i].confidence : i \in DOMAIN b}
  OBVIOUS
<1>2. DOMAIN b # {}
  OBVIOUS
<1>3. C # {} /\ C \subseteq 0 .. 100
  BY <1>1, <1>2
<1>4. PICK c \in C : \A d \in C : d <= c
  BY <1>3, LargestNumber
<1>5. PICK best : best = {i \in DOMAIN b : \A j \in DOMAIN b : b[j].confidence <= b[i].confidence}
  OBVIOUS
<1>6. best # {} /\ best \subseteq DOMAIN b
  BY <1>1, <1>4, <1>5
<1>7. best \subseteq Nat
  BY <1>6
<1>8. PICK x \in best : \A y \in best : x <= y
  BY <1>6, <1>7, LeastNumber
<1>9. W!MinOf(best) \in best
  BY <1>8 DEF W!MinOf
<1>10. W!BestRecord(b) = b[W!MinOf(best)]
  BY <1>5 DEF W!BestRecord
<1>11. QED
  BY <1>6, <1>9, <1>10

-----------------------------------------------------------------------------
(* MetricValues: a value and where it comes from                           *)

\* A value of a metric: where it comes from the graph it is the graph's, and it is a prior only
\* where evidence and graph have none and the policy allows one.
LEMMA ValueIsBacked ==
    ASSUME NEW m, NEW b, NEW g, NEW policy, NEW p, NEW r, r = W!ValueOf(m, b, g, policy, p)
    PROVE  /\ r.method \in {"r_graph_aggregation", "derived_calculation"} =>
                 r.value = W!GraphValue(m, g).value
           /\ r.prior > 0 => /\ b = <<>> /\ W!GraphValue(m, g).value = Absent
                             /\ policy.prior.allow
<1>1. PICK e : e = W!EvidenceValue(m, b)
  OBVIOUS
<1>2. e.method = "evidence_direct" /\ e.prior = 0
  BY <1>1 DEF W!EvidenceValue, W!Valued
<1>3. PICK v : v = W!GraphValue(m, g)
  OBVIOUS
<1>4. v.prior = 0 /\ DOMAIN v = {"metric", "value", "method", "status", "literal", "spread",
                                 "confidence", "prior", "kind", "decision"}
  BY <1>3 DEF W!GraphValue, W!Valued
<1>5. PICK d : d = W!Decision(policy, p)
  OBVIOUS
<1>6. d.adopted => policy.prior.allow
  BY <1>5 DEF W!Decision
<1>7. PICK q : q = W!PriorValue(m, p, d)
  OBVIOUS
<1>8. q.method = "belief_engine"
  BY <1>7 DEF W!PriorValue, W!Valued
<1>9. PICK u : u = [v EXCEPT !.decision = d]
  OBVIOUS
<1>10. u.method = v.method /\ u.value = v.value /\ u.prior = 0
  BY <1>4, <1>9
<1>11. r = IF b # <<>> THEN e ELSE IF v.value # Absent THEN v ELSE IF d.adopted THEN q ELSE u
  BY <1>1, <1>3, <1>5, <1>7, <1>9 DEF W!ValueOf
<1>12. QED
  BY <1>2, <1>3, <1>4, <1>6, <1>8, <1>10, <1>11

\* A value is a prior altogether or not at all.
LEMMA PriorIsWhole ==
    ASSUME NEW m, NEW b, NEW g, NEW policy, NEW p
    PROVE  W!ValueOf(m, b, g, policy, p).prior \in {0, 100}
<1>1. W!EvidenceValue(m, b).prior = 0
  BY DEF W!EvidenceValue, W!Valued
<1>2. PICK v : v = W!GraphValue(m, g)
  OBVIOUS
<1>3. v.prior = 0 /\ "prior" \in DOMAIN v
  BY <1>2 DEF W!GraphValue, W!Valued
<1>4. PICK d : d = W!Decision(policy, p)
  OBVIOUS
<1>5. W!PriorValue(m, p, d).prior = 100
  BY DEF W!PriorValue, W!Valued
<1>6. [v EXCEPT !.decision = d].prior = 0
  BY <1>3
<1>7. QED
  BY <1>1, <1>2, <1>3, <1>4, <1>5, <1>6 DEF W!ValueOf

\* A metric that nothing values, not even a prior, is given the decision against one.
LEMMA DecisionIsGiven ==
    ASSUME NEW m, NEW g, NEW policy, NEW p, W!Decision(policy, p) # Absent,
           NEW r, r = W!ValueOf(m, <<>>, g, policy, p), r.value = Absent, r.prior = 0
    PROVE  /\ r.decision # Absent /\ ~r.decision.adopted
           /\ r.decision.reason # "evidence_and_fallback_failed"
<1>1. PICK v : v = W!GraphValue(m, g)
  OBVIOUS
<1>2. v.prior = 0 /\ {"prior", "decision", "value"} \subseteq DOMAIN v
  BY <1>1 DEF W!GraphValue, W!Valued
<1>3. PICK d : d = W!Decision(policy, p)
  OBVIOUS
<1>4. d # Absent /\ (d.adopted <=> d.reason = "evidence_and_fallback_failed")
  BY <1>3 DEF W!Decision
<1>5. PICK q : q = W!PriorValue(m, p, d)
  OBVIOUS
<1>6. q.prior = 100
  BY <1>5 DEF W!PriorValue, W!Valued
<1>7. r = IF v.value # Absent THEN v ELSE IF d.adopted THEN q ELSE [v EXCEPT !.decision = d]
  BY <1>1, <1>3, <1>5 DEF W!ValueOf
<1>8. r = [v EXCEPT !.decision = d] /\ ~d.adopted
  BY <1>6, <1>7
<1>9. r.decision = d
  BY <1>2, <1>8
<1>10. QED
  BY <1>4, <1>8, <1>9

\* Evidence is where a value comes from that has any.
LEMMA EvidenceIsFirst ==
    ASSUME NEW m, NEW S, NEW b \in Seq(S), b # <<>>, \A i \in DOMAIN b : b[i].confidence \in 0 .. 100,
           NEW g, NEW policy, NEW p, NEW r, r = W!ValueOf(m, b, g, policy, p)
    PROVE  /\ r.method = "evidence_direct"
           /\ \E i \in DOMAIN b :
                 r.value = IF b[i].value = Absent THEN Absent ELSE <<b[i].value, 1>>
<1>1. r = W!EvidenceValue(m, b)
  BY DEF W!ValueOf
<1>2. PICK i \in DOMAIN b : W!BestRecord(b) = b[i]
  BY BestIsListed
<1>3. PICK v : v = IF b[i].value = Absent THEN Absent ELSE <<b[i].value, 1>>
  OBVIOUS
<1>4. PICK e : e = W!Valued(m, v, "evidence_direct", "ok")
  OBVIOUS
<1>5. /\ e.method = "evidence_direct" /\ e.value = v
      /\ DOMAIN e = {"metric", "value", "method", "status", "literal", "spread",
                     "confidence", "prior", "kind", "decision"}
  BY <1>4 DEF W!Valued
<1>6. PICK literal : literal = W!Literal(b)
  OBVIOUS
<1>7. PICK spread : spread = W!Spread(b)
  OBVIOUS
<1>8. r = [e EXCEPT !.literal = literal, !.spread = spread, !.confidence = b[i].confidence]
  BY <1>1, <1>2, <1>3, <1>4, <1>6, <1>7, Zenon DEF W!EvidenceValue
<1>9. r.method = "evidence_direct" /\ r.value = v
  BY <1>5, <1>8
<1>10. QED
  BY <1>3, <1>9

-----------------------------------------------------------------------------
(* MetricValues: the task                                                  *)

\* What a task knows at every stage.
Known(stage) ==
    CASE stage = "idle"      -> {"at"}
      [] stage = "collected" -> {"at", "metric", "policy", "first"}
      [] stage = "ready"     -> {"at", "metric", "policy", "first", "graph"}
      [] stage = "valued"    -> {"at", "metric", "policy", "first", "graph", "second", "lost",
                                 "disk", "record"}
      [] stage = "judged"    -> {"at", "metric", "policy", "first", "graph", "second", "lost",
                                 "disk", "record", "passed"}

\* The record of a task is the value of its metric by the second collection, its snapshot and the
\* policy of the pack that was on the disk; and it passed what the gates of the pack in memory
\* say of that record and of the first collection.
TaskInv ==
    /\ file \in PackOnDisk /\ held \in PackOnDisk
    /\ \A m \in Metric : cached[m] = Absent \/ cached[m] \in Found
    /\ DOMAIN cached = Metric
    /\ task.at \in W!TaskStage /\ DOMAIN task = Known(task.at)
    /\ task.at # "idle" => task.metric \in Metric /\ task.policy \in W!PolicyId /\ task.first \in Found
    /\ W!HasValue =>
        /\ task.disk \in PackOnDisk /\ task.second \in Found \cup {<<>>}
        /\ \E p \in Prior : task.record = W!ValueOf(task.metric, task.second, task.graph,
                                                   W!P!Compile(task.disk, task.policy), p)
    /\ task.at = "judged" =>
        (task.passed <=> W!P!EvaluateMetric(W!P!Compile(held, task.policy), W!Summary(task.first),
                                            W!Eval(task.record)) = <<>>)

LEMMA TaskInit == ASSUME W!ValueAssumption, W!ValueInit PROVE TaskInv
<1>1. task.at = "idle" /\ DOMAIN task = {"at"}
  BY DEF W!ValueInit, W!NoTask
<1>2. file \in PackOnDisk /\ held \in PackOnDisk
  BY DEF W!ValueInit, W!ValueAssumption
<1>3. \A m \in Metric : cached[m] = Absent
  BY DEF W!ValueInit
<1>4. DOMAIN cached = Metric
  BY DEF W!ValueInit
<1>5. QED
  BY <1>1, <1>2, <1>3, <1>4 DEF TaskInv, Known, W!TaskStage, W!HasValue

\* A task that gets further keeps what it knew.
LEMMA FurtherKeeps ==
    ASSUME NEW stage, NEW more, W!Further(stage, more), "at" \notin DOMAIN more, "at" \in DOMAIN task
    PROVE  /\ DOMAIN task' = DOMAIN task \cup DOMAIN more /\ task'.at = stage
           /\ \A x \in DOMAIN more : task'[x] = more[x]
           /\ \A x \in DOMAIN task : x # "at" /\ x \notin DOMAIN more => task'[x] = task[x]
BY DEF W!Further

\* What others do leaves the task and the pack in memory alone.
LEMMA OthersKeep ==
    ASSUME TaskInv, file' \in PackOnDisk, DOMAIN cached' = Metric,
           \A m \in Metric : cached'[m] = Absent \/ cached'[m] \in Found,
           held' = held, task' = task
    PROVE  TaskInv'
BY DEF TaskInv, W!HasValue

\* Evidence that is cached is evidence.
LEMMA KeepsCache ==
    ASSUME TaskInv, NEW m \in Metric, NEW b \in Found, W!Keep(m, b)
    PROVE  DOMAIN cached' = Metric /\ \A x \in Metric : cached'[x] = Absent \/ cached'[x] \in Found
BY DEF TaskInv, W!Keep

\* What is fetched is evidence.
LEMMA FetchedIsFound ==
    ASSUME TaskInv, NEW m \in Metric, NEW b, W!Fetched(m, b), b \in Found
    PROVE  cached[m] # Absent => b = cached[m]
BY DEF W!Fetched

LEMMA CollectStep ==
    ASSUME W!ValueAssumption, TaskInv, NEW m \in Metric, NEW id \in W!PolicyId, W!Collect(m, id)
    PROVE  TaskInv'
<1>1. PICK b \in Found :
        W!Keep(m, b) /\ task' = [at |-> "collected", metric |-> m, policy |-> id, first |-> b]
  BY DEF W!Collect
<1>2. DOMAIN cached' = Metric /\ \A x \in Metric : cached'[x] = Absent \/ cached'[x] \in Found
  BY <1>1, KeepsCache
<1>3. file' = file /\ held' = held
  BY DEF W!Collect
<1>4. /\ DOMAIN task' = {"at", "metric", "policy", "first"} /\ task'.at = "collected"
      /\ task'.metric = m /\ task'.policy = id /\ task'.first = b
  BY <1>1
<1>5. file \in PackOnDisk /\ held \in PackOnDisk
  BY DEF TaskInv
<1>6. QED
  BY <1>1, <1>2, <1>3, <1>4, <1>5 DEF TaskInv, Known, W!TaskStage, W!HasValue, W!PolicyId

LEMMA TakeSnapshotStep ==
    ASSUME W!ValueAssumption, TaskInv, W!TakeSnapshot
    PROVE  TaskInv'
<1>1. PICK more : more = [graph |-> world]
  OBVIOUS
<1>2. DOMAIN more = {"graph"}
  BY <1>1
<1>3. W!Further("ready", more) /\ task.at = "collected"
  BY <1>1 DEF W!TakeSnapshot
<1>4. DOMAIN task = {"at", "metric", "policy", "first"}
  BY <1>3 DEF TaskInv, Known
<1>5. /\ DOMAIN task' = {"at", "metric", "policy", "first", "graph"} /\ task'.at = "ready"
      /\ task'.metric = task.metric /\ task'.policy = task.policy /\ task'.first = task.first
  BY <1>2, <1>3, <1>4, FurtherKeeps
<1>6. UNCHANGED <<cached, file, held>>
  BY DEF W!TakeSnapshot
<1>7. task.metric \in Metric /\ task.policy \in W!PolicyId /\ task.first \in Found
  BY <1>3 DEF TaskInv
<1>8. DOMAIN task' = Known("ready") /\ "ready" \in W!TaskStage
  BY <1>5 DEF Known, W!TaskStage
<1>9. ~W!HasValue'
  BY <1>5 DEF W!HasValue
<1>10. /\ file \in PackOnDisk /\ held \in PackOnDisk
       /\ \A m \in Metric : cached[m] = Absent \/ cached[m] \in Found
       /\ DOMAIN cached = Metric
  BY DEF TaskInv
<1>11. QED
  BY <1>5, <1>6, <1>7, <1>8, <1>9, <1>10 DEF TaskInv, W!PolicyId

\* The engine values the metric by what it collected.
LEMMA EvaluatedStep ==
    ASSUME W!ValueAssumption, TaskInv, task.at = "ready", NEW b \in Found \cup {<<>>}, NEW lost,
           W!Evaluated(b, lost), DOMAIN cached' = Metric,
           \A m \in Metric : cached'[m] = Absent \/ cached'[m] \in Found,
           file' = file, held' = held
    PROVE  TaskInv' /\ task'.second = b /\ task'.lost = lost
<1>0. PICK p \in Prior :
        \E record, more :
            /\ record = W!ValueOf(task.metric, b, task.graph, W!P!Compile(file, task.policy), p)
            /\ more = [second |-> b, lost |-> lost, disk |-> file, record |-> record]
            /\ W!Further("valued", more)
  BY DEF W!Evaluated
<1>1. PICK record, more :
        /\ record = W!ValueOf(task.metric, b, task.graph, W!P!Compile(file, task.policy), p)
        /\ more = [second |-> b, lost |-> lost, disk |-> file, record |-> record]
        /\ W!Further("valued", more)
  BY <1>0
<1>2. /\ DOMAIN more = {"second", "lost", "disk", "record"} /\ more.second = b /\ more.lost = lost
      /\ more.disk = file /\ more.record = record
  BY <1>1
<1>3. DOMAIN task = {"at", "metric", "policy", "first", "graph"}
  BY DEF TaskInv, Known
<1>4. /\ DOMAIN task' = DOMAIN task \cup DOMAIN more /\ task'.at = "valued"
      /\ \A x \in DOMAIN more : task'[x] = more[x]
      /\ \A x \in DOMAIN task : x # "at" /\ x \notin DOMAIN more => task'[x] = task[x]
  <2>1. "at" \notin DOMAIN more /\ "at" \in DOMAIN task
    BY <1>2, <1>3
  <2>2. QED
    BY <1>1, <2>1, FurtherKeeps
<1>5. /\ DOMAIN task' = {"at", "metric", "policy", "first", "graph", "second", "lost", "disk", "record"}
      /\ task'.at = "valued" /\ task'.second = b /\ task'.lost = lost /\ task'.disk = file
      /\ task'.record = record
      /\ task'.metric = task.metric /\ task'.policy = task.policy /\ task'.first = task.first
      /\ task'.graph = task.graph
  BY <1>2, <1>3, <1>4
<1>6. /\ task.metric \in Metric /\ task.policy \in W!PolicyId /\ task.first \in Found
      /\ file \in PackOnDisk /\ held \in PackOnDisk
  BY DEF TaskInv
<1>7. DOMAIN task' = Known("valued") /\ "valued" \in W!TaskStage
  BY <1>5 DEF Known, W!TaskStage
<1>8. task'.record = W!ValueOf(task'.metric, task'.second, task'.graph,
                               W!P!Compile(task'.disk, task'.policy), p)
  BY <1>1, <1>5
<1>9. QED
  BY <1>1, <1>5, <1>6, <1>7, <1>8 DEF TaskInv, W!PolicyId

LEMMA EvaluateMetricStep ==
    ASSUME W!ValueAssumption, TaskInv, W!EvaluateMetric
    PROVE  TaskInv' /\ (~task'.lost /\ cached[task.metric] # Absent => task'.second = cached[task.metric])
<1>1. task.at = "ready" /\ file' = file /\ held' = held
  BY DEF W!EvaluateMetric
<1>2. task.metric \in Metric
  BY <1>1 DEF TaskInv
<1>3. CASE \E b \in Found : W!Fetched(task.metric, b) /\ W!Keep(task.metric, b) /\ W!Evaluated(b, FALSE)
  <2>1. PICK b \in Found :
            W!Fetched(task.metric, b) /\ W!Keep(task.metric, b) /\ W!Evaluated(b, FALSE)
    BY <1>3
  <2>2. DOMAIN cached' = Metric /\ \A x \in Metric : cached'[x] = Absent \/ cached'[x] \in Found
    BY <1>2, <2>1, KeepsCache
  <2>3. TaskInv' /\ task'.second = b
    BY <1>1, <2>1, <2>2, EvaluatedStep
  <2>4. cached[task.metric] # Absent => b = cached[task.metric]
    BY <1>2, <2>1, FetchedIsFound
  <2>5. QED
    BY <2>3, <2>4
<1>4. CASE W!Evaluated(<<>>, TRUE) /\ UNCHANGED cached
  <2>1. DOMAIN cached' = Metric /\ \A x \in Metric : cached'[x] = Absent \/ cached'[x] \in Found
    BY <1>4 DEF TaskInv
  <2>2. TaskInv' /\ task'.lost = TRUE
    BY <1>1, <1>4, <2>1, EvaluatedStep
  <2>3. QED
    BY <2>2
<1>5. QED
  BY <1>3, <1>4 DEF W!EvaluateMetric

LEMMA JudgeStep ==
    ASSUME W!ValueAssumption, TaskInv, W!Judge
    PROVE  TaskInv'
<1>1. PICK passed, more :
        /\ passed = (W!P!EvaluateMetric(W!P!Compile(held, task.policy), W!Summary(task.first),
                                        W!Eval(task.record)) = <<>>)
        /\ more = [passed |-> passed]
        /\ W!Further("judged", more)
  BY DEF W!Judge
<1>2. DOMAIN more = {"passed"} /\ more.passed = passed
  BY <1>1
<1>3. task.at = "valued" /\ UNCHANGED <<cached, file, held>>
  BY DEF W!Judge
<1>4. DOMAIN task = {"at", "metric", "policy", "first", "graph", "second", "lost", "disk", "record"}
  BY <1>3 DEF TaskInv, Known
<1>5. /\ DOMAIN task' = DOMAIN task \cup {"passed"} /\ task'.at = "judged" /\ task'.passed = passed
      /\ task'.second = task.second /\ task'.disk = task.disk /\ task'.record = task.record
      /\ task'.metric = task.metric /\ task'.policy = task.policy /\ task'.first = task.first
      /\ task'.graph = task.graph
  BY <1>1, <1>2, <1>4, FurtherKeeps
<1>6. DOMAIN task' = Known("judged") /\ "judged" \in W!TaskStage
  BY <1>4, <1>5 DEF Known, W!TaskStage
<1>7. W!HasValue
  BY <1>3 DEF W!HasValue
<1>8. /\ task.metric \in Metric /\ task.policy \in W!PolicyId /\ task.first \in Found
      /\ file \in PackOnDisk /\ held \in PackOnDisk /\ DOMAIN cached = Metric
      /\ \A m \in Metric : cached[m] = Absent \/ cached[m] \in Found
      /\ task.disk \in PackOnDisk /\ task.second \in Found \cup {<<>>}
  BY <1>3, <1>7 DEF TaskInv
<1>9. PICK p \in Prior : task.record = W!ValueOf(task.metric, task.second, task.graph,
                                                W!P!Compile(task.disk, task.policy), p)
  BY <1>7 DEF TaskInv
<1>10. task'.record = W!ValueOf(task'.metric, task'.second, task'.graph,
                               W!P!Compile(task'.disk, task'.policy), p)
  BY <1>5, <1>9
<1>11. task'.passed <=> W!P!EvaluateMetric(W!P!Compile(held', task'.policy), W!Summary(task'.first),
                                           W!Eval(task'.record)) = <<>>
  BY <1>1, <1>3, <1>5
<1>12. QED
  BY <1>3, <1>5, <1>6, <1>8, <1>9, <1>10, <1>11 DEF TaskInv, W!PolicyId

\* A task that is given up, or lost with its process.
LEMMA NoTaskStep ==
    ASSUME W!ValueAssumption, TaskInv, task' = W!NoTask, held' \in PackOnDisk,
           UNCHANGED <<cached, file>>
    PROVE  TaskInv'
<1>1. task'.at = "idle" /\ DOMAIN task' = {"at"}
  BY DEF W!NoTask
<1>2. QED
  BY <1>1 DEF TaskInv, Known, W!TaskStage, W!HasValue

LEMMA TaskStep ==
    ASSUME W!ValueAssumption, TaskInv, [W!ValueNext]_W!valueVars
    PROVE  TaskInv'
<1>1. /\ file \in PackOnDisk /\ held \in PackOnDisk /\ DOMAIN cached = Metric
      /\ \A m \in Metric : cached[m] = Absent \/ cached[m] \in Found
  BY DEF TaskInv
<1>2. CASE \E m \in Metric, id \in W!PolicyId : W!Collect(m, id)
  BY <1>2, CollectStep
<1>3. CASE W!TakeSnapshot
  BY <1>3, TakeSnapshotStep
<1>4. CASE W!EvaluateMetric
  BY <1>4, EvaluateMetricStep
<1>5. CASE W!Judge
  BY <1>5, JudgeStep
<1>6. CASE W!Abandon
  BY <1>1, <1>6, NoTaskStep DEF W!Abandon
<1>7. CASE \E m \in Metric : W!Expire(m)
  <2>1. PICK m \in Metric : W!Expire(m)
    BY <1>7
  <2>2. DOMAIN cached' = Metric /\ \A x \in Metric : cached'[x] = Absent \/ cached'[x] \in Found
    BY <1>1, <2>1 DEF W!Expire
  <2>3. QED
    BY <1>1, <2>1, <2>2, OthersKeep DEF W!Expire
<1>8. CASE \E m \in Metric : \E b \in Found : W!OtherSaves(m, b)
  <2>1. PICK m \in Metric, b \in Found : W!OtherSaves(m, b)
    BY <1>8
  <2>2. DOMAIN cached' = Metric /\ \A x \in Metric : cached'[x] = Absent \/ cached'[x] \in Found
    BY <2>1, KeepsCache DEF W!OtherSaves
  <2>3. QED
    BY <1>1, <2>1, <2>2, OthersKeep DEF W!OtherSaves
<1>9. CASE \E g \in Graph : W!GrowGraph(g)
  BY <1>1, <1>9, OthersKeep DEF W!GrowGraph
<1>10. CASE \E p \in PackOnDisk : W!EditPack(p)
  BY <1>1, <1>10, OthersKeep DEF W!EditPack
<1>11. CASE W!NewProcess
  BY <1>1, <1>11, NoTaskStep DEF W!NewProcess
<1>12. CASE \E cs \in Candidates : W!FuseCandidates(cs)
  BY <1>1, <1>12, OthersKeep DEF W!FuseCandidates
<1>13. CASE UNCHANGED W!valueVars
  BY <1>1, <1>13, OthersKeep DEF W!valueVars
<1>14. QED
  BY <1>2, <1>3, <1>4, <1>5, <1>6, <1>7, <1>8, <1>9, <1>10, <1>11, <1>12, <1>13 DEF W!ValueNext

LEMMA PriorIsLastHolds == ASSUME W!ValueAssumption, TaskInv PROVE W!PriorIsLast
<1>1. SUFFICES ASSUME W!HasValue PROVE W!PriorIsLast
  BY DEF W!PriorIsLast
<1>2. PICK policy : policy = W!P!Compile(task.disk, task.policy)
  OBVIOUS
<1>3. PICK p \in Prior : task.record = W!ValueOf(task.metric, task.second, task.graph, policy, p)
  BY <1>1, <1>2 DEF TaskInv
<1>4. task.disk \in PackOnDisk /\ task.policy \in W!PolicyId
  BY <1>1 DEF TaskInv, W!HasValue
<1>5. W!Decision(policy, p) # Absent
  BY <1>2, <1>4, Zenon DEF W!ValueAssumption
<1>6. task.record.prior > 0 =>
        /\ task.second = <<>> /\ W!GraphValue(task.metric, task.graph).value = Absent
        /\ policy.prior.allow
  BY <1>3, ValueIsBacked
<1>7. (task.record.value = Absent /\ task.record.prior = 0 /\ task.second = <<>>) =>
        /\ task.record.decision # Absent
        /\ ~task.record.decision.adopted
        /\ task.record.decision.reason # "evidence_and_fallback_failed"
  BY <1>3, <1>5, DecisionIsGiven
<1>8. QED
  BY <1>2, <1>6, <1>7, Zenon DEF W!PriorIsLast

LEMMA WhatPassesHolds == ASSUME W!ValueAssumption, TaskInv PROVE W!WhatPassesIsBacked
<1>1. SUFFICES ASSUME task.at = "judged", task.passed PROVE W!WhatPassesIsBacked
  BY DEF W!WhatPassesIsBacked
<1>2. PICK policy : policy = W!P!Compile(held, task.policy)
  OBVIOUS
<1>3. PICK e : e = W!Eval(task.record)
  OBVIOUS
<1>4. W!HasValue
  BY <1>1 DEF W!HasValue
<1>5. PICK p \in Prior : task.record = W!ValueOf(task.metric, task.second, task.graph,
                                                W!P!Compile(task.disk, task.policy), p)
  BY <1>4 DEF TaskInv
<1>6. held \in PackOnDisk /\ task.policy \in W!PolicyId /\ task.first \in Found
  BY <1>1 DEF TaskInv
<1>7. /\ policy.gates \in Seq(W!P!DefaultGates) /\ policy.prior.ratio \in Nat
      /\ policy.evidence.min_sources \in Nat
  BY <1>2, <1>6, Zenon DEF W!ValueAssumption
<1>8. /\ task.first \in Seq(W!ToSet(task.first))
      /\ \A i \in DOMAIN task.first : task.first[i].confidence \in 0 .. 100
  BY <1>6, Zenon DEF W!ValueAssumption
<1>9. W!P!EvaluateMetric(policy, W!Summary(task.first), e) = <<>>
  BY <1>1, <1>2, <1>3 DEF TaskInv
<1>10. \A g \in W!ToSet(policy.gates) : W!P!RunGate(g, policy, W!Summary(task.first), e) = <<>>
  <2>1. SUFFICES ASSUME NEW g \in W!ToSet(policy.gates)
                 PROVE  W!P!RunGate(g, policy, W!Summary(task.first), e) = <<>>
    OBVIOUS
  <2>2. PICK i \in DOMAIN policy.gates : g = policy.gates[i]
    BY DEF W!ToSet
  <2>3. i \in 1 .. Len(policy.gates)
    BY <1>7
  <2>4. QED
    BY <1>7, <1>9, <2>2, <2>3, GatesArePassed
<1>11. e.prior = task.record.prior /\ task.record.prior \in {0, 100}
  BY <1>3, <1>5, PriorIsWhole DEF W!Eval
<1>12. ("prior_ratio" \in W!ToSet(policy.gates) /\ policy.prior.ratio < 100) => task.record.prior = 0
  <2>1. SUFFICES ASSUME "prior_ratio" \in W!ToSet(policy.gates), policy.prior.ratio < 100
                 PROVE  task.record.prior = 0
    OBVIOUS
  <2>2. W!P!RunGate("prior_ratio", policy, W!Summary(task.first), e) = <<>>
    BY <1>10, <2>1
  <2>3. e.prior = 0 \/ policy.prior.ratio >= 100
    BY <1>7, <1>11, <2>2, NoPriorPasses
  <2>4. QED
    BY <1>7, <1>11, <2>1, <2>3
<1>13. (/\ "min_sources" \in W!ToSet(policy.gates) /\ policy.evidence.min_sources > 0
        /\ task.second = task.first) =>
            /\ task.record.method = "evidence_direct"
            /\ \E i \in DOMAIN task.first :
                task.record.value = (IF task.first[i].value = Absent THEN Absent
                                     ELSE <<task.first[i].value, 1>>)
  <2>1. SUFFICES ASSUME "min_sources" \in W!ToSet(policy.gates), policy.evidence.min_sources > 0,
                        task.second = task.first
                 PROVE  /\ task.record.method = "evidence_direct"
                        /\ \E i \in DOMAIN task.first :
                            task.record.value = (IF task.first[i].value = Absent THEN Absent
                                                 ELSE <<task.first[i].value, 1>>)
    OBVIOUS
  <2>2. W!P!RunGate("min_sources", policy, W!Summary(task.first), e) = <<>>
    BY <1>10, <2>1
  <2>3. task.first # <<>>
    BY <1>7, <2>1, <2>2, SourcesPass
  <2>4. PICK first : first = task.first
    OBVIOUS
  <2>5. PICK S : S = W!ToSet(first)
    OBVIOUS
  <2>6. first \in Seq(S) /\ first # <<>> /\ \A i \in DOMAIN first : first[i].confidence \in 0 .. 100
    BY <1>8, <2>3, <2>4, <2>5
  <2>7. /\ task.record.method = "evidence_direct"
        /\ \E i \in DOMAIN first :
              task.record.value = IF first[i].value = Absent THEN Absent ELSE <<first[i].value, 1>>
    <3>1. PICK disk : disk = W!P!Compile(task.disk, task.policy)
      OBVIOUS
    <3>2. PICK record : record = task.record
      OBVIOUS
    <3>3. record = W!ValueOf(task.metric, first, task.graph, disk, p)
      BY <1>5, <2>1, <2>4, <3>1, <3>2
    <3>4. /\ record.method = "evidence_direct"
          /\ \E i \in DOMAIN first :
                record.value = IF first[i].value = Absent THEN Absent ELSE <<first[i].value, 1>>
      BY <2>6, <3>3, EvidenceIsFirst
    <3>5. QED
      BY <3>2, <3>4
  <2>8. QED
    BY <2>4, <2>7
<1>14. QED
  BY <1>2, <1>12, <1>13, Zenon DEF W!WhatPassesIsBacked

\* Only the engine values a task.
LEMMA CollectedStep ==
    ASSUME W!ValueAssumption, TaskInv, [W!ValueNext]_W!valueVars
    PROVE  [(task'.at = "valued" /\ task.at = "ready" /\ ~task'.lost /\ cached[task.metric] # Absent)
              => task'.second = cached[task.metric]]_W!valueVars
<1>1. SUFFICES ASSUME task'.at = "valued", task.at = "ready", ~task'.lost,
                      cached[task.metric] # Absent
               PROVE  task'.second = cached[task.metric]
  OBVIOUS
<1>2. W!EvaluateMetric
  <2>1. ~W!TakeSnapshot /\ ~W!Judge
    BY <1>1 DEF W!TakeSnapshot, W!Judge
  <2>2. ~W!Abandon /\ ~W!NewProcess
    BY <1>1 DEF W!Abandon, W!NewProcess, W!NoTask
  <2>3. \A m \in Metric, id \in W!PolicyId : ~W!Collect(m, id)
    BY <1>1 DEF W!Collect
  <2>4. task' # task
    BY <1>1
  <2>5. \A m \in Metric : ~W!Expire(m) /\ \A b \in Found : ~W!OtherSaves(m, b)
    BY <2>4 DEF W!Expire, W!OtherSaves
  <2>6. /\ \A g \in Graph : ~W!GrowGraph(g)
        /\ \A p \in PackOnDisk : ~W!EditPack(p)
        /\ \A cs \in Candidates : ~W!FuseCandidates(cs)
    BY <2>4 DEF W!GrowGraph, W!EditPack, W!FuseCandidates
  <2>7. ~UNCHANGED W!valueVars
    BY <2>4 DEF W!valueVars
  <2>8. QED
    BY <2>1, <2>2, <2>3, <2>5, <2>6, <2>7, Zenon DEF W!ValueNext
<1>3. QED
  BY <1>1, <1>2, EvaluateMetricStep

\* The metric task, whatever packs are put on the disk, whatever evidence is found, cached and
\* expired, and however the graph grows: a prior stands for a value only where nothing else did and
\* the policy on the disk allowed it (value_engine.py evaluate_metrics).
THEOREM PriorsAreLast == ASSUME W!ValueAssumption PROVE W!ValueSpec => []W!PriorIsLast
<1>1. W!ValueInit => TaskInv
  BY TaskInit
<1>2. TaskInv /\ [W!ValueNext]_W!valueVars => TaskInv'
  BY TaskStep
<1>3. TaskInv => W!PriorIsLast
  BY PriorIsLastHolds
<1>4. QED
  BY <1>1, <1>2, <1>3, PTL DEF W!ValueSpec

\* What passes the gates is no prior, and under a policy that asks for sources it is the value of
\* the evidence that was judged (executor.py, policy_engine.py).
THEOREM PassingIsBacked == ASSUME W!ValueAssumption PROVE W!ValueSpec => []W!WhatPassesIsBacked
<1>1. W!ValueInit => TaskInv
  BY TaskInit
<1>2. TaskInv /\ [W!ValueNext]_W!valueVars => TaskInv'
  BY TaskStep
<1>3. TaskInv => W!WhatPassesIsBacked
  BY WhatPassesHolds
<1>4. QED
  BY <1>1, <1>2, <1>3, PTL DEF W!ValueSpec

\* The second collection of a task is the first one, unless the cache lost it or could not be read.
THEOREM CollectionsAgree == ASSUME W!ValueAssumption PROVE W!ValueSpec => W!CollectedIsCached
<1>1. W!ValueInit => TaskInv
  BY TaskInit
<1>2. TaskInv /\ [W!ValueNext]_W!valueVars => TaskInv'
  BY TaskStep
<1>3. TaskInv /\ [W!ValueNext]_W!valueVars =>
        [(task'.at = "valued" /\ task.at = "ready" /\ ~task'.lost /\ cached[task.metric] # Absent)
            => task'.second = cached[task.metric]]_W!valueVars
  BY CollectedStep
<1>4. QED
  BY <1>1, <1>2, <1>3, PTL DEF W!ValueSpec, W!CollectedIsCached

-----------------------------------------------------------------------------
(* Workflows: a run step by step                                           *)

Part == {"snapshot", "matches", "gaps", "values", "strategies", "portfolio", "learned"}
CallName == W!Showing \cup {"world_engine.snapshot", "unsupported"}
Report == [call : CallName, status : {"ok", "error"}]

\* May a call show this?
Makes(call, x) ==
    \/ x = "snapshot" /\ call \in {"world_engine.snapshot", "value_engine.evaluate_metrics"}
    \/ call \in W!Showing /\ x = W!Shows(call)

\* What is shown was made of the snapshot that is shown.
OfSnapshot(prev) ==
    /\ prev.matches # Absent => prev.snapshot # Absent /\ prev.matches.of = prev.snapshot
    /\ prev.gaps # Absent => /\ prev.snapshot # Absent /\ prev.gaps.of = prev.snapshot
                             /\ prev.gaps.with.of = prev.snapshot
    /\ prev.values # Absent =>
          /\ prev.values.of = prev.snapshot
          /\ \A m \in DOMAIN prev.values.records :
                LET r == prev.values.records[m]
                IN  /\ r.method \in {"r_graph_aggregation", "derived_calculation"} =>
                        r.value = W!GraphValue(m, prev.snapshot).value
                    /\ r.prior > 0 => /\ W!GraphValue(m, prev.snapshot).value = Absent
                                      /\ prev.values.evidence[m] = <<>>
                                      /\ prev.values.policy.prior.allow

\* Whatever is shown is of a step that is reported.
Reported(prev, reports) ==
    \A x \in Part : prev[x] # Absent =>
        \E i \in 1 .. Len(reports) : Makes(reports[i].call, x) /\ reports[i].status = "ok"

RunInv ==
    /\ world \in Graph /\ workflow.at \in {"none", "running", "ended", "raised"}
    /\ workflow.at # "none" =>
        /\ DOMAIN workflow = {"at", "id", "in", "next", "prev", "reports", "mode"}
        /\ workflow.id \in DOMAIN Program /\ DOMAIN workflow.prev = Part
        /\ workflow.reports \in Seq(Report)
        /\ \A i \in 1 .. Len(workflow.reports) : workflow.reports[i].status = "error" =>
              i = Len(workflow.reports) /\ workflow.at \in {"ended", "raised"}
        /\ workflow.at = "running" =>
              /\ workflow.next \in 1 .. Len(W!Steps)
              /\ Len(workflow.reports) = workflow.next - 1
              /\ workflow.next = 1 => workflow.prev = W!Nothing
        /\ workflow.at = "ended" =>
              /\ workflow.reports # <<>>
              /\ \/ workflow.reports[Len(workflow.reports)].status = "error"
                 \/ Len(workflow.reports) = Len(W!Steps)
        /\ OfSnapshot(workflow.prev)
        /\ Reported(workflow.prev, workflow.reports)

LEMMA NothingIsShown ==
    /\ DOMAIN W!Nothing = Part /\ OfSnapshot(W!Nothing) /\ \A x \in Part : W!Nothing[x] = Absent
BY DEF W!Nothing, Part, OfSnapshot

\* A step that is reported as done.
LEMMA GoesKeeps ==
    ASSUME W!ProgramAssumption, RunInv, NEW call \in CallName, W!Running(call), NEW update,
           W!Goes(update), world' = world,
           \A x \in Part : (x \in DOMAIN update /\ update[x] # Absent) => Makes(call, x),
           OfSnapshot(W!Added(update))
    PROVE  RunInv'
<1>1. PICK prev : prev = W!Added(update)
  OBVIOUS
<1>2. PICK done : done = [call |-> call, status |-> "ok"]
  OBVIOUS
<1>3. PICK last \in BOOLEAN : last <=> (workflow.next = Len(W!Steps))
  OBVIOUS
<1>4. /\ workflow.at = "running" /\ W!Step.call = call
      /\ DOMAIN workflow = {"at", "id", "in", "next", "prev", "reports", "mode"}
      /\ workflow.id \in DOMAIN Program /\ DOMAIN workflow.prev = Part
      /\ workflow.reports \in Seq(Report)
      /\ workflow.next \in 1 .. Len(W!Steps) /\ Len(workflow.reports) = workflow.next - 1
      /\ \A i \in 1 .. Len(workflow.reports) : workflow.reports[i].status # "error"
      /\ Reported(workflow.prev, workflow.reports) /\ world \in Graph
  BY DEF RunInv, W!Running
<1>5. Len(W!Steps) \in Nat
  BY <1>4 DEF W!ProgramAssumption, W!Steps
<1>6. workflow' = [workflow EXCEPT !.prev = prev, !.next = workflow.next + 1,
                                   !.reports = Append(workflow.reports, done),
                                   !.at = IF last THEN "ended" ELSE "running"]
  BY <1>1, <1>2, <1>3, <1>4 DEF W!Goes
<1>7. /\ workflow'.prev = prev /\ workflow'.next = workflow.next + 1 /\ workflow'.id = workflow.id
      /\ workflow'.reports = Append(workflow.reports, done)
      /\ workflow'.at = IF last THEN "ended" ELSE "running"
      /\ DOMAIN workflow' = {"at", "id", "in", "next", "prev", "reports", "mode"}
  BY <1>4, <1>6
<1>8. W!Steps' = W!Steps
  BY <1>7 DEF W!Steps
<1>9. done \in Report
  BY <1>2 DEF Report
<1>10. PICK n \in Nat : n = Len(workflow.reports)
  BY <1>4
<1>11. /\ workflow'.reports \in Seq(Report) /\ Len(workflow'.reports) = n + 1
       /\ \A i \in 1 .. n : workflow'.reports[i] = workflow.reports[i]
       /\ workflow'.reports[n + 1] = done
  BY <1>4, <1>7, <1>9, <1>10
<1>12. DOMAIN prev = Part
       /\ \A x \in Part : prev[x] = IF x \in DOMAIN update THEN update[x] ELSE workflow.prev[x]
  BY <1>1, <1>4 DEF W!Added
<1>13. \A i \in 1 .. n + 1 : workflow'.reports[i].status # "error"
  <2>1. \A i \in 1 .. n + 1 : i \in 1 .. n \/ i = n + 1
    BY <1>10
  <2>2. done.status # "error"
    BY <1>2
  <2>3. QED
    BY <2>1, <2>2, <1>4, <1>10, <1>11
<1>14. Reported(prev, workflow'.reports)
  <2> SUFFICES ASSUME NEW x \in Part, prev[x] # Absent
               PROVE  \E i \in 1 .. Len(workflow'.reports) :
                         Makes(workflow'.reports[i].call, x) /\ workflow'.reports[i].status = "ok"
    BY DEF Reported
  <2>1. CASE x \in DOMAIN update
    <3>1. Makes(call, x)
      BY <1>12, <2>1
    <3>2. n + 1 \in 1 .. Len(workflow'.reports) /\ workflow'.reports[n + 1].call = call
          /\ workflow'.reports[n + 1].status = "ok"
      BY <1>2, <1>10, <1>11
    <3>3. QED
      BY <3>1, <3>2
  <2>2. CASE x \notin DOMAIN update
    <3>1. PICK i \in 1 .. n : Makes(workflow.reports[i].call, x) /\ workflow.reports[i].status = "ok"
      BY <1>4, <1>10, <1>12, <2>2 DEF Reported
    <3>2. i \in 1 .. Len(workflow'.reports) /\ workflow'.reports[i] = workflow.reports[i]
      BY <1>10, <1>11
    <3>3. QED
      BY <3>1, <3>2
  <2>3. QED
    BY <2>1, <2>2
<1>15. last => n + 1 = Len(W!Steps)
  BY <1>3, <1>4, <1>5, <1>10
<1>16. ~last => workflow.next + 1 \in 1 .. Len(W!Steps)
  BY <1>3, <1>4, <1>5
<1>17. workflow.next + 1 # 1 /\ (workflow.next + 1) - 1 = n + 1
  BY <1>4, <1>5, <1>10
<1>18. workflow'.reports # <<>>
  BY <1>10, <1>11
<1>19. OfSnapshot(prev)
  BY <1>1
<1>20. QED
  BY <1>4, <1>7, <1>8, <1>10, <1>11, <1>12, <1>13, <1>14, <1>15, <1>16, <1>17, <1>18, <1>19 DEF RunInv

\* A step that is reported as failed.
LEMMA FailsKeeps ==
    ASSUME W!ProgramAssumption, RunInv, NEW call \in CallName, W!Running(call), NEW update,
           W!Fails(update), world' = world
    PROVE  RunInv'
<1>1. PICK failed : failed = [call |-> call, status |-> "error"]
  OBVIOUS
<1>2. PICK at \in {"raised", "ended"} : at = IF Program[workflow.id].programmed THEN "raised" ELSE "ended"
  OBVIOUS
<1>3. /\ workflow.at = "running" /\ W!Step.call = call
      /\ DOMAIN workflow = {"at", "id", "in", "next", "prev", "reports", "mode"}
      /\ workflow.id \in DOMAIN Program /\ DOMAIN workflow.prev = Part
      /\ workflow.reports \in Seq(Report)
      /\ \A i \in 1 .. Len(workflow.reports) : workflow.reports[i].status # "error"
      /\ OfSnapshot(workflow.prev) /\ Reported(workflow.prev, workflow.reports) /\ world \in Graph
  BY DEF RunInv, W!Running
<1>4. workflow' = [workflow EXCEPT !.reports = Append(workflow.reports, failed), !.at = at]
  BY <1>1, <1>2, <1>3 DEF W!Fails
<1>5. /\ workflow'.prev = workflow.prev /\ workflow'.id = workflow.id /\ workflow'.at = at
      /\ workflow'.reports = Append(workflow.reports, failed)
      /\ DOMAIN workflow' = {"at", "id", "in", "next", "prev", "reports", "mode"}
  BY <1>3, <1>4
<1>6. failed \in Report
  BY <1>1 DEF Report
<1>7. PICK n \in Nat : n = Len(workflow.reports)
  BY <1>3
<1>8. /\ workflow'.reports \in Seq(Report) /\ Len(workflow'.reports) = n + 1
      /\ \A i \in 1 .. n : workflow'.reports[i] = workflow.reports[i]
      /\ workflow'.reports[n + 1] = failed
  BY <1>3, <1>5, <1>6, <1>7
<1>9. \A i \in 1 .. n + 1 : workflow'.reports[i].status = "error" => i = n + 1
  <2>1. \A i \in 1 .. n + 1 : i \in 1 .. n \/ i = n + 1
    BY <1>7
  <2>2. QED
    BY <2>1, <1>3, <1>7, <1>8
<1>10. Reported(workflow.prev, workflow'.reports)
  <2> SUFFICES ASSUME NEW x \in Part, workflow.prev[x] # Absent
               PROVE  \E i \in 1 .. Len(workflow'.reports) :
                         Makes(workflow'.reports[i].call, x) /\ workflow'.reports[i].status = "ok"
    BY DEF Reported
  <2>1. PICK i \in 1 .. n : Makes(workflow.reports[i].call, x) /\ workflow.reports[i].status = "ok"
    BY <1>3, <1>7 DEF Reported
  <2>2. i \in 1 .. Len(workflow'.reports) /\ workflow'.reports[i] = workflow.reports[i]
    BY <1>7, <1>8
  <2>3. QED
    BY <2>1, <2>2
<1>11. workflow'.reports # <<>> /\ workflow'.reports[Len(workflow'.reports)].status = "error"
  BY <1>1, <1>7, <1>8
<1>12. QED
  BY <1>2, <1>3, <1>5, <1>8, <1>9, <1>10, <1>11 DEF RunInv

\* A step that is reported either way.
LEMMA MayKeeps ==
    ASSUME W!ProgramAssumption, RunInv, NEW call \in CallName, W!Running(call), NEW update,
           W!May(update), world' = world,
           \A x \in Part : (x \in DOMAIN update /\ update[x] # Absent) => Makes(call, x),
           OfSnapshot(W!Added(update))
    PROVE  RunInv'
BY GoesKeeps, FailsKeeps DEF W!May

LEMMA Underway ==
    ASSUME RunInv, NEW call, W!Running(call)
    PROVE  /\ DOMAIN workflow.prev = Part /\ OfSnapshot(workflow.prev)
           /\ workflow.id \in DOMAIN Program
           /\ workflow.next \in 1 .. Len(W!Steps) /\ W!Steps[workflow.next].call = call
           /\ workflow.next = 1 => workflow.prev = W!Nothing
BY DEF RunInv, W!Running, W!Step

LEMMA SnapshotStep == ASSUME W!ProgramAssumption, RunInv, W!Snapshot PROVE RunInv'
<1> DEFINE call == "world_engine.snapshot"
<1>1. W!Running(call) /\ world' = world
  BY DEF W!Snapshot, W!valueVars
<1>2. call \in CallName
  BY DEF CallName
<1>3. PICK update : update = [snapshot |-> world]
  OBVIOUS
<1>4. W!May(update) \/ W!Fails(<<>>)
  BY <1>3 DEF W!Snapshot
<1>5. workflow.prev = W!Nothing
  <2>1. workflow.next = 1
    BY <1>1, Underway DEF W!ProgramAssumption, W!Steps
  <2>2. QED
    BY <2>1, <1>1, Underway
<1>6. \A x \in Part : (x \in DOMAIN update /\ update[x] # Absent) => Makes(call, x)
  BY <1>3 DEF Makes
<1>7. OfSnapshot(W!Added(update))
  <2>1. PICK prev : prev = W!Added(update)
    OBVIOUS
  <2>2. prev.matches = Absent /\ prev.gaps = Absent /\ prev.values = Absent
    BY <1>3, <1>5, <2>1, NothingIsShown DEF W!Added, Part
  <2>3. QED
    BY <2>1, <2>2 DEF OfSnapshot
<1> HIDE DEF call
<1>8. QED
  BY <1>1, <1>2, <1>4, <1>6, <1>7, MayKeeps, FailsKeeps

LEMMA MatchStep == ASSUME W!ProgramAssumption, RunInv, W!MatchPatterns PROVE RunInv'
<1> DEFINE call == "pattern_engine.match_patterns"
<1>1. W!Running(call) /\ world' = world
  BY DEF W!MatchPatterns, W!valueVars
<1>2. call \in CallName /\ call \in W!Showing /\ W!Shows(call) = "matches"
  BY DEF CallName, W!Showing, W!Shows
<1>3. PICK of : of = workflow.prev.snapshot
  OBVIOUS
<1>4. PICK update : update = [matches |-> [of |-> of]]
  OBVIOUS
<1>5. (of # Absent /\ W!May(update)) \/ W!Fails(<<>>)
  BY <1>3, <1>4 DEF W!MatchPatterns
<1>6. \A x \in Part : (x \in DOMAIN update /\ update[x] # Absent) => Makes(call, x)
  BY <1>2, <1>4 DEF Makes
<1>7. of # Absent => OfSnapshot(W!Added(update))
  <2>1. PICK prev : prev = W!Added(update)
    OBVIOUS
  <2>2. /\ prev.matches = [of |-> of] /\ prev.gaps = workflow.prev.gaps
        /\ prev.values = workflow.prev.values /\ prev.snapshot = workflow.prev.snapshot
    BY <1>1, <1>4, <2>1, Underway DEF W!Added, Part
  <2>3. OfSnapshot(workflow.prev)
    BY <1>1, Underway
  <2>4. QED
    BY <1>3, <2>1, <2>2, <2>3 DEF OfSnapshot
<1> HIDE DEF call
<1>8. QED
  BY <1>1, <1>2, <1>5, <1>6, <1>7, MayKeeps, FailsKeeps

LEMMA GapsStep == ASSUME W!ProgramAssumption, RunInv, W!DiscoverGaps PROVE RunInv'
<1> DEFINE call == "pattern_engine.discover_gaps"
<1>1. W!Running(call) /\ world' = world
  BY DEF W!DiscoverGaps, W!valueVars
<1>2. call \in CallName /\ call \in W!Showing /\ W!Shows(call) = "gaps"
  BY DEF CallName, W!Showing, W!Shows
<1>3. PICK of : of = workflow.prev.snapshot
  OBVIOUS
<1>4. PICK with : with = IF W!Step.precomputed /\ workflow.prev.matches # Absent
                         THEN workflow.prev.matches ELSE [of |-> of]
  OBVIOUS
<1>5. PICK update : update = [gaps |-> [of |-> of, with |-> with]]
  OBVIOUS
<1>6. (of # Absent /\ W!May(update)) \/ W!Fails(<<>>)
  BY <1>3, <1>4, <1>5 DEF W!DiscoverGaps
<1>7. \A x \in Part : (x \in DOMAIN update /\ update[x] # Absent) => Makes(call, x)
  BY <1>2, <1>5 DEF Makes
<1>8. of # Absent => OfSnapshot(W!Added(update))
  <2>1. PICK prev : prev = W!Added(update)
    OBVIOUS
  <2>2. /\ prev.gaps = [of |-> of, with |-> with] /\ prev.matches = workflow.prev.matches
        /\ prev.values = workflow.prev.values /\ prev.snapshot = workflow.prev.snapshot
    BY <1>1, <1>5, <2>1, Underway DEF W!Added, Part
  <2>3. OfSnapshot(workflow.prev)
    BY <1>1, Underway
  <2>4. with.of = of
    BY <1>3, <1>4, <2>3 DEF OfSnapshot
  <2>5. QED
    BY <1>3, <2>1, <2>2, <2>3, <2>4 DEF OfSnapshot
<1> HIDE DEF call
<1>9. QED
  BY <1>1, <1>2, <1>6, <1>7, <1>8, MayKeeps, FailsKeeps

LEMMA EvaluatingStep ==
    ASSUME W!ProgramAssumption, RunInv, world' = world,
           W!Running("value_engine.evaluate_metrics"), NEW found, W!Evaluating(found)
    PROVE  RunInv'
<1> DEFINE call == "value_engine.evaluate_metrics"
<1>1. call \in CallName /\ call \in W!Showing /\ W!Shows(call) = "values"
  BY DEF CallName, W!Showing, W!Shows
<1>2. PICK g : g = W!GraphForValues
  OBVIOUS
<1>3. PICK policy, p : W!May([snapshot |-> g,
          values |-> [of |-> g, policy |-> policy, evidence |-> found,
                      records |-> [m \in W!Step.metrics |->
                                     W!ValueOf(m, found[m], g, policy, p)]]])
  BY <1>2 DEF W!Evaluating
<1>4. PICK records : records = [m \in W!Step.metrics |-> W!ValueOf(m, found[m], g, policy, p)]
  OBVIOUS
<1>5. PICK values : values = [of |-> g, policy |-> policy, evidence |-> found, records |-> records]
  OBVIOUS
<1>6. PICK update : update = [snapshot |-> g, values |-> values]
  OBVIOUS
<1>7. W!May(update)
  BY <1>3, <1>4, <1>5, <1>6
<1>8. \A x \in Part : (x \in DOMAIN update /\ update[x] # Absent) => Makes(call, x)
  BY <1>1, <1>6 DEF Makes
<1>9. g # Absent /\ (workflow.prev.snapshot # Absent => g = workflow.prev.snapshot)
  BY <1>2 DEF W!GraphForValues, RunInv, W!ProgramAssumption
<1>10. \A m \in DOMAIN records :
         /\ records[m].method \in {"r_graph_aggregation", "derived_calculation"} =>
               records[m].value = W!GraphValue(m, g).value
         /\ records[m].prior > 0 =>
               /\ W!GraphValue(m, g).value = Absent /\ found[m] = <<>> /\ policy.prior.allow
  <2> SUFFICES ASSUME NEW m \in DOMAIN records
               PROVE  /\ records[m].method \in {"r_graph_aggregation", "derived_calculation"} =>
                           records[m].value = W!GraphValue(m, g).value
                      /\ records[m].prior > 0 =>
                           /\ W!GraphValue(m, g).value = Absent /\ found[m] = <<>>
                           /\ policy.prior.allow
    OBVIOUS
  <2>1. records[m] = W!ValueOf(m, found[m], g, policy, p)
    BY <1>4
  <2>2. QED
    BY <2>1, ValueIsBacked
<1>11. OfSnapshot(W!Added(update))
  <2>1. PICK prev : prev = W!Added(update)
    OBVIOUS
  <2>2. /\ prev.matches = workflow.prev.matches /\ prev.gaps = workflow.prev.gaps
        /\ prev.values = values /\ prev.snapshot = g
    BY <1>6, <2>1, Underway DEF W!Added, Part
  <2>3. OfSnapshot(workflow.prev)
    BY Underway
  <2>4. /\ values.of = g /\ values.policy = policy /\ values.evidence = found
        /\ values.records = records
    BY <1>5
  <2>5. QED
    BY <1>9, <1>10, <2>1, <2>2, <2>3, <2>4 DEF OfSnapshot
<1> HIDE DEF call
<1>12. QED
  BY <1>1, <1>7, <1>8, <1>11, MayKeeps DEF call

LEMMA EvaluateStep == ASSUME W!ProgramAssumption, RunInv, W!EvaluateMetrics PROVE RunInv'
<1>1. /\ W!Running("value_engine.evaluate_metrics") /\ world' = world
      /\ W!Fails(<<>>) \/ \E found : W!Evaluating(found)
  BY DEF W!EvaluateMetrics
<1>2. "value_engine.evaluate_metrics" \in CallName
  BY DEF CallName, W!Showing
<1>3. QED
  BY <1>1, <1>2, FailsKeeps, EvaluatingStep

\* A step that shows something else.
LEMMA OtherStep ==
    ASSUME W!ProgramAssumption, RunInv, world' = world, NEW x \in {"strategies", "portfolio", "learned"},
           NEW call \in W!Showing, W!Shows(call) = x, W!Running(call), NEW y, NEW update,
           update = [z \in {x} |-> y], W!May(update)
    PROVE  RunInv'
<1>1. call \in CallName
  BY DEF CallName
<1>2. \A z \in Part : (z \in DOMAIN update /\ update[z] # Absent) => Makes(call, z)
  BY DEF Makes
<1>3. OfSnapshot(W!Added(update))
  <2>1. PICK prev : prev = W!Added(update)
    OBVIOUS
  <2>2. /\ prev.matches = workflow.prev.matches /\ prev.gaps = workflow.prev.gaps
        /\ prev.values = workflow.prev.values /\ prev.snapshot = workflow.prev.snapshot
    BY <2>1, Underway DEF W!Added, Part
  <2>3. OfSnapshot(workflow.prev)
    BY Underway
  <2>4. QED
    BY <2>1, <2>2, <2>3 DEF OfSnapshot
<1>4. QED
  BY <1>1, <1>2, <1>3, MayKeeps

LEMMA OtherSteps ==
    ASSUME W!ProgramAssumption, RunInv,
           W!SearchStrategies \/ W!EvaluatePortfolio \/ W!UpdateFromOutcomes \/ W!Unsupported
    PROVE  RunInv'
<1>1. CASE W!SearchStrategies
  <2>1. PICK update : update = [strategies |-> workflow.in.ids]
    OBVIOUS
  <2>2. update = [z \in {"strategies"} |-> workflow.in.ids]
    BY <2>1
  <2>3. W!Running("strategy_engine.search_strategies") /\ W!May(update) /\ world' = world
    BY <1>1, <2>1 DEF W!SearchStrategies, W!valueVars
  <2>4. /\ "strategy_engine.search_strategies" \in W!Showing
        /\ W!Shows("strategy_engine.search_strategies") = "strategies"
    BY DEF W!Showing, W!Shows
  <2>5. QED
    BY <2>2, <2>3, <2>4, OtherStep
<1>2. CASE W!EvaluatePortfolio
  <2>1. PICK y : y = [of |-> IF workflow.prev.strategies = Absent THEN {} ELSE workflow.prev.strategies]
    OBVIOUS
  <2>2. PICK update : update = [portfolio |-> y]
    OBVIOUS
  <2>3. update = [z \in {"portfolio"} |-> y]
    BY <2>2
  <2>4. W!Running("strategy_engine.evaluate_portfolio") /\ W!May(update) /\ world' = world
    BY <1>2, <2>1, <2>2 DEF W!EvaluatePortfolio, W!valueVars
  <2>5. /\ "strategy_engine.evaluate_portfolio" \in W!Showing
        /\ W!Shows("strategy_engine.evaluate_portfolio") = "portfolio"
    BY DEF W!Showing, W!Shows
  <2>6. QED
    BY <2>3, <2>4, <2>5, OtherStep
<1>3. CASE W!UpdateFromOutcomes
  <2>1. PICK update : update = [learned |-> {}]
    OBVIOUS
  <2>2. update = [z \in {"learned"} |-> {}]
    BY <2>1
  <2>3. W!Running("learning_engine.update_from_outcomes") /\ W!May(update) /\ world' = world
    BY <1>3, <2>1 DEF W!UpdateFromOutcomes, W!valueVars
  <2>4. /\ "learning_engine.update_from_outcomes" \in W!Showing
        /\ W!Shows("learning_engine.update_from_outcomes") = "learned"
    BY DEF W!Showing, W!Shows
  <2>5. QED
    BY <2>2, <2>3, <2>4, OtherStep
<1>4. CASE W!Unsupported
  BY <1>4, FailsKeeps DEF W!Unsupported, W!valueVars, CallName
<1>5. QED
  BY <1>1, <1>2, <1>3, <1>4

LEMMA StartRunStep ==
    ASSUME W!ProgramAssumption, RunInv, NEW w \in DOMAIN Program, NEW in, NEW override,
           W!StartRun(w, in, override)
    PROVE  RunInv'
<1>1. PICK policy : workflow' = [at |-> "running", id |-> w, in |-> in, next |-> 1,
                                 prev |-> W!Nothing, reports |-> <<>>, mode |-> policy]
  BY DEF W!StartRun
<1>2. world' = world /\ world \in Graph
  BY DEF W!StartRun, W!valueVars, RunInv
<1>3. /\ workflow'.at = "running" /\ workflow'.id = w /\ workflow'.next = 1
      /\ workflow'.prev = W!Nothing /\ workflow'.reports = <<>>
      /\ DOMAIN workflow' = {"at", "id", "in", "next", "prev", "reports", "mode"}
  BY <1>1
<1>4. Len((W!Steps)') \in Nat \ {0}
  BY <1>3 DEF W!Steps, W!ProgramAssumption
<1>5. /\ <<>> \in Seq(Report) /\ Len(<<>>) = 0
  OBVIOUS
<1>6. Reported(W!Nothing, <<>>)
  BY NothingIsShown DEF Reported
<1>7. QED
  BY <1>2, <1>3, <1>4, <1>5, <1>6, NothingIsShown DEF RunInv

LEMMA RunInit == ASSUME W!WorkflowInit PROVE RunInv
BY DEF W!WorkflowInit, W!ValueInit, RunInv

\* What others do meanwhile, and a new process.
LEMMA AsideSteps ==
    ASSUME RunInv,
           \/ W!NewOrchestrator \/ UNCHANGED W!workflowVars
           \/ /\ \/ \E m \in Metric : W!Expire(m) \/ \E b \in Found : W!OtherSaves(m, b)
                 \/ \E g \in Graph : W!GrowGraph(g)
                 \/ \E p \in PackOnDisk : W!EditPack(p)
              /\ UNCHANGED workflow
    PROVE  RunInv'
<1>1. CASE W!NewOrchestrator
  BY <1>1 DEF W!NewOrchestrator, W!NewProcess, RunInv
<1>2. CASE UNCHANGED workflow /\ world' \in Graph
  BY <1>2 DEF RunInv, W!Steps
<1>3. UNCHANGED W!workflowVars => UNCHANGED workflow /\ world' \in Graph
  BY DEF W!workflowVars, W!valueVars, RunInv
<1>4. (\/ \E m \in Metric : W!Expire(m) \/ \E b \in Found : W!OtherSaves(m, b)
       \/ \E g \in Graph : W!GrowGraph(g)
       \/ \E p \in PackOnDisk : W!EditPack(p)) => world' \in Graph
  BY DEF W!Expire, W!OtherSaves, W!GrowGraph, W!EditPack, RunInv
<1>5. QED
  BY <1>1, <1>2, <1>3, <1>4

LEMMA RunStep ==
    ASSUME W!ProgramAssumption, RunInv, [W!WorkflowNext]_(W!workflowVars)
    PROVE  RunInv'
<1>1. CASE \E w \in DOMAIN Program, in \in Input, override \in {Absent} \cup W!PolicyId :
              W!StartRun(w, in, override)
  BY <1>1, StartRunStep
<1>2. CASE W!Snapshot
  BY <1>2, SnapshotStep
<1>3. CASE W!MatchPatterns
  BY <1>3, MatchStep
<1>4. CASE W!DiscoverGaps
  BY <1>4, GapsStep
<1>5. CASE W!EvaluateMetrics
  BY <1>5, EvaluateStep
<1>6. CASE W!SearchStrategies \/ W!EvaluatePortfolio \/ W!UpdateFromOutcomes \/ W!Unsupported
  BY <1>6, OtherSteps
<1>7. CASE \/ W!NewOrchestrator \/ UNCHANGED W!workflowVars
           \/ /\ \/ \E m \in Metric : W!Expire(m) \/ \E b \in Found : W!OtherSaves(m, b)
                 \/ \E g \in Graph : W!GrowGraph(g)
                 \/ \E p \in PackOnDisk : W!EditPack(p)
              /\ UNCHANGED workflow
  BY <1>7, AsideSteps
<1>8. QED
  BY <1>1, <1>2, <1>3, <1>4, <1>5, <1>6, <1>7 DEF W!WorkflowNext

LEMMA RunInductive == ASSUME W!ProgramAssumption PROVE W!WorkflowSpec => []RunInv
<1>1. W!WorkflowInit => RunInv
  BY RunInit
<1>2. RunInv /\ [W!WorkflowNext]_(W!workflowVars) => RunInv'
  BY RunStep
<1>3. QED
  BY <1>1, <1>2, PTL DEF W!WorkflowSpec

\* Whatever a run shows was made of the one snapshot it shows, for any workflows, graphs, evidence
\* and policies that change between its steps (Workflows' OneSnapshot, workflow.py
\* _execute_workflow_steps_v1).
THEOREM RunsShowOneSnapshot ==
    ASSUME W!ProgramAssumption PROVE W!WorkflowSpec => []W!OneSnapshot
<1>1. RunInv => W!OneSnapshot
  BY DEF RunInv, OfSnapshot, W!OneSnapshot
<1>2. QED
  BY <1>1, RunInductive, PTL

\* What a run reports is what it did: only its last step may have failed, it ended with an error or
\* with all of its steps, and whatever it shows is of a step reported as done, for any workflows
\* (Workflows' ReportIsTrue, workflow.py _execute_workflow_steps_v1).
THEOREM ReportsAreTrue ==
    ASSUME W!ProgramAssumption PROVE W!WorkflowSpec => []W!ReportIsTrue
<1>1. RunInv => W!ReportIsTrue
  <2> SUFFICES ASSUME RunInv, workflow.at # "none" PROVE W!ReportIsTrue
    BY DEF W!ReportIsTrue
  <2>1. PICK n \in Nat : n = Len(workflow.reports)
    BY DEF RunInv
  <2>2. /\ workflow.reports \in Seq(Report) /\ DOMAIN workflow.reports = 1 .. n
        /\ \A i \in 1 .. n : workflow.reports[i] \in Report
    BY <2>1 DEF RunInv
  <2>3. \A i \in 1 .. n : workflow.reports[i].status = "error" =>
           i = n /\ workflow.at \in {"ended", "raised"}
    BY <2>1 DEF RunInv
  <2>4. workflow.at = "ended" => workflow.reports # <<>> /\
           (W!Last(workflow.reports).status = "error" \/ n = Len(W!Steps))
    BY <2>1 DEF RunInv, W!Last
  <2>5. Reported(workflow.prev, workflow.reports)
    BY DEF RunInv
  <2>6. ASSUME NEW call \in W!Showing, workflow.prev[W!Shows(call)] # Absent
        PROVE  \E i \in 1 .. n : workflow.reports[i] = [call |-> call, status |-> "ok"]
    <3>1. W!Shows(call) \in Part \ {"snapshot"}
      BY DEF W!Shows, W!Showing, Part
    <3>2. PICK i \in 1 .. n : Makes(workflow.reports[i].call, W!Shows(call)) /\ workflow.reports[i].status = "ok"
      BY <2>1, <2>5, <2>6, <3>1 DEF Reported
    <3>3. PICK made : made = workflow.reports[i].call
      OBVIOUS
    <3>4. made \in W!Showing /\ W!Shows(made) = W!Shows(call)
      BY <3>1, <3>2, <3>3 DEF Makes
    <3>5. made = call
      BY <3>4 DEF W!Shows, W!Showing
    <3>6. workflow.reports[i] = [call |-> call, status |-> "ok"]
      BY <2>2, <3>2, <3>3, <3>5 DEF Report
    <3>7. QED
      BY <3>6
  <2>7. ASSUME workflow.prev.snapshot # Absent
        PROVE  \E i \in 1 .. n :
                  /\ workflow.reports[i].call \in {"world_engine.snapshot", "value_engine.evaluate_metrics"}
                  /\ workflow.reports[i].status = "ok"
    <3>1. PICK i \in 1 .. n : Makes(workflow.reports[i].call, "snapshot") /\ workflow.reports[i].status = "ok"
      BY <2>1, <2>5, <2>7 DEF Reported, Part
    <3>2. \A call \in W!Showing : W!Shows(call) # "snapshot"
      BY DEF W!Shows, W!Showing
    <3>3. QED
      BY <3>1, <3>2 DEF Makes
  <2>8. QED
    BY <2>1, <2>2, <2>3, <2>4, <2>6, <2>7 DEF W!ReportIsTrue
<1>2. QED
  BY <1>1, RunInductive, PTL
-----------------------------------------------------------------------------
(***************************************************************************)
(* The policy engine, which the kernel's gates ask: see Policies.          *)
(***************************************************************************)
CONSTANTS Packs, Routings, Ref, EvidenceSummary, Evaluations, CustomGate
VARIABLES packFile, routingFile, pack, gates, compiled, effective, judged

Y == INSTANCE Policies WITH Bundle <- EvidenceSummary, answer <- judged

LEMMA WhenIs == \A c, a : (Y!When(c, a) = <<>>) <=> ~c
<1>1. \A a : <<a>> # <<>>
  OBVIOUS
<1>2. QED
  BY <1>1, Zenon DEF Y!When

\* Lists that are empty are one empty list when they are put one after another.
LEMMA EmptyIsFlat ==
    ASSUME NEW n \in Nat \ {0}, NEW lists, lists = [i \in 1 .. n |-> <<>>]
    PROVE  W!P!FlattenSeq(lists) = <<>>
<1>1. lists \in Seq({<<>>}) /\ Len(lists) = n
  OBVIOUS
<1>2. PICK flat : Flat(flat, lists, n) /\ W!P!FlattenSeq(lists) = flat[n]
  BY <1>1, FlattenIs
<1>3. ASSUME NEW i \in 1 .. n
      PROVE  flat[i] = IF i = 1 THEN <<>> ELSE flat[i - 1] \o <<>>
  BY <1>2 DEF Flat
<1>4. PICK T : T = {k \in 1 .. n : flat[k] # <<>>}
  OBVIOUS
<1>5. SUFFICES ASSUME T # {} PROVE FALSE
  BY <1>2, <1>4
<1> T \subseteq Nat
  BY <1>4
<1>6. PICK k \in T : \A j \in T : k <= j
  BY <1>5, LeastNumber
<1>7. k \in 1 .. n /\ flat[k] # <<>>
  BY <1>4, <1>6
<1>8. k # 1
  BY <1>3, <1>7
<1>9. k - 1 \in 1 .. n /\ ~ (k <= k - 1)
  BY <1>7, <1>8
<1>10. flat[k - 1] = <<>>
  BY <1>4, <1>6, <1>9
<1>11. <<>> \o <<>> = <<>>
  OBVIOUS
<1>12. QED
  BY <1>3, <1>7, <1>8, <1>10, <1>11

\* The engine and the kernel's executor judge alike.
LEMMA JudgedAlike ==
    ASSUME NEW policy, NEW ev, NEW m
    PROVE  /\ \A g : Y!RunGate(g, policy, ev, m) = W!P!RunGate(g, policy, ev, m)
           /\ Y!EvaluateMetric(policy, ev, m) = W!P!EvaluateMetric(policy, ev, m)
<1>1. \A c, a : Y!When(c, a) = W!P!When(c, a)
  BY Zenon DEF Y!When, W!P!When
<1>2. Y!ValueFor(policy, m.id) = W!P!ValueFor(policy, m.id)
  BY Zenon DEF Y!ValueFor, W!P!ValueFor, Y!Filled, W!P!Filled
<1>3. Y!RuleFor(policy, m.id) = W!P!RuleFor(policy, m.id)
  BY Zenon DEF Y!RuleFor, W!P!RuleFor
<1>4. /\ Y!GateMinSources(policy, ev, m) = W!P!GateMinSources(policy, ev, m)
      /\ Y!GateMaxAge(policy, ev, m) = W!P!GateMaxAge(policy, ev, m)
  BY <1>1, Zenon DEF Y!GateMinSources, W!P!GateMinSources, Y!GateMaxAge, W!P!GateMaxAge
<1>5. Y!GateOfficial(policy, ev, m) = W!P!GateOfficial(policy, ev, m)
  BY <1>1, Zenon DEF Y!GateOfficial, W!P!GateOfficial
<1>6. Y!GateConfidence(policy, ev, m) = W!P!GateConfidence(policy, ev, m)
  BY <1>1, <1>2, Zenon DEF Y!GateConfidence, W!P!GateConfidence
<1>7. Y!GateLiteral(policy, ev, m) = W!P!GateLiteral(policy, ev, m)
  BY <1>1, <1>2, Zenon DEF Y!GateLiteral, W!P!GateLiteral
<1>8. Y!GateSpread(policy, ev, m) = W!P!GateSpread(policy, ev, m)
  BY <1>1, <1>2, Zenon DEF Y!GateSpread, W!P!GateSpread
<1>9. Y!GatePrior(policy, ev, m) = W!P!GatePrior(policy, ev, m)
  BY <1>1, Zenon DEF Y!GatePrior, W!P!GatePrior
<1>10. Y!GateConvergence(policy, ev, m) = W!P!GateConvergence(policy, ev, m)
  <2>1. \A S : Y!Cardinality(S) = W!P!Cardinality(S)
    BY DEF Y!Cardinality, W!P!Cardinality
  <2>2. QED
    BY <1>1, <1>3, <2>1, Zenon DEF Y!GateConvergence, W!P!GateConvergence
<1>11. ASSUME NEW g PROVE Y!RunGate(g, policy, ev, m) = W!P!RunGate(g, policy, ev, m)
  BY <1>4, <1>5, <1>6, <1>7, <1>8, <1>9, <1>10 DEF Y!RunGate, W!P!RunGate
<1>12. Y!EvaluateMetric(policy, ev, m) = W!P!EvaluateMetric(policy, ev, m)
  <2>1. [i \in DOMAIN policy.gates |-> Y!RunGate(policy.gates[i], policy, ev, m)] =
        [i \in DOMAIN policy.gates |-> W!P!RunGate(policy.gates[i], policy, ev, m)]
    BY <1>11
  <2>2. \A lists : Y!FlattenSeq(lists) = W!P!FlattenSeq(lists)
    BY Zenon DEF Y!FlattenSeq, W!P!FlattenSeq
  <2>3. QED
    BY <2>1, <2>2, Zenon DEF Y!EvaluateMetric, W!P!EvaluateMetric
<1>13. QED
  BY <1>11, <1>12

\* A metric passes if every gate lets it pass.
LEMMA PassingIs ==
    ASSUME NEW policy, NEW ev, NEW m, policy.gates \in Seq(Y!DefaultGates), policy.gates # <<>>
    PROVE  (Y!EvaluateMetric(policy, ev, m) = <<>>) <=>
             \A i \in DOMAIN policy.gates : Y!RunGate(policy.gates[i], policy, ev, m) = <<>>
<1>1. PICK n \in Nat \ {0} : n = Len(policy.gates) /\ DOMAIN policy.gates = 1 .. n
  OBVIOUS
<1>2. policy.gates \in Seq(W!P!DefaultGates)
  BY DEF Y!DefaultGates, W!P!DefaultGates
<1>3. ASSUME Y!EvaluateMetric(policy, ev, m) = <<>>, NEW i \in DOMAIN policy.gates
      PROVE  Y!RunGate(policy.gates[i], policy, ev, m) = <<>>
  <2>1. W!P!EvaluateMetric(policy, ev, m) = <<>>
    BY <1>3, JudgedAlike
  <2>2. i \in 1 .. Len(policy.gates)
    BY <1>1, <1>3
  <2>3. W!P!RunGate(policy.gates[i], policy, ev, m) = <<>>
    BY <1>2, <2>1, <2>2, GatesArePassed
  <2>4. QED
    BY <2>3, JudgedAlike
<1>4. ASSUME \A i \in DOMAIN policy.gates : Y!RunGate(policy.gates[i], policy, ev, m) = <<>>
      PROVE  Y!EvaluateMetric(policy, ev, m) = <<>>
  <2>1. \A i \in 1 .. n : W!P!RunGate(policy.gates[i], policy, ev, m) = <<>>
    BY <1>1, <1>4, JudgedAlike
  <2>2. [i \in DOMAIN policy.gates |-> W!P!RunGate(policy.gates[i], policy, ev, m)] =
        [i \in 1 .. n |-> <<>>]
    BY <1>1, <2>1
  <2>3. W!P!EvaluateMetric(policy, ev, m) = <<>>
    BY <2>2, EmptyIsFlat, Zenon DEF W!P!EvaluateMetric
  <2>4. QED
    BY <2>3, JudgedAlike
<1>5. QED
  BY <1>3, <1>4

\* The three policies of the shipped pack.
Strict == Y!Compile(Y!ShippedPack, "reporting_strict")
Balanced == Y!Compile(Y!ShippedPack, "decision_balanced")
Exploration == Y!Compile(Y!ShippedPack, "exploration_friendly")

LEMMA CompiledIs ==
    ASSUME NEW id
    PROVE  LET policy == Y!Compile(Y!ShippedPack, id)
               m == Y!Modes[id]
           IN  /\ policy.gates = m.gates
               /\ policy.evidence = Y!EvidencePolicy(Y!EvidenceProfiles[m.evidence])
               /\ policy.value = Y!ValuePolicy(Y!ValueProfiles[m.value])
               /\ policy.prior = Y!PriorPolicy(Y!PriorProfiles[m.prior])
               /\ policy.convergence = Y!ConvergencePolicy(Y!ConvergenceProfiles[m.convergence])
<1>1. /\ Y!ShippedPack.modes = Y!Modes /\ Y!ShippedPack.evidence = Y!EvidenceProfiles
      /\ Y!ShippedPack.value = Y!ValueProfiles /\ Y!ShippedPack.prior = Y!PriorProfiles
      /\ Y!ShippedPack.convergence = Y!ConvergenceProfiles
  BY DEF Y!ShippedPack
<1>2. QED
  BY <1>1 DEF Y!Compile

LEMMA StrictMode ==
    /\ Y!Modes["reporting_strict"].evidence = "strict" /\ Y!Modes["reporting_strict"].value = "strict"
    /\ Y!Modes["reporting_strict"].prior = "none" /\ Y!Modes["reporting_strict"].convergence = "default"
    /\ Y!Modes["reporting_strict"].gates = <<"min_sources", "require_official">> \o Y!JudgedByAll
  BY DEF Y!Modes

LEMMA BalancedMode ==
    /\ Y!Modes["decision_balanced"].evidence = "balanced" /\ Y!Modes["decision_balanced"].value = "balanced"
    /\ Y!Modes["decision_balanced"].prior = "limited" /\ Y!Modes["decision_balanced"].convergence = "default"
    /\ Y!Modes["decision_balanced"].gates = <<"min_sources">> \o Y!JudgedByAll
  BY DEF Y!Modes

LEMMA ExplorationMode ==
    /\ Y!Modes["exploration_friendly"].value = "permissive"
    /\ Y!Modes["exploration_friendly"].prior = "free"
    /\ Y!Modes["exploration_friendly"].gates = <<"spread_ratio", "prior_ratio">>
  BY DEF Y!Modes

LEMMA EvidenceFilled ==
    /\ Y!EvidencePolicy(Y!EvidenceProfiles.strict).min_sources = 2
    /\ Y!EvidencePolicy(Y!EvidenceProfiles.strict).max_age = 365
    /\ Y!EvidencePolicy(Y!EvidenceProfiles.balanced).min_sources = 1
    /\ Y!EvidencePolicy(Y!EvidenceProfiles.balanced).max_age = 730
  BY DEF Y!EvidencePolicy, Y!EvidenceProfiles, Y!Filled

LEMMA PriorFilled ==
    /\ Y!PriorPolicy(Y!PriorProfiles.none).allow = FALSE
    /\ Y!PriorPolicy(Y!PriorProfiles.limited) =
         [allow |-> TRUE, ratio |-> 30, types |-> {"pattern", "belief", "uninformative"}]
    /\ Y!PriorPolicy(Y!PriorProfiles.free) =
         [allow |-> TRUE, ratio |-> 70, types |-> {"pattern", "belief", "llm", "uninformative"}]
  BY DEF Y!PriorPolicy, Y!PriorProfiles, Y!Filled

LEMMA ValueFilled ==
    /\ Y!ValuePolicy(Y!ValueProfiles.strict) =
         [literal |-> 70, spread |-> 30, confidence |-> 80,
          specific |-> [Revenue |-> [literal |-> 90, spread |-> 20],
                        TAM |-> [literal |-> 80, spread |-> 25]]]
    /\ Y!ValuePolicy(Y!ValueProfiles.balanced) =
         [literal |-> 50, spread |-> 50, confidence |-> 60,
          specific |-> [Revenue |-> [literal |-> 70, spread |-> 30]]]
    /\ Y!ValuePolicy(Y!ValueProfiles.permissive) =
         [literal |-> 30, spread |-> 70, confidence |-> 30, specific |-> <<>>]
  BY DEF Y!ValuePolicy, Y!ValueProfiles, Y!Filled

\* What a metric must reach under each of the policies.
LEMMA StrictThresholds ==
    ASSUME NEW id
    PROVE  /\ Y!ValueFor(Strict, id).literal = IF id = "Revenue" THEN 90 ELSE IF id = "TAM" THEN 80 ELSE 70
           /\ Y!ValueFor(Strict, id).spread = IF id = "Revenue" THEN 20 ELSE IF id = "TAM" THEN 25 ELSE 30
<1>1. PICK v : v = Strict.value
  OBVIOUS
<1>2. v = [literal |-> 70, spread |-> 30, confidence |-> 80,
           specific |-> [Revenue |-> [literal |-> 90, spread |-> 20],
                         TAM |-> [literal |-> 80, spread |-> 25]]]
  BY <1>1, CompiledIs, StrictMode, ValueFilled DEF Strict
<1>3. Y!ValueFor(Strict, id) = IF id \in DOMAIN v.specific THEN Y!Filled(v.specific[id], v) ELSE v
  BY <1>1 DEF Y!ValueFor
<1>4. DOMAIN v.specific = {"Revenue", "TAM"}
  BY <1>2
<1>5. CASE id = "Revenue"
  <2>1. Y!ValueFor(Strict, id) = Y!Filled([literal |-> 90, spread |-> 20], v)
    BY <1>2, <1>3, <1>4, <1>5
  <2>2. QED
    BY <1>5, <2>1 DEF Y!Filled
<1>6. CASE id = "TAM"
  <2>1. Y!ValueFor(Strict, id) = Y!Filled([literal |-> 80, spread |-> 25], v)
    BY <1>2, <1>3, <1>4, <1>6
  <2>2. QED
    BY <1>6, <2>1 DEF Y!Filled
<1>7. CASE id \notin {"Revenue", "TAM"}
  <2>1. Y!ValueFor(Strict, id) = v
    BY <1>3, <1>4, <1>7
  <2>2. QED
    BY <1>2, <1>7, <2>1
<1>8. QED
  BY <1>5, <1>6, <1>7

LEMMA BalancedThresholds ==
    ASSUME NEW id
    PROVE  /\ Y!ValueFor(Balanced, id).literal = IF id = "Revenue" THEN 70 ELSE 50
           /\ Y!ValueFor(Balanced, id).spread = IF id = "Revenue" THEN 30 ELSE 50
<1>1. PICK v : v = Balanced.value
  OBVIOUS
<1>2. v = [literal |-> 50, spread |-> 50, confidence |-> 60,
           specific |-> [Revenue |-> [literal |-> 70, spread |-> 30]]]
  BY <1>1, CompiledIs, BalancedMode, ValueFilled DEF Balanced
<1>3. Y!ValueFor(Balanced, id) = IF id \in DOMAIN v.specific THEN Y!Filled(v.specific[id], v) ELSE v
  BY <1>1 DEF Y!ValueFor
<1>4. DOMAIN v.specific = {"Revenue"}
  BY <1>2
<1>5. CASE id = "Revenue"
  <2>1. Y!ValueFor(Balanced, id) = Y!Filled([literal |-> 70, spread |-> 30], v)
    BY <1>2, <1>3, <1>4, <1>5
  <2>2. QED
    BY <1>5, <2>1 DEF Y!Filled
<1>6. CASE id # "Revenue"
  BY <1>2, <1>3, <1>4, <1>6
<1>7. QED
  BY <1>5, <1>6

LEMMA ExplorationThresholds ==
    ASSUME NEW id
    PROVE  Y!ValueFor(Exploration, id).spread = 70
<1>1. PICK v : v = Exploration.value
  OBVIOUS
<1>2. v = [literal |-> 30, spread |-> 70, confidence |-> 30, specific |-> <<>>]
  BY <1>1, CompiledIs, ExplorationMode, ValueFilled DEF Exploration
<1>3. DOMAIN v.specific = {}
  BY <1>2
<1>4. Y!ValueFor(Exploration, id) = v
  BY <1>1, <1>3 DEF Y!ValueFor
<1>5. QED
  BY <1>2, <1>4

\* Two lists one after the other.
LEMMA ConcatIs ==
    ASSUME NEW S, NEW a \in Seq(S), NEW b \in Seq(S), NEW c \in Seq(S), Len(c) = Len(a) + Len(b),
           \A i \in 1 .. Len(a) : c[i] = a[i], \A i \in 1 .. Len(b) : c[Len(a) + i] = b[i]
    PROVE  a \o b = c
<1>1. a \o b \in Seq(S) /\ Len(a \o b) = Len(c)
  BY ConcatProperties
<1>2. Len(a) \in Nat /\ Len(b) \in Nat
  OBVIOUS
<1>3. ASSUME NEW i \in 1 .. Len(a \o b) PROVE (a \o b)[i] = c[i]
  <2>1. (a \o b)[i] = IF i <= Len(a) THEN a[i] ELSE b[i - Len(a)]
    BY <1>1, <1>3, ConcatProperties
  <2>2. CASE i <= Len(a)
    BY <1>2, <2>1, <2>2
  <2>3. CASE ~(i <= Len(a))
    <3>1. i - Len(a) \in 1 .. Len(b) /\ Len(a) + (i - Len(a)) = i
      BY <1>1, <1>2, <2>3
    <3>2. QED
      BY <2>1, <2>3, <3>1
  <2>4. QED
    BY <2>2, <2>3
<1>4. QED
  BY <1>1, <1>3, SeqEqual

\* The gates that they list.
LEMMA ShippedGates ==
    /\ Strict.gates = <<"min_sources", "require_official", "max_age", "literal_ratio", "spread_ratio",
                        "prior_ratio", "convergence">>
    /\ Balanced.gates = <<"min_sources", "max_age", "literal_ratio", "spread_ratio", "prior_ratio",
                          "convergence">>
    /\ Exploration.gates = <<"spread_ratio", "prior_ratio">>
<1>1. Strict.gates = <<"min_sources", "require_official">> \o Y!JudgedByAll
  BY CompiledIs, StrictMode DEF Strict
<1>2. Balanced.gates = <<"min_sources">> \o Y!JudgedByAll
  BY CompiledIs, BalancedMode DEF Balanced
<1>3. Exploration.gates = <<"spread_ratio", "prior_ratio">>
  BY CompiledIs, ExplorationMode DEF Exploration
<1>4. Y!JudgedByAll \in Seq(Y!DefaultGates) /\ Len(Y!JudgedByAll) = 5
  BY DEF Y!JudgedByAll, Y!DefaultGates
<1>5. <<"min_sources", "require_official">> \o Y!JudgedByAll =
      <<"min_sources", "require_official", "max_age", "literal_ratio", "spread_ratio", "prior_ratio",
        "convergence">>
  <2>1. PICK a : a = <<"min_sources", "require_official">>
    OBVIOUS
  <2>2. PICK b : b = Y!JudgedByAll
    OBVIOUS
  <2>3. PICK c : c = <<"min_sources", "require_official", "max_age", "literal_ratio", "spread_ratio",
                  "prior_ratio", "convergence">>
    OBVIOUS
  <2> a \in Seq(Y!DefaultGates) /\ Len(a) = 2
    BY <2>1 DEF Y!DefaultGates
  <2> b \in Seq(Y!DefaultGates) /\ Len(b) = 5
    BY <1>4, <2>2
  <2> c \in Seq(Y!DefaultGates) /\ Len(c) = 7
    BY <2>3 DEF Y!DefaultGates
  <2>4. \A i \in 1 .. Len(a) : c[i] = a[i]
    BY <2>1, <2>3
  <2>5. \A i \in 1 .. Len(b) : c[Len(a) + i] = b[i]
    <3>1. ASSUME NEW i \in 1 .. 5 PROVE c[2 + i] = b[i]
      BY <2>2, <2>3 DEF Y!JudgedByAll
    <3>2. QED
      BY <3>1
  <2>6. Len(c) = Len(a) + Len(b)
    OBVIOUS
  <2>7. a \o b = c
    BY <2>4, <2>5, <2>6, ConcatIs, Zenon
  <2>8. QED
    BY <2>1, <2>2, <2>3, <2>7
<1>6. <<"min_sources">> \o Y!JudgedByAll =
      <<"min_sources", "max_age", "literal_ratio", "spread_ratio", "prior_ratio", "convergence">>
  <2>1. PICK a : a = <<"min_sources">>
    OBVIOUS
  <2>2. PICK b : b = Y!JudgedByAll
    OBVIOUS
  <2>3. PICK c : c = <<"min_sources", "max_age", "literal_ratio", "spread_ratio", "prior_ratio",
                  "convergence">>
    OBVIOUS
  <2> a \in Seq(Y!DefaultGates) /\ Len(a) = 1
    BY <2>1 DEF Y!DefaultGates
  <2> b \in Seq(Y!DefaultGates) /\ Len(b) = 5
    BY <1>4, <2>2
  <2> c \in Seq(Y!DefaultGates) /\ Len(c) = 6
    BY <2>3 DEF Y!DefaultGates
  <2>4. \A i \in 1 .. Len(a) : c[i] = a[i]
    BY <2>1, <2>3
  <2>5. \A i \in 1 .. Len(b) : c[Len(a) + i] = b[i]
    <3>1. ASSUME NEW i \in 1 .. 5 PROVE c[1 + i] = b[i]
      BY <2>2, <2>3 DEF Y!JudgedByAll
    <3>2. QED
      BY <3>1
  <2>6. Len(c) = Len(a) + Len(b)
    OBVIOUS
  <2>7. a \o b = c
    BY <2>4, <2>5, <2>6, ConcatIs, Zenon
  <2>8. QED
    BY <2>1, <2>2, <2>3, <2>7
<1>7. QED
  BY <1>1, <1>2, <1>3, <1>5, <1>6

LEMMA ShippedGatesAreListed ==
    /\ Strict.gates \in Seq(Y!DefaultGates) /\ Strict.gates # <<>>
    /\ Balanced.gates \in Seq(Y!DefaultGates) /\ Balanced.gates # <<>>
    /\ Exploration.gates \in Seq(Y!DefaultGates) /\ Exploration.gates # <<>>
  BY ShippedGates DEF Y!DefaultGates

\* When each gate lets a metric pass.
LEMMA GatesPass ==
    ASSUME NEW policy, NEW ev, NEW m
    PROVE  /\ (Y!RunGate("min_sources", policy, ev, m) = <<>>) <=> ~(ev.sources < policy.evidence.min_sources)
           /\ (Y!RunGate("max_age", policy, ev, m) = <<>>) <=> ~(ev.age > policy.evidence.max_age)
           /\ (Y!RunGate("literal_ratio", policy, ev, m) = <<>>) <=>
                ~(m.literal < Y!ValueFor(policy, m.id).literal)
           /\ (Y!RunGate("spread_ratio", policy, ev, m) = <<>>) <=>
                ~(m.spread # Absent /\ m.spread > Y!ValueFor(policy, m.id).spread)
<1>1. /\ Y!RunGate("min_sources", policy, ev, m) = Y!GateMinSources(policy, ev, m)
      /\ Y!RunGate("max_age", policy, ev, m) = Y!GateMaxAge(policy, ev, m)
      /\ Y!RunGate("literal_ratio", policy, ev, m) = Y!GateLiteral(policy, ev, m)
      /\ Y!RunGate("spread_ratio", policy, ev, m) = Y!GateSpread(policy, ev, m)
  BY DEF Y!RunGate
<1>2. QED
  BY <1>1, WhenIs, Zenon DEF Y!GateMinSources, Y!GateMaxAge, Y!GateLiteral, Y!GateSpread

\* ... of priors, under a policy that allows none and under one that allows some.
LEMMA PriorGatePasses ==
    ASSUME NEW policy, NEW ev, NEW m
    PROVE  /\ ~policy.prior.allow =>
                ((Y!RunGate("prior_ratio", policy, ev, m) = <<>>) <=> ~(m.prior > 0 \/ m.priors # {}))
           /\ policy.prior.allow =>
                ((Y!RunGate("prior_ratio", policy, ev, m) = <<>>) <=>
                   ~(m.prior > policy.prior.ratio) /\ m.priors \subseteq policy.prior.types)
<1>1. Y!RunGate("prior_ratio", policy, ev, m) = Y!GatePrior(policy, ev, m)
  BY DEF Y!RunGate
<1>2. CASE ~policy.prior.allow
  <2>1. Y!GatePrior(policy, ev, m) = Y!When(m.prior > 0 \/ m.priors # {}, "rerun_without_prior")
    BY <1>2, Zenon DEF Y!GatePrior
  <2>2. QED
    BY <1>1, <1>2, <2>1, WhenIs, Zenon
<1>3. CASE policy.prior.allow
  <2>1. PICK a \in Seq(Action) : /\ a = Y!When(m.prior > policy.prior.ratio, "increase_evidence_share")
                                 /\ (a = <<>>) <=> ~(m.prior > policy.prior.ratio)
    <3>1. \A c : Y!When(c, "increase_evidence_share") \in Seq(Action)
      BY ActionLists, Zenon DEF Action, Y!When
    <3>2. QED
      BY <3>1, WhenIs, Zenon
  <2>2. PICK b \in Seq(Action) :
            /\ b = Y!When(~(m.priors \subseteq policy.prior.types), "rerun_with_allowed_prior_types")
            /\ (b = <<>>) <=> m.priors \subseteq policy.prior.types
    <3>1. \A c : Y!When(c, "rerun_with_allowed_prior_types") \in Seq(Action)
      BY ActionLists, Zenon DEF Action, Y!When
    <3>2. QED
      BY <3>1, WhenIs, Zenon
  <2>3. Y!GatePrior(policy, ev, m) = a \o b
    BY <1>3, <2>1, <2>2, Zenon DEF Y!GatePrior
  <2>4. (a \o b = <<>>) <=> (a = <<>> /\ b = <<>>)
    <3>1. <<>> \o <<>> = <<>>
      OBVIOUS
    <3>2. QED
      BY <3>1, EmptyConcat
  <2>5. QED
    BY <1>1, <1>3, <2>1, <2>2, <2>3, <2>4
<1>4. QED
  BY <1>2, <1>3

\* What the kind of numbers is that gates compare.
Judgeable(ev, m) ==
    /\ ev.sources \in Int /\ ev.age \in Int /\ m.literal \in Int /\ m.prior \in Int
    /\ m.spread \in Int \/ m.spread = Absent

\* What passes the strict policy passes the balanced one ...
LEMMA StrictPassesBalanced ==
    ASSUME NEW ev, NEW m, Judgeable(ev, m), Y!EvaluateMetric(Strict, ev, m) = <<>>
    PROVE  Y!EvaluateMetric(Balanced, ev, m) = <<>>
<1>1. \A g \in {"min_sources", "max_age", "literal_ratio", "spread_ratio", "prior_ratio", "convergence"} :
         Y!RunGate(g, Strict, ev, m) = <<>>
  <2>1. \A i \in DOMAIN Strict.gates : Y!RunGate(Strict.gates[i], Strict, ev, m) = <<>>
    BY PassingIs, ShippedGatesAreListed
  <2>2. /\ DOMAIN Strict.gates = 1 .. 7
        /\ Strict.gates[1] = "min_sources" /\ Strict.gates[3] = "max_age"
        /\ Strict.gates[4] = "literal_ratio" /\ Strict.gates[5] = "spread_ratio"
        /\ Strict.gates[6] = "prior_ratio" /\ Strict.gates[7] = "convergence"
    BY ShippedGates
  <2>3. 1 \in 1 .. 7 /\ 3 \in 1 .. 7 /\ 4 \in 1 .. 7 /\ 5 \in 1 .. 7 /\ 6 \in 1 .. 7 /\ 7 \in 1 .. 7
    OBVIOUS
  <2>4. QED
    BY <2>1, <2>2, <2>3
<1>2. Y!RunGate("min_sources", Balanced, ev, m) = <<>> /\ Y!RunGate("max_age", Balanced, ev, m) = <<>>
  <2>1. /\ Strict.evidence.min_sources = 2 /\ Strict.evidence.max_age = 365
        /\ Balanced.evidence.min_sources = 1 /\ Balanced.evidence.max_age = 730
    <3>1. /\ Strict.evidence = Y!EvidencePolicy(Y!EvidenceProfiles.strict)
          /\ Balanced.evidence = Y!EvidencePolicy(Y!EvidenceProfiles.balanced)
      BY CompiledIs, StrictMode, BalancedMode DEF Strict, Balanced
    <3>2. QED
      BY <3>1, EvidenceFilled
  <2>2. ~(ev.sources < 2) /\ ~(ev.age > 365)
    BY <1>1, <2>1, GatesPass
  <2>3. ~(ev.sources < 1) /\ ~(ev.age > 730)
    BY <2>2 DEF Judgeable
  <2>4. QED
    BY <2>1, <2>3, GatesPass
<1>3. Y!RunGate("literal_ratio", Balanced, ev, m) = <<>>
  <2>1. ~(m.literal < Y!ValueFor(Strict, m.id).literal)
    BY <1>1, GatesPass
  <2>2. ~(m.literal < Y!ValueFor(Balanced, m.id).literal)
    BY <2>1, StrictThresholds, BalancedThresholds DEF Judgeable
  <2>3. QED
    BY <2>2, GatesPass
<1>4. Y!RunGate("spread_ratio", Balanced, ev, m) = <<>>
  <2>1. ~(m.spread # Absent /\ m.spread > Y!ValueFor(Strict, m.id).spread)
    BY <1>1, GatesPass
  <2>2. ~(m.spread # Absent /\ m.spread > Y!ValueFor(Balanced, m.id).spread)
    BY <2>1, StrictThresholds, BalancedThresholds DEF Judgeable
  <2>3. QED
    BY <2>2, GatesPass
<1>5. Y!RunGate("prior_ratio", Balanced, ev, m) = <<>>
  <2>1. Strict.prior.allow = FALSE /\ Balanced.prior.allow = TRUE /\ Balanced.prior.ratio = 30
    BY CompiledIs, StrictMode, BalancedMode, PriorFilled DEF Strict, Balanced
  <2>2. ~(m.prior > 0) /\ m.priors = {}
    BY <1>1, <2>1, PriorGatePasses
  <2>3. ~(m.prior > 30)
    BY <2>2 DEF Judgeable
  <2>4. QED
    BY <2>1, <2>2, <2>3, PriorGatePasses
<1>6. Y!RunGate("convergence", Balanced, ev, m) = <<>>
  <2>1. Strict.convergence = Balanced.convergence
    BY CompiledIs, StrictMode, BalancedMode DEF Strict, Balanced
  <2>2. Y!RuleFor(Strict, m.id) = Y!RuleFor(Balanced, m.id)
    BY <2>1, Zenon DEF Y!RuleFor
  <2>3. Y!GateConvergence(Strict, ev, m) = Y!GateConvergence(Balanced, ev, m)
    BY <2>2, Zenon DEF Y!GateConvergence
  <2>4. \A policy : Y!RunGate("convergence", policy, ev, m) = Y!GateConvergence(policy, ev, m)
    BY DEF Y!RunGate
  <2>5. QED
    BY <1>1, <2>3, <2>4
<1>7. \A i \in DOMAIN Balanced.gates : Y!RunGate(Balanced.gates[i], Balanced, ev, m) = <<>>
  <2>1. \A i \in DOMAIN Balanced.gates : Balanced.gates[i] \in
          {"min_sources", "max_age", "literal_ratio", "spread_ratio", "prior_ratio", "convergence"}
    BY ShippedGates
  <2>2. QED
    BY <1>2, <1>3, <1>4, <1>5, <1>6, <2>1
<1>8. QED
  BY <1>7, PassingIs, ShippedGatesAreListed

\* ... and what passes the balanced policy passes that of explorations.
LEMMA BalancedPassesExploration ==
    ASSUME NEW ev, NEW m, Judgeable(ev, m), Y!EvaluateMetric(Balanced, ev, m) = <<>>
    PROVE  Y!EvaluateMetric(Exploration, ev, m) = <<>>
<1>1. Y!RunGate("spread_ratio", Balanced, ev, m) = <<>> /\ Y!RunGate("prior_ratio", Balanced, ev, m) = <<>>
  <2>1. \A i \in DOMAIN Balanced.gates : Y!RunGate(Balanced.gates[i], Balanced, ev, m) = <<>>
    BY PassingIs, ShippedGatesAreListed
  <2>2. /\ DOMAIN Balanced.gates = 1 .. 6 /\ Balanced.gates[4] = "spread_ratio"
        /\ Balanced.gates[5] = "prior_ratio" /\ 4 \in 1 .. 6 /\ 5 \in 1 .. 6
    BY ShippedGates
  <2>3. QED
    BY <2>1, <2>2
<1>2. Y!RunGate("spread_ratio", Exploration, ev, m) = <<>>
  <2>1. ~(m.spread # Absent /\ m.spread > Y!ValueFor(Balanced, m.id).spread)
    BY <1>1, GatesPass
  <2>2. ~(m.spread # Absent /\ m.spread > Y!ValueFor(Exploration, m.id).spread)
    BY <2>1, BalancedThresholds, ExplorationThresholds DEF Judgeable
  <2>3. QED
    BY <2>2, GatesPass
<1>3. Y!RunGate("prior_ratio", Exploration, ev, m) = <<>>
  <2>1. /\ Balanced.prior = [allow |-> TRUE, ratio |-> 30, types |-> {"pattern", "belief", "uninformative"}]
        /\ Exploration.prior =
             [allow |-> TRUE, ratio |-> 70, types |-> {"pattern", "belief", "llm", "uninformative"}]
    BY CompiledIs, BalancedMode, ExplorationMode, PriorFilled DEF Balanced, Exploration
  <2>2. ~(m.prior > 30) /\ m.priors \subseteq {"pattern", "belief", "uninformative"}
    BY <1>1, <2>1, PriorGatePasses
  <2>3. ~(m.prior > 70) /\ m.priors \subseteq {"pattern", "belief", "llm", "uninformative"}
    BY <2>2 DEF Judgeable
  <2>4. QED
    BY <2>1, <2>3, PriorGatePasses
<1>4. \A i \in DOMAIN Exploration.gates : Y!RunGate(Exploration.gates[i], Exploration, ev, m) = <<>>
  <2>1. \A i \in DOMAIN Exploration.gates : Exploration.gates[i] \in {"spread_ratio", "prior_ratio"}
    BY ShippedGates
  <2>2. QED
    BY <1>2, <1>3, <2>1
<1>5. QED
  BY <1>4, PassingIs, ShippedGatesAreListed

\* What a metric is judged to lack is a list ...
LEMMA JudgedIsList ==
    ASSUME NEW policy, NEW ev, NEW m, NEW G, policy.gates \in Seq(G)
    PROVE  Y!EvaluateMetric(policy, ev, m) \in Seq(Action)
<1>1. PICK n \in Nat : n = Len(policy.gates) /\ DOMAIN policy.gates = 1 .. n
  OBVIOUS
<1>2. PICK lists : lists = [i \in 1 .. n |-> W!P!RunGate(policy.gates[i], policy, ev, m)]
  OBVIOUS
<1>3. lists \in [1 .. n -> Seq(Action)]
  BY <1>2, GateList
<1>4. W!P!EvaluateMetric(policy, ev, m) = W!P!FlattenSeq(lists)
  BY <1>1, <1>2 DEF W!P!EvaluateMetric
<1>5. lists \in Seq(Seq(Action)) /\ Len(lists) = n
  BY <1>3
<1>6. CASE n = 0
  <2>1. W!P!FlattenSeq(lists) = lists
    BY <1>5, <1>6 DEF W!P!FlattenSeq
  <2>2. lists = <<>>
    BY <1>5, <1>6
  <2>3. Y!EvaluateMetric(policy, ev, m) = <<>>
    BY <1>4, <2>1, <2>2, JudgedAlike
  <2>4. QED
    BY <2>3, ActionLists
<1>7. CASE n # 0
  <2>1. PICK flat : Flat(flat, lists, n) /\ W!P!FlattenSeq(lists) = flat[n]
    BY <1>5, <1>7, FlattenIs
  <2>2. flat[n] \in Seq(Action)
    BY <1>3, <1>7, <2>1, FlatLists
  <2>3. QED
    BY <1>4, <2>1, <2>2, JudgedAlike
<1>8. QED
  BY <1>6, <1>7

\* ... and a judgement is about the last metric of each identifier.
LEMMA LastOfId ==
    ASSUME NEW S, NEW ms \in Seq(S), NEW i \in DOMAIN ms
    PROVE  LET T == {j \in DOMAIN ms : ms[j].id = ms[i].id}
           IN  Y!Max(T) \in T
<1>1. PICK n \in Nat : DOMAIN ms = 1 .. n
  OBVIOUS
<1>2. PICK T : T = {j \in DOMAIN ms : ms[j].id = ms[i].id}
  OBVIOUS
<1>3. T \subseteq 0 .. n /\ T # {} /\ T \subseteq Int
  BY <1>1, <1>2
<1>4. PICK x \in T : \A y \in T : y <= x
  BY <1>3, LargestNumber
<1>5. \A y \in T : x >= y
  BY <1>3, <1>4
<1>6. Y!Max(T) \in T
  BY <1>5, Zenon DEF Y!Max
<1>7. QED
  BY <1>2, <1>6

\* A judgement that passes names nothing, and one that fails names what failed, unless another
\* metric of its identifier came after it.
LEMMA JudgedTruly ==
    ASSUME NEW policy, NEW ev, NEW S, NEW ms \in Seq(S), NEW G, policy.gates \in Seq(G)
    PROVE  LET dry == Y!DryRun(policy, ev, ms)
           IN  /\ dry.would <=> \A i \in DOMAIN ms : Y!EvaluateMetric(policy, ev, ms[i]) = <<>>
               /\ dry.would => dry.failed = {} /\ dry.actions = {}
               /\ (~dry.would /\ \A i, j \in DOMAIN ms : i # j => ms[i].id # ms[j].id)
                     => dry.failed # {} /\ dry.total > 0
<1> DEFINE Lacks(m) == Y!EvaluateMetric(policy, ev, m)
           Ids == {ms[i].id : i \in DOMAIN ms}
           Latest(id) == Y!Max({i \in DOMAIN ms : ms[i].id = id})
<1>1. PICK by : by = [id \in Ids |-> Lacks(ms[Latest(id)])]
  OBVIOUS
<1>2. PICK pairs : pairs = UNION {{id} \X DOMAIN by[id] : id \in Ids}
  OBVIOUS
<1>3. PICK dry : dry = Y!DryRun(policy, ev, ms)
  OBVIOUS
<1>4. /\ dry.would = (\A i \in DOMAIN ms : Lacks(ms[i]) = <<>>)
      /\ dry.failed = {id \in Ids : by[id] # <<>>}
      /\ dry.actions = UNION {Y!ToSet(by[id]) : id \in Ids}
      /\ dry.total = Y!Cardinality(pairs)
  BY <1>1, <1>2, <1>3 DEF Y!DryRun, Y!EvaluateMetrics, Y!FailedMetrics, Y!TotalViolations, Y!SuggestedActions
<1>5. \A id \in Ids : Latest(id) \in DOMAIN ms /\ ms[Latest(id)].id = id
  BY LastOfId
<1>6. \A m : Lacks(m) \in Seq(Action)
  BY JudgedIsList
<1> HIDE DEF Latest
<1>8. by \in [Ids -> Seq(Action)]
  BY <1>1, <1>6
<1> HIDE DEF Lacks
<1>9. ASSUME \A i \in DOMAIN ms : Lacks(ms[i]) = <<>> PROVE dry.failed = {} /\ dry.actions = {}
  <2>1. \A id \in Ids : by[id] = <<>>
    BY <1>1, <1>5, <1>9
  <2>2. Y!ToSet(<<>>) = {}
    BY DEF Y!ToSet
  <2>3. QED
    BY <1>4, <2>1, <2>2
<1>10. ASSUME NEW i \in DOMAIN ms, Lacks(ms[i]) # <<>>,
              \A j, k \in DOMAIN ms : j # k => ms[j].id # ms[k].id
       PROVE  dry.failed # {} /\ dry.total > 0
  <2>1. PICK id \in Ids : id = ms[i].id
    OBVIOUS
  <2>2. Latest(id) = i
    BY <1>5, <1>10, <2>1
  <2>3. by[id] # <<>> /\ by[id] \in Seq(Action)
    BY <1>1, <1>6, <1>10, <2>2
  <2>4. PICK n \in Nat : DOMAIN ms = 1 .. n
    OBVIOUS
  <2>5. [j \in 1 .. n |-> ms[j].id] \in Surjection(1 .. n, Ids)
    BY <2>4 DEF Surjection
  <2>6. IsFiniteSet(Ids)
    BY <2>5, FS_Interval, FS_Surjection
  <2> HIDE DEF Ids
  <2>7. 1 \in DOMAIN by[id]
    BY <2>3
  <2>8. <<id, 1>> \in {id} \X DOMAIN by[id]
    BY <2>7
  <2>9. pairs # {}
    BY <1>2, <2>8
  <2>10. IsFiniteSet(pairs)
    <3>1. PICK part : part = [d \in Ids |-> {d} \X DOMAIN by[d]]
      OBVIOUS
    <3>2. PICK parts : parts = {part[d] : d \in Ids}
      OBVIOUS
    <3>3. part \in Surjection(Ids, parts)
      BY <3>1, <3>2 DEF Surjection
    <3>4. IsFiniteSet(parts)
      BY <2>6, <3>3, FS_Surjection
    <3>5. ASSUME NEW d \in Ids PROVE IsFiniteSet(part[d])
      <4>1. by[d] \in Seq(Action)
        BY <1>8
      <4>2. PICK k \in Nat : DOMAIN by[d] = 1 .. k
        BY <4>1
      <4>3. IsFiniteSet(1 .. k)
        BY <4>2, FS_Interval
      <4>4. IsFiniteSet({d} \X (1 .. k))
        BY <4>3, FS_Singleton, FS_Product, Zenon
      <4>5. part[d] = {d} \X (1 .. k)
        BY <3>1, <4>2
      <4>6. QED
        BY <4>4, <4>5
    <3>6. \A one \in parts : IsFiniteSet(one)
      BY <3>2, <3>5
    <3>7. IsFiniteSet(UNION parts)
      BY <3>4, <3>6, FS_UNION
    <3>8. parts = {{d} \X DOMAIN by[d] : d \in Ids}
      BY <3>1, <3>2
    <3>9. pairs = UNION parts
      BY <1>2, <3>8
    <3>10. QED
      BY <3>7, <3>9
  <2>11. Cardinality(pairs) \in Nat /\ Cardinality(pairs) # 0
    BY <2>9, <2>10, FS_EmptySet, FS_CardinalityType
  <2>12. Y!Cardinality(pairs) = Cardinality(pairs)
    BY DEF Y!Cardinality, Cardinality
  <2>13. dry.failed # {}
    BY <1>4, <2>1, <2>3
  <2>14. QED
    BY <1>4, <2>11, <2>12, <2>13
<1>11. dry.would <=> \A i \in DOMAIN ms : Lacks(ms[i]) = <<>>
  BY <1>4
<1>12. dry.would => dry.failed = {} /\ dry.actions = {}
  BY <1>9, <1>11
<1>13. (~dry.would /\ \A i, j \in DOMAIN ms : i # j => ms[i].id # ms[j].id)
          => dry.failed # {} /\ dry.total > 0
  BY <1>10, <1>11
<1>14. QED
  BY <1>3, <1>11, <1>12, <1>13 DEF Lacks

\* What the engine has cached is what its own pack says, and what it judged last is what that pack
\* says of the evidence and the metrics it was given.
PolicyInv ==
    /\ Y!TypeOK
    /\ compiled = [id \in Y!Policy |-> compiled[id]]
    /\ \A id \in Y!Policy : compiled[id] # Absent =>
          id \in DOMAIN pack.modes /\ compiled[id] = Y!Compile(pack, id)
    /\ \A e \in effective : e.routing = e.key.routing
    /\ (judged # Absent /\ judged.kind = "judgement") =>
          \E id \in Y!Policy, ev \in EvidenceSummary, ms \in Evaluations :
             /\ id \in DOMAIN pack.modes
             /\ judged = [kind |-> "judgement", id |-> id, ev |-> ev, ms |-> ms,
                          run |-> Y!DryRun(Y!Compile(pack, id), ev, ms)]

LEMMA CachedIs ==
    ASSUME PolicyInv, NEW id \in Y!Policy, Y!Known(id), Y!Cached(id), pack' = pack
    PROVE  /\ compiled' = [d \in Y!Policy |-> compiled'[d]]
           /\ id \in DOMAIN pack.modes
           /\ \A d \in Y!Policy : compiled'[d] # Absent =>
                 d \in DOMAIN pack.modes /\ compiled'[d] = Y!Compile(pack, d)
           /\ \A d \in Y!Policy : compiled'[d] # Absent => compiled'[d].id = d
           /\ Y!PolicyOf(id) = Y!Compile(pack, id)
<1>1. Y!PolicyOf(id) = Y!Compile(pack, id)
  BY Zenon DEF PolicyInv, Y!PolicyOf
<1>2. compiled' = [compiled EXCEPT ![id] = Y!Compile(pack, id)]
  BY <1>1 DEF Y!Cached
<1>3. PICK new : new = Y!Compile(pack, id)
  OBVIOUS
<1>4. compiled' = [d \in Y!Policy |-> IF d = id THEN new ELSE compiled[d]]
  BY <1>2, <1>3 DEF PolicyInv
<1>5. \A d : Y!Compile(pack, d).id = d
  BY DEF Y!Compile
<1>6. id \in DOMAIN pack.modes
  BY DEF PolicyInv, Y!Known, Y!Compilable
<1>7. \A d \in Y!Policy : compiled'[d] # Absent =>
         d \in DOMAIN pack.modes /\ compiled'[d] = Y!Compile(pack, d)
  BY <1>3, <1>4, <1>6 DEF PolicyInv
<1>8. QED
  BY <1>1, <1>4, <1>5, <1>6, <1>7

LEMMA PolicyInitial ==
    ASSUME Y!PolicyAssumption, Y!Init
    PROVE  PolicyInv
<1>1. Y!TypeOK
  BY DEF Y!Init, Y!TypeOK, Y!PolicyAssumption, Y!NoCompiled
<1>2. QED
  BY <1>1 DEF Y!Init, PolicyInv, Y!NoCompiled

LEMMA PolicyStep ==
    ASSUME Y!PolicyAssumption, PolicyInv, [Y!Next]_(Y!vars)
    PROVE  PolicyInv'
<1>1. CASE Y!EditPack
  BY <1>1 DEF PolicyInv, Y!TypeOK, Y!EditPack
<1>2. CASE Y!EditRouting
  BY <1>2 DEF PolicyInv, Y!TypeOK, Y!EditRouting
<1>3. CASE Y!NewEngine
  <2>1. Y!TypeOK'
    BY <1>3 DEF PolicyInv, Y!TypeOK, Y!NewEngine, Y!NoCompiled
  <2>2. QED
    BY <1>3, <2>1 DEF PolicyInv, Y!NewEngine, Y!NoCompiled
<1>4. CASE \E g \in CustomGate : Y!RegisterGate(g)
  BY <1>4 DEF PolicyInv, Y!TypeOK, Y!RegisterGate
<1>5. ASSUME NEW ref \in DOMAIN Ref, Y!ResolveEffective(ref) PROVE PolicyInv'
  <2>1. PICK id, key, hits, entry :
            /\ id = Ref[ref] /\ key = Y!EffectiveKey(ref, id, Y!RoutingOf(id))
            /\ hits = {e \in effective : e.key = key}
            /\ entry = IF hits # {} THEN CHOOSE e \in hits : TRUE
                       ELSE [key |-> key, ref |-> ref, routing |-> Y!RoutingOf(id)]
    OBVIOUS
  <2>2. /\ id \in Y!Policy /\ Y!Known(id) /\ Y!Cached(id) /\ effective' = effective \union {entry}
        /\ judged' = [kind |-> "routing", ref |-> ref, routing |-> entry.routing]
        /\ UNCHANGED <<packFile, routingFile, pack, gates>>
    BY <1>5, <2>1 DEF Y!ResolveEffective
  <2>3. entry.routing = entry.key.routing
    <3>1. CASE hits # {}
      BY <2>1, <3>1 DEF PolicyInv
    <3>2. CASE hits = {}
      BY <2>1, <3>2 DEF Y!EffectiveKey
    <3>3. QED
      BY <3>1, <3>2
  <2>4. Y!TypeOK'
    BY <2>2, CachedIs DEF PolicyInv, Y!TypeOK
  <2>5. judged'.kind # "judgement"
    BY <2>2
  <2>6. \A e \in effective' : e.routing = e.key.routing
    BY <2>2, <2>3 DEF PolicyInv
  <2>7. QED
    BY <2>2, <2>4, <2>5, <2>6, CachedIs DEF PolicyInv
<1>6. ASSUME NEW id \in Y!Policy, NEW ev \in EvidenceSummary, NEW ms \in Evaluations,
             Y!Evaluate(id, ev, ms)
      PROVE  PolicyInv'
  <2>1. /\ Y!Known(id) /\ Y!Cached(id)
        /\ judged' = [kind |-> "judgement", id |-> id, ev |-> ev, ms |-> ms,
                      run |-> Y!DryRun(Y!PolicyOf(id), ev, ms)]
        /\ UNCHANGED <<packFile, routingFile, pack, gates, effective>>
    BY <1>6 DEF Y!Evaluate
  <2>2. Y!TypeOK'
    BY <2>1, CachedIs DEF PolicyInv, Y!TypeOK
  <2>3. judged' = [kind |-> "judgement", id |-> id, ev |-> ev, ms |-> ms,
                   run |-> Y!DryRun(Y!Compile(pack', id), ev, ms)]
    BY <2>1, CachedIs
  <2>4. QED
    BY <2>1, <2>2, <2>3, CachedIs DEF PolicyInv
<1>7. ASSUME NEW role, NEW usage, NEW override, Y!Route(role, usage, override) PROVE PolicyInv'
  <2>1. /\ judged' = [kind |-> "route", id |-> Y!ResolvePolicyId(pack, role, usage, override)]
        /\ UNCHANGED <<packFile, routingFile, pack, gates, compiled, effective>>
    BY <1>7 DEF Y!Route
  <2>2. judged'.kind # "judgement"
    BY <2>1
  <2>3. Y!TypeOK'
    BY <2>1 DEF PolicyInv, Y!TypeOK
  <2>4. QED
    BY <2>1, <2>2, <2>3 DEF PolicyInv
<1>8. CASE UNCHANGED Y!vars
  BY <1>8 DEF PolicyInv, Y!TypeOK, Y!vars
<1>9. QED
  BY <1>1, <1>2, <1>3, <1>4, <1>5, <1>6, <1>7, <1>8 DEF Y!Next

LEMMA PolicyInductive == ASSUME Y!PolicyAssumption PROVE Y!Spec => []PolicyInv
  BY PolicyInitial, PolicyStep, PTL DEF Y!Spec

\* What an engine holds stays within its types, whatever packs, routings and gates there are
\* (cmis_core/policy_engine.py).
THEOREM PoliciesTyped == ASSUME Y!PolicyAssumption PROVE Y!Spec => []Y!TypeOK
<1>1. PolicyInv => Y!TypeOK
  BY DEF PolicyInv
<1>2. QED
  BY <1>1, PolicyInductive, PTL

\* Whatever was resolved and edited before, under whatever name, what the engine resolves is what
\* its own pack and the routing file of the moment say: the key of an entry tells both apart
\* (policy_engine.py resolve_effective_policy, effective_policy_digest).
THEOREM RoutingsAreCurrent == ASSUME Y!PolicyAssumption PROVE Y!Spec => Y!ResolvedIsCurrent
<1>1. ASSUME PolicyInv, [Y!Next]_(Y!vars), judged' # judged, judged' # Absent,
             judged'.kind = "routing"
      PROVE  judged'.routing = Y!RoutingOf(Ref[judged'.ref])
  <2>1. CASE \E ref \in DOMAIN Ref : Y!ResolveEffective(ref)
    <3>1. PICK ref \in DOMAIN Ref : Y!ResolveEffective(ref)
      BY <2>1
    <3>2. PICK id, key, hits, entry :
              /\ id = Ref[ref] /\ key = Y!EffectiveKey(ref, id, Y!RoutingOf(id))
              /\ hits = {e \in effective : e.key = key}
              /\ entry = IF hits # {} THEN CHOOSE e \in hits : TRUE
                         ELSE [key |-> key, ref |-> ref, routing |-> Y!RoutingOf(id)]
      OBVIOUS
    <3>3. judged' = [kind |-> "routing", ref |-> ref, routing |-> entry.routing]
      BY <3>1, <3>2 DEF Y!ResolveEffective
    <3>4. key.routing = Y!RoutingOf(id)
      BY <3>2 DEF Y!EffectiveKey
    <3>5. entry.routing = Y!RoutingOf(id)
      <4>1. CASE hits # {}
        BY <1>1, <3>2, <3>4, <4>1 DEF PolicyInv
      <4>2. CASE hits = {}
        BY <3>2, <4>2
      <4>3. QED
        BY <4>1, <4>2
    <3>6. QED
      BY <3>2, <3>3, <3>5
  <2>2. CASE Y!NewEngine
    BY <1>1, <2>2 DEF Y!NewEngine
  <2>3. CASE \E id \in Y!Policy, ev \in EvidenceSummary, ms \in Evaluations : Y!Evaluate(id, ev, ms)
    BY <1>1, <2>3 DEF Y!Evaluate
  <2>4. ASSUME NEW role, NEW usage, NEW override, Y!Route(role, usage, override) PROVE FALSE
    BY <1>1, <2>4 DEF Y!Route
  <2>5. CASE \/ Y!EditPack
             \/ Y!EditRouting
             \/ \E g \in CustomGate : Y!RegisterGate(g)
             \/ UNCHANGED Y!vars
    BY <1>1, <2>5 DEF Y!EditPack, Y!EditRouting, Y!RegisterGate, Y!vars
  <2>6. QED
    BY <1>1, <2>1, <2>2, <2>3, <2>4, <2>5 DEF Y!Next
<1>2. PolicyInv /\ [Y!Next]_(Y!vars) =>
        [(judged' # judged /\ judged' # Absent /\ judged'.kind = "routing")
            => judged'.routing = Y!RoutingOf(Ref[judged'.ref])]_(Y!vars)
  BY <1>1, Zenon
<1>3. QED
  BY <1>2, PolicyInductive, PTL DEF Y!Spec, Y!ResolvedIsCurrent

\* Evidence and metrics that pass the stricter of two shipped policies pass the laxer one, with the
\* metrics' own thresholds too; a judgement that passes names no metric and no action, and one
\* that fails names a metric that failed, unless identifiers are shared (config/policies.yaml,
\* policy_engine.py evaluate_metrics, dry_run_policy).
THEOREM StricterPoliciesPassLess ==
    ASSUME Y!PolicyAssumption PROVE Y!Spec => []Y!StricterPassesLess
<1>1. ASSUME PolicyInv PROVE Y!StricterPassesLess
  <2>1. SUFFICES ASSUME judged # Absent, judged.kind = "judgement"
        PROVE  /\ (pack = Y!ShippedPack /\ judged.run.would) =>
                     /\ judged.id = "reporting_strict" =>
                           Y!EvaluateMetrics(Balanced, judged.ev, judged.ms).passed
                     /\ judged.id = "decision_balanced" =>
                           Y!EvaluateMetrics(Exploration, judged.ev, judged.ms).passed
               /\ judged.run.would => judged.run.failed = {} /\ judged.run.actions = {}
               /\ (~judged.run.would /\ \A i, j \in DOMAIN judged.ms :
                        i # j => judged.ms[i].id # judged.ms[j].id)
                     => judged.run.failed # {} /\ judged.run.total > 0
    BY Zenon DEF Y!StricterPassesLess, Balanced, Exploration
  <2>2. PICK id \in Y!Policy, ev \in EvidenceSummary, ms \in Evaluations :
            /\ id \in DOMAIN pack.modes
            /\ judged = [kind |-> "judgement", id |-> id, ev |-> ev, ms |-> ms,
                         run |-> Y!DryRun(Y!Compile(pack, id), ev, ms)]
    BY <1>1, <2>1, Zenon DEF PolicyInv
  <2>3. PICK dry : dry = Y!DryRun(Y!Compile(pack, id), ev, ms)
    OBVIOUS
  <2>4. judged.id = id /\ judged.ev = ev /\ judged.ms = ms /\ judged.run = dry
    BY <2>2, <2>3
  <2>5. ms \in Seq(Y!ToSet(ms)) /\ \A i \in DOMAIN ms : Judgeable(ev, ms[i])
    BY DEF Y!PolicyAssumption, Judgeable, Y!ToSet
  <2>6. Y!Compile(pack, id).gates \in Seq(STRING)
    <3>1. Y!Compile(pack, id).gates = pack.modes[id].gates
      BY DEF Y!Compile
    <3>2. QED
      BY <1>1, <2>2, <3>1 DEF Y!PolicyAssumption, PolicyInv, Y!TypeOK
  <2>7. /\ dry.would <=> \A i \in DOMAIN ms : Y!EvaluateMetric(Y!Compile(pack, id), ev, ms[i]) = <<>>
        /\ dry.would => dry.failed = {} /\ dry.actions = {}
        /\ (~dry.would /\ \A i, j \in DOMAIN ms : i # j => ms[i].id # ms[j].id)
              => dry.failed # {} /\ dry.total > 0
    BY <2>3, <2>5, <2>6, JudgedTruly
  <2>8. ASSUME pack = Y!ShippedPack, dry.would, id = "reporting_strict"
        PROVE  Y!EvaluateMetrics(Balanced, ev, ms).passed
    <3>1. \A i \in DOMAIN ms : Y!EvaluateMetric(Strict, ev, ms[i]) = <<>>
      BY <2>7, <2>8 DEF Strict
    <3>2. \A i \in DOMAIN ms : Y!EvaluateMetric(Balanced, ev, ms[i]) = <<>>
      BY <2>5, <3>1, StrictPassesBalanced
    <3>3. QED
      BY <3>2 DEF Y!EvaluateMetrics
  <2>9. ASSUME pack = Y!ShippedPack, dry.would, id = "decision_balanced"
        PROVE  Y!EvaluateMetrics(Exploration, ev, ms).passed
    <3>1. \A i \in DOMAIN ms : Y!EvaluateMetric(Balanced, ev, ms[i]) = <<>>
      BY <2>7, <2>9 DEF Balanced
    <3>2. \A i \in DOMAIN ms : Y!EvaluateMetric(Exploration, ev, ms[i]) = <<>>
      BY <2>5, <3>1, BalancedPassesExploration
    <3>3. QED
      BY <3>2 DEF Y!EvaluateMetrics
  <2>10. QED
    BY <2>4, <2>7, <2>8, <2>9
<1>2. QED
  BY <1>1, PolicyInductive, PTL

-----------------------------------------------------------------------------
(* The imports beside the kernel                                           *)

LEMMA OneRuns == AllSpec /\ ~(which = "fresh") => One!Spec
<1>1. AllInit /\ ~(which = "fresh") => One!Init
  BY DEF AllInit
<1>2. ~(which = "fresh") /\ [AllNext]_allVars => [One!Next]_(One!vars)
  BY DEF AllNext, allVars, brownfield, One!vars
<1>3. ~(which = "fresh") /\ [AllNext]_allVars => (~(which = "fresh"))'
  BY DEF AllNext, allVars
<1> QED
  BY <1>1, <1>2, <1>3, PTL DEF AllSpec, One!Spec

\* If processes commit one at a time, a run is published as its own bundle, whatever dies or
\* fails between the two databases (brownfield/commit.py, outbox.py,
\* focal_actor_context_store.py save).
THEOREM ImportsArePublishedAsCommitted == AllSpec => []PublishedIsWhatWasCommitted
<1>1. One!Spec => []One!PublishedIsWhatWasCommitted
  <2>1. One!OneWorker
    BY AloneAssumption
  <2>2. Nothing \notin Alone.Run \cup Alone.File \cup Alone.Base
    BY AloneAssumption
  <2>3. Alone.Quality \in [Alone.File -> One!Decision]
    BY AloneAssumption
  <2>4. Alone.MaxVersion \in Nat /\ Alone.MaxFaults \in Nat
    BY AloneAssumption
  <2> QED
    BY <2>1, <2>2, <2>3, <2>4, One!PublishedAsCommitted
<1>2. One!PublishedIsWhatWasCommitted => PublishedIsWhatWasCommitted
  BY DEF PublishedIsWhatWasCommitted
<1>3. which = "fresh" => PublishedIsWhatWasCommitted
  BY DEF PublishedIsWhatWasCommitted
<1>4. AllSpec /\ which = "fresh" => [](which = "fresh")
  <2>1. which = "fresh" /\ [AllNext]_allVars => (which = "fresh")'
    BY DEF AllNext, allVars
  <2> QED
    BY <2>1, PTL DEF AllSpec
<1> QED
  BY <1>1, <1>2, <1>3, <1>4, OneRuns, PTL
=============================================================================
