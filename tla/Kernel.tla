------------------------------- MODULE Kernel -------------------------------
(***************************************************************************)
(* The orchestration kernel (cmis_core/orchestration): one call of         *)
(* OrchestrationKernel.execute verifies the goal, replans what the         *)
(* verifier found missing, executes the oldest pending task, and starts    *)
(* over until the goal is satisfied, the run mode asks for a pause, a      *)
(* budget is spent or something raises.  Its memory is the task queue and  *)
(* the two ledgers; what outlives it is the run's row (run_store) and the  *)
(* latest snapshot of the ledgers (ledger_store).                          *)
(*                                                                         *)
(* What the engines answer for a metric is an input.  The process may die  *)
(* at every label, and everything inside the kernel's try block may raise. *)
(***************************************************************************)
EXTENDS Naturals, Sequences, FiniteSets

CONSTANTS
    Metric,         \* metric identifiers
    Required,       \* the goal's required_metrics, a list
    Run,            \* run identifiers; one per call, also of the same request
    Mode,           \* the run modes requests use
    MaxIterations,  \* budgets["max_iterations"]
    StallThreshold, \* orchestration_profile.stall_threshold
    NoRun           \* before the first call

\* The rules of GoalBuilder name one to three different metrics.
ASSUME RequiredAssumption ==
    /\ Required \in Seq(Metric)
    /\ Len(Required) \in 1 .. 3
    /\ \A i, j \in 1 .. Len(Required) : Required[i] = Required[j] => i = j
ASSUME BudgetAssumption == MaxIterations \in Nat /\ StallThreshold \in Nat \ {0}
ASSUME ModeAssumption == Mode \subseteq {"autopilot", "manual", "approval_required"}
ASSUME RunAssumption == NoRun \notin Run

VARIABLES
    pc, run, mode,   \* the call: where it is, its run, its mode
    queue,           \* TaskQueue: every task ever planned, in order
    steps,           \* ProgressLedger.steps
    shown,           \* the status the goal graph shows of each task
    metrics,         \* ProjectLedger.metrics
    satisfied,       \* the metric nodes of the goal graph marked satisfied
    gaps,            \* ProjectLedger.evidence_plan.items
    overall,         \* ProgressLedger.overall_status
    hint,            \* ProgressLedger.next_step_suggestion
    iteration,
    stall,           \* ProgressLedger.stall_counters
    row,             \* runs.db: the status of each run
    snap             \* ledgers.db: the latest snapshot of each run

memory == <<queue, steps, shown, metrics, satisfied, gaps, overall, hint,
            iteration, stall>>
vars == <<pc, run, mode, memory, row, snap>>

-----------------------------------------------------------------------------
(* Data                                                                    *)

\* metrics[m]: "absent" without an entry, "none" without a value record,
\* "empty" with neither a point estimate nor a distribution, "outside" when
\* the point estimate is not within the distribution.
Entry == [value   : {"absent", "none", "empty", "good", "outside"},
          lineage : {"yes", "no"},    \* from_evidence_ids or from_value_ids
          policy  : {"passed", "failed"}]

NoEntry == [value |-> "absent", lineage |-> "no", policy |-> "failed"]

\* What computing a metric may store: no value record has no lineage.
Computed == {e \in Entry : e.value # "absent" /\ (e.value = "none" => e.lineage = "no")}

Status == {"pending", "running", "completed"}
Task == [kind : {"run_workflow", "collect_evidence", "compute_metric"},
         on : SUBSET Metric, force : {"yes", "no"}, status : Status]
Step == [task : Nat, call : {"run_workflow", "collect_evidence", "compute_metric"},
         on : SUBSET Metric, status : Status]
Overall == {"running", "completed", "incomplete", "stalled", "failed"}
Reason == {"missing_metric", "missing_value", "lineage", "policy", "consistency"}
StallKey == {"no_task", "no_runnable_task"}
Snapshot == [overall : Overall, steps : Seq(Step), metrics : [Metric -> Entry]]
NoSnapshot == [overall |-> "running", steps |-> <<>>, metrics |-> [m \in Metric |-> NoEntry]]

NewTask(kind, on, force) == [kind |-> kind, on |-> on, force |-> force, status |-> "pending"]

\* The ledgers as they would be stored now.
Ledgers == [overall |-> overall, steps |-> steps, metrics |-> metrics]

-----------------------------------------------------------------------------
(* Verifier: what keeps the goal from being satisfied                      *)

Goal == {Required[i] : i \in 1 .. Len(Required)}

\* The required metrics that a diff report lists under each reason.
Diff(table, reason) ==
    {m \in Goal :
        \/ reason = "missing_metric" /\ table[m].value = "absent"
        \/ reason = "missing_value" /\ table[m].value \in {"absent", "none", "empty"}
        \/ reason = "policy" /\ table[m].policy = "failed"
        \/ /\ reason = "lineage" /\ table[m].lineage = "no"
           /\ table[m].value \in {"empty", "good", "outside"}
        \/ reason = "consistency" /\ table[m].value = "outside"}

\* Mutant: the predicate alone, without lineage and consistency.
PredicateOnly(table) ==
    \A reason \in {"missing_metric", "missing_value", "policy"} : Diff(table, reason) = {}

Satisfied(table) == \A reason \in Reason : Diff(table, reason) = {}

-----------------------------------------------------------------------------
(* Replanner: tasks for a diff report                                      *)

\* The members of S in the order in which the goal lists them.
Nth(S, i) == IF i <= Len(Required) THEN
                 IF Required[i] \in S THEN <<Required[i]>> ELSE <<>>
             ELSE <<>>
Listed(S) == Nth(S, 1) \o Nth(S, 2) \o Nth(S, 3)

Compute(S) == [i \in 1 .. Len(Listed(S)) |-> NewTask("compute_metric", {Listed(S)[i]}, "no")]

\* Mutants: evidence collected too late, or always from the cache.
ComputeAndCollect(S, force) ==
    IF S = {} THEN <<>> ELSE Compute(S) \o <<NewTask("collect_evidence", S, force)>>

CollectCachedAndCompute(S, force) ==
    IF S = {} THEN <<>> ELSE <<NewTask("collect_evidence", S, "no")>> \o Compute(S)

CollectAndCompute(S, force) ==
    IF S = {} THEN <<>> ELSE <<NewTask("collect_evidence", S, force)>> \o Compute(S)

\* Mutant: an inconsistent value is reported but nothing is planned for it.
PlanWithoutConsistency(table) ==
    LET D(reason) == Diff(table, reason)
    IN  CollectAndCompute(D("policy"), "yes")
        \o CollectAndCompute(D("lineage"), "no")
        \o Compute(D("missing_value"))

Plan(table) ==
    LET D(reason) == Diff(table, reason)
    IN  CollectAndCompute(D("policy"), "yes")
        \o CollectAndCompute(D("lineage"), "no")
        \o Compute(D("consistency"))
        \o Compute(D("missing_metric"))
        \o Compute(D("missing_value") \ D("missing_metric"))

-----------------------------------------------------------------------------
(* TaskQueue and ledgers                                                   *)

Pending == {i \in 1 .. Len(queue) : queue[i].status = "pending"}

\* Mutant: any pending task.
AnyPending(i) == i \in Pending

\* next_runnable: the oldest pending task.  No task of the replanner depends
\* on another, so depends_on never holds one back.
Oldest(i) == i \in Pending /\ \A j \in Pending : i <= j

\* enqueue and record_planned_tasks.
Enqueue(tasks) ==
    /\ queue' = queue \o tasks
    /\ shown' = shown \o [i \in 1 .. Len(tasks) |-> tasks[i].status]

\* mark_running or mark_completed, then mark_task_status.
Mark(i, status) ==
    /\ queue' = [queue EXCEPT ![i].status = status]
    /\ shown' = [shown EXCEPT ![i] = status]

\* increment_stall and check_stall; a threshold reached ends the loop.
StallUp(key, next) ==
    /\ stall' = [stall EXCEPT ![key] = @ + 1]
    /\ IF stall[key] + 1 >= StallThreshold
       THEN overall' = "stalled" /\ pc' = "finalize"
       ELSE overall' = overall /\ pc' = next

-----------------------------------------------------------------------------
Init ==
    /\ pc = "idle" /\ run = NoRun /\ mode = "autopilot"
    /\ queue = <<>> /\ steps = <<>> /\ shown = <<>>
    /\ metrics = [m \in Metric |-> NoEntry]
    /\ satisfied = {} /\ gaps = {}
    /\ overall = "running" /\ hint = "none" /\ iteration = 0
    /\ stall = [key \in StallKey |-> 0]
    /\ row = [r \in Run |-> "absent"]
    /\ snap = [r \in Run |-> NoSnapshot]

\* A new call: fresh ledgers, the run's row, the workflow as first task.
Start(r, m) ==
    LET workflow == NewTask("run_workflow", {}, "no")
    IN  /\ pc \in {"idle", "done", "dead"}
        /\ row[r] = "absent"
        /\ row' = [row EXCEPT ![r] = "open"]
        /\ run' = r /\ mode' = m
        /\ queue' = <<workflow>> /\ shown' = <<"pending">> /\ steps' = <<>>
        /\ metrics' = [x \in Metric |-> NoEntry]
        /\ satisfied' = {} /\ gaps' = {}
        /\ overall' = "running" /\ hint' = "none" /\ iteration' = 0
        /\ stall' = [key \in StallKey |-> 0]
        /\ pc' = "verify"
        /\ UNCHANGED snap

\* Verifier.verify and, unless satisfied, record_project_insights_from_diff.
Verify ==
    /\ pc = "verify"
    /\ IF Satisfied(metrics)
       THEN pc' = "finalize" /\ overall' = "completed" /\ UNCHANGED gaps
       ELSE /\ pc' = "replan"
            /\ gaps' = gaps \cup {gap \in Goal \X Reason : gap[1] \in Diff(metrics, gap[2])}
            /\ UNCHANGED overall
    /\ UNCHANGED <<run, mode, queue, steps, shown, metrics, satisfied, hint, iteration,
                   stall, row, snap>>

\* Plan(metrics) is enqueued; without a task to plan, the loop stalls.
Replan ==
    LET tasks == Plan(metrics)
    IN  /\ pc = "replan"
        /\ IF tasks # <<>>
           THEN /\ Enqueue(tasks)
                /\ hint' = "tasks"
                /\ stall' = [stall EXCEPT !["no_task"] = 0]
                /\ pc' = "gate"
                /\ UNCHANGED overall
           ELSE /\ StallUp("no_task", "gate")
                /\ UNCHANGED <<queue, shown, hint>>
        /\ UNCHANGED <<run, mode, steps, metrics, satisfied, gaps, iteration, row, snap>>

\* The decision log cannot be written: the tasks are queued, not recorded.
ReplanRaises ==
    /\ pc = "replan" /\ Plan(metrics) # <<>>
    /\ queue' = queue \o Plan(metrics)
    /\ overall' = "failed" /\ pc' = "fail"
    /\ UNCHANGED <<run, mode, steps, shown, metrics, satisfied, gaps, hint, iteration,
                   stall, row, snap>>

\* The ways in which the loop ends, or starts over, before a task.
Pause(cause, suggestion) ==
    /\ pc = "gate" /\ cause
    /\ overall' = "incomplete" /\ hint' = suggestion /\ pc' = "finalize"
    /\ UNCHANGED <<run, mode, queue, steps, shown, metrics, satisfied, gaps, iteration,
                   stall, row, snap>>

WaitForApproval == Pause(mode = "approval_required", "approve_and_rerun")

\* Mutant: one task too many.
ManualDoneLate == mode = "manual" /\ iteration > 1

ManualDone == mode = "manual" /\ iteration >= 1

\* The suggestion is only written where the replanner left none.
PauseManual ==
    Pause(Pending # {} /\ ManualDone, IF hint = "none" THEN "rerun_manual" ELSE hint)

\* Governor.should_stop: too many iterations, or (at any time) too late.
StopOnBudget ==
    Pause(mode # "approval_required" /\ Pending # {} /\ ~ManualDone, "stop")

\* The oldest pending task, or a stall where there is none.
Execute ==
    /\ pc = "gate" /\ mode # "approval_required"
    /\ IF Pending = {}
       THEN StallUp("no_runnable_task", "verify") /\ UNCHANGED <<queue, shown, steps>>
       ELSE \E i \in Pending :
            /\ Oldest(i)
            /\ ~ManualDone /\ iteration < MaxIterations
            /\ Mark(i, "running")
            /\ steps' = Append(steps, [task |-> i, call |-> queue[i].kind,
                                       on |-> queue[i].on, status |-> "running"])
            /\ pc' = "execute"
            /\ UNCHANGED <<overall, stall>>
    /\ UNCHANGED <<run, mode, metrics, satisfied, gaps, hint, iteration, row, snap>>

\* The executor answers: apply_task_result and the end of the step.
Answer(result) ==
    LET i == steps[Len(steps)].task
        m == CHOOSE x \in queue[i].on : TRUE
    IN  /\ pc = "execute"
        /\ Mark(i, "completed")
        /\ steps' = [steps EXCEPT ![Len(steps)].status = "completed"]
        /\ IF queue[i].kind = "compute_metric"
           THEN /\ metrics' = [metrics EXCEPT ![m] = result]
                /\ satisfied' = IF result.value \in {"good", "outside"} /\ result.policy = "passed"
                                THEN satisfied \cup {m} ELSE satisfied \ {m}
           ELSE UNCHANGED <<metrics, satisfied>>
        /\ pc' = "save"
        /\ UNCHANGED <<run, mode, gaps, overall, hint, iteration, stall, row, snap>>

\* Mutant: a snapshot after compute tasks only.
SaveAfterCompute ==
    /\ pc = "save"
    /\ snap' = IF steps[Len(steps)].call = "compute_metric"
               THEN [snap EXCEPT ![run] = Ledgers] ELSE snap
    /\ iteration' = iteration + 1
    /\ pc' = "verify"
    /\ UNCHANGED <<run, mode, queue, steps, shown, metrics, satisfied, gaps, overall, hint,
                   stall, row>>

SaveSnapshot ==
    /\ pc = "save"
    /\ snap' = [snap EXCEPT ![run] = Ledgers]
    /\ iteration' = iteration + 1
    /\ pc' = "verify"
    /\ UNCHANGED <<run, mode, queue, steps, shown, metrics, satisfied, gaps, overall, hint,
                   stall, row>>

\* An engine or a store raises inside the try block.
Raise ==
    /\ pc \in {"verify", "replan", "gate", "execute", "save"}
    /\ overall' = "failed"
    /\ pc' = "fail"
    /\ UNCHANGED <<run, mode, queue, steps, shown, metrics, satisfied, gaps, hint, iteration,
                   stall, row, snap>>

\* Mutant: the handler goes on with the next task.
ContinueAfterError ==
    /\ pc = "fail"
    /\ pc' = "gate"
    /\ UNCHANGED <<run, mode, memory, row, snap>>

\* finalize_run in the except block; no snapshot follows.
FinalizeFailed ==
    /\ pc = "fail"
    /\ row' = [row EXCEPT ![run] = "failed"]
    /\ pc' = "done"
    /\ UNCHANGED <<run, mode, memory, snap>>

\* Mutant: the ledger's word is written to the row.
StatusOfLedger == overall

FinalStatus == IF overall = "completed" THEN "success"
               ELSE IF overall = "stalled" THEN "stalled" ELSE "incomplete"

FinalizeRun ==
    /\ pc = "finalize"
    /\ row' = [row EXCEPT ![run] = FinalStatus]
    /\ pc' = "last"
    /\ UNCHANGED <<run, mode, memory, snap>>

\* Mutant: no snapshot after the loop.
NoLastSnapshot ==
    /\ pc = "last"
    /\ pc' = "done"
    /\ UNCHANGED <<run, mode, memory, row, snap>>

LastSnapshot ==
    /\ pc = "last"
    /\ snap' = [snap EXCEPT ![run] = Ledgers]
    /\ pc' = "done"
    /\ UNCHANGED <<run, mode, memory, row>>

\* The process dies, or a store raises outside the try block.
Crash ==
    /\ pc \notin {"idle", "done", "dead"}
    /\ pc' = "dead"
    /\ UNCHANGED <<run, mode, memory, row, snap>>

Proceed ==
    \/ Verify \/ Replan \/ WaitForApproval \/ PauseManual \/ StopOnBudget \/ Execute
    \/ \E result \in Computed : Answer(result)
    \/ SaveSnapshot \/ FinalizeFailed \/ FinalizeRun \/ LastSnapshot

Next ==
    \/ \E r \in Run, m \in Mode : Start(r, m)
    \/ Proceed
    \/ Raise
    \/ ReplanRaises
    \/ Crash

Spec == Init /\ [][Next]_vars

\* Engines answer or raise (they bound their requests), and the kernel goes on.
FairSpec == Spec /\ WF_vars(Proceed)

-----------------------------------------------------------------------------
(* Properties                                                              *)

TypeOK ==
    /\ pc \in {"idle", "verify", "replan", "gate", "execute", "save", "fail", "finalize",
               "last", "done", "dead"}
    /\ run \in Run \cup {NoRun}
    /\ mode \in {"autopilot", "manual", "approval_required"}
    /\ queue \in Seq(Task) /\ steps \in Seq(Step) /\ shown \in Seq(Status)
    /\ metrics \in [Metric -> Entry]
    /\ satisfied \subseteq Metric
    /\ gaps \subseteq Metric \X Reason
    /\ overall \in Overall
    /\ hint \in {"none", "tasks", "approve_and_rerun", "rerun_manual", "stop"}
    /\ iteration \in Nat
    /\ stall \in [StallKey -> Nat]
    /\ row \in [Run -> {"absent", "open", "success", "incomplete", "stalled", "failed"}]
    /\ snap \in [Run -> Snapshot]

\* The tasks are executed in the order they were planned, each at most once
\* and one at a time, however many plans overtake each other; the goal graph
\* and the steps of the progress ledger show the status of every task (of a
\* run that failed, maybe not of the tasks of its last plan).
LedgersShowTheQueue ==
    /\ Len(steps) <= Len(shown)
    /\ Len(shown) <= Len(queue)
    /\ overall # "failed" => Len(shown) = Len(queue)
    /\ \A i \in 1 .. Len(shown) : shown[i] = queue[i].status
    /\ \A i \in 1 .. Len(queue) :
          /\ queue[i].status = "pending" <=> i > Len(steps)
          /\ queue[i].status = "running" =>
                i = Len(steps) /\ pc \in {"execute", "fail", "done", "dead"}
    /\ \A i \in 1 .. Len(steps) :
          steps[i] = [task |-> i, call |-> queue[i].kind, on |-> queue[i].on,
                      status |-> queue[i].status]

\* Budgets and run modes hold for the whole call: never more tasks started
\* than iterations allowed, none before an approval, one in manual mode.
WithinLimits ==
    /\ Len(steps) <= MaxIterations
    /\ mode = "approval_required" => steps = <<>>
    /\ mode = "manual" => Len(steps) <= 1

\* A run recorded as success has, for every required metric, a value that
\* passes policy, has a lineage and agrees with its distribution, no task left
\* half done, and a goal graph that shows the goal as complete.
SuccessIsEarned ==
    overall = "completed" =>
        /\ \A m \in Goal : metrics[m] = [value |-> "good", lineage |-> "yes", policy |-> "passed"]
        /\ Goal \subseteq satisfied
        /\ \A i \in 1 .. Len(steps) : steps[i].status = "completed"
        /\ row[run] \in {"open", "success"}

\* Every compute or collect task ever planned has its reason in the evidence
\* plan of the project ledger, which a reader of the run relies on.
EveryTaskHasItsReason ==
    \A i \in 1 .. Len(queue) : \A m \in queue[i].on :
        /\ queue[i].kind = "compute_metric" => \E reason \in Reason : <<m, reason>> \in gaps
        /\ queue[i].kind = "collect_evidence" =>
              <<m, IF queue[i].force = "yes" THEN "policy" ELSE "lineage">> \in gaps

\* A replan answers the whole diff and nothing else: every metric with a gap is
\* computed again, after fresh evidence where policy failed and after (maybe
\* cached) evidence where it has no lineage; a metric without a gap is not.
PlanAnswersDiff ==
    [][(pc = "replan" /\ pc' = "gate") =>
        LET new == {i \in 1 .. Len(queue') : i > Len(queue)}
            Computes(i, m) == queue'[i].kind = "compute_metric" /\ m \in queue'[i].on
            Collects(i, m) == queue'[i].kind = "collect_evidence" /\ m \in queue'[i].on
        IN  /\ \A m \in Goal :
                 /\ (\E reason \in Reason : m \in Diff(metrics, reason)) =>
                       \E i \in new : Computes(i, m)
                 /\ m \in Diff(metrics, "policy") =>
                       \E c, i \in new : /\ c < i /\ Collects(c, m) /\ Computes(i, m)
                                        /\ queue'[c].force = "yes"
                 /\ m \in Diff(metrics, "lineage") =>
                       \E c, i \in new : c < i /\ Collects(c, m) /\ Computes(i, m)
            /\ \A i \in new : \A m \in queue'[i].on :
                 \E reason \in Reason : m \in Diff(metrics, reason)]_vars

\* A goal that is not satisfied always yields a task, so neither stall counter
\* is ever raised and no run ends as stalled.
NeverStalls ==
    /\ \A key \in StallKey : stall[key] = 0
    /\ overall # "stalled"
    /\ \A r \in Run : row[r] # "stalled"

\* Whenever the process dies or a task raises, the stored snapshot lacks at
\* most the last task of the run, and no metric but that task's differs.
CrashLosesOneTask ==
    run # NoRun =>
        LET stored == snap[run].steps
        IN  /\ Len(stored) \in {Len(steps), Len(steps) - 1}
            /\ \A i \in 1 .. Len(stored) : stored[i] = steps[i] /\ stored[i].status = "completed"
            /\ \A m \in Metric : snap[run].metrics[m] # metrics[m] =>
                  /\ Len(stored) < Len(steps)
                  /\ steps[Len(steps)].call = "compute_metric"
                  /\ m \in steps[Len(steps)].on

\* The two databases agree on a call that returned without raising: the row of
\* the run and its latest snapshot tell the same end.
FinalRecordsAgree ==
    (pc = "done" /\ row[run] # "failed") =>
        /\ snap[run] = Ledgers
        /\ row[run] = "success" <=> snap[run].overall = "completed"
        /\ row[run] = "incomplete" <=> snap[run].overall = "incomplete"

\* Every call of the kernel returns, unless its process dies: the loop cannot
\* go round for ever, whatever the engines answer.
CallsReturn == (pc = "verify") ~> (pc \in {"done", "dead"})
=============================================================================
