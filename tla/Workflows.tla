----------------------------- MODULE Workflows -----------------------------
(***************************************************************************)
(* The workflow orchestrator of cmis_core (workflow.py): the workflows of  *)
(* config/workflows.yaml, run step by step, each step with what the ones   *)
(* before it left, and the two that are programmed out (structure_analysis *)
(* and opportunity_discovery), which raise where the others report an      *)
(* error.  One orchestrator runs one workflow at a time; between two steps *)
(* the graph grows, evidence comes and goes and the policy pack is edited. *)
(*                                                                         *)
(* What a step shows carries the graph that it was made of.                *)
(***************************************************************************)
EXTENDS MetricValues

CONSTANTS Program,   \* [workflow |-> [role, usage, steps, programmed]]
          Input      \* [place: are a domain and a region given?, ids: strategies that are found]

\* A workflow has steps, and only the first of them takes a snapshot (config/workflows.yaml).
ProgramAssumption ==
    /\ Absent \notin Graph
    /\ \A w \in DOMAIN Program :
          /\ Len(Program[w].steps) \in Nat \ {0}
          /\ DOMAIN Program[w].steps = 1 .. Len(Program[w].steps)
          /\ \A i \in DOMAIN Program[w].steps :
                Program[w].steps[i].call = "world_engine.snapshot" => i = 1

VARIABLE run

workflowVars == <<valueVars, run>>

Nothing == [snapshot |-> Absent, matches |-> Absent, gaps |-> Absent, values |-> Absent,
            strategies |-> Absent, portfolio |-> Absent, learned |-> Absent]

WorkflowInit == ValueInit /\ run = [at |-> "none"]

Steps == Program[run.id].steps
Step == Steps[run.next]

\* run_workflow: the policy that is asked for, else that of the usage or the role.
StartRun(w, in, override) ==
    /\ run.at # "running"
    /\ run' = [at |-> "running", id |-> w, in |-> in, next |-> 1, prev |-> Nothing, reports |-> <<>>,
               mode |-> P!ResolvePolicyId(held, Program[w].role, Program[w].usage, override)]
    /\ UNCHANGED valueVars

\* The outputs of a step are added to those of the steps before it, if it is reported at all.
Added(update) ==
    [x \in DOMAIN run.prev |-> IF x \in DOMAIN update THEN update[x] ELSE run.prev[x]]

Goes(update) ==
    run' = [run EXCEPT !.prev = Added(update), !.next = @ + 1,
                       !.reports = Append(@, [call |-> Step.call, status |-> "ok"]),
                       !.at = IF run.next = Len(Steps) THEN "ended" ELSE "running"]

\* Mutant: what a step failed to make is kept.
FailsWith(update) ==
    run' = [run EXCEPT !.prev = Added(update),
                       !.reports = Append(@, [call |-> Step.call, status |-> "error"]),
                       !.at = IF Program[run.id].programmed THEN "raised" ELSE "ended"]

\* A step that fails is the last; a workflow that is programmed out raises.
Fails(update) ==
    run' = [run EXCEPT !.reports = Append(@, [call |-> Step.call, status |-> "error"]),
                       !.at = IF Program[run.id].programmed THEN "raised" ELSE "ended"]

May(update) == Goes(update) \/ Fails(update)

Running(call) == run.at = "running" /\ Step.call = call

\* world_engine.snapshot of the place of the inputs.
Snapshot ==
    /\ Running("world_engine.snapshot")
    /\ IF run.in.place THEN May([snapshot |-> world]) ELSE Fails(<<>>)
    /\ UNCHANGED valueVars

MatchPatterns ==
    /\ Running("pattern_engine.match_patterns")
    /\ IF run.prev.snapshot # Absent THEN May([matches |-> [of |-> run.prev.snapshot]]) ELSE Fails(<<>>)
    /\ UNCHANGED valueVars

\* With the matches that were computed before, where the step passes them on, or else its own.
DiscoverGaps ==
    /\ Running("pattern_engine.discover_gaps")
    /\ LET snapshot == run.prev.snapshot
           matches == IF Step.precomputed /\ run.prev.matches # Absent THEN run.prev.matches
                      ELSE [of |-> snapshot]
       IN  IF snapshot # Absent THEN May([gaps |-> [of |-> snapshot, with |-> matches]]) ELSE Fails(<<>>)
    /\ UNCHANGED valueVars

\* Mutant: the metrics are valued on a snapshot of their own.
GraphForValuesAnew == world

\* The snapshot of the run, or one that is cut now if it has none.
GraphForValues == IF run.prev.snapshot # Absent THEN run.prev.snapshot ELSE world

\* evaluate_metrics, under the policy that the step names before that of the run.
Evaluating(bundles) ==
    \E p \in Prior :
        LET id == IF Step.policy # Absent THEN Step.policy ELSE run.mode
        IN  May([snapshot |-> GraphForValues,
                 values |-> [of |-> GraphForValues, policy |-> P!Compile(file, id),
                             evidence |-> bundles,
                             records |-> [m \in Step.metrics |->
                                            ValueOf(m, bundles[m], GraphForValues, P!Compile(file, id), p)]]])

EvaluateMetrics ==
    /\ Running("value_engine.evaluate_metrics")
    /\ IF run.prev.snapshot = Absent /\ ~run.in.place
       THEN Fails(<<>>) /\ UNCHANGED cached
       ELSE \/ \E bundles \in [Step.metrics -> Found] :
                /\ \A m \in Step.metrics : Fetched(m, bundles[m])
                /\ cached' = bundles @@ cached
                /\ Evaluating(bundles)
            \/ Evaluating([m \in Step.metrics |-> <<>>]) /\ UNCHANGED cached
    /\ UNCHANGED <<world, file, held, task, fused>>

SearchStrategies ==
    /\ Running("strategy_engine.search_strategies")
    /\ May([strategies |-> run.in.ids])
    /\ UNCHANGED valueVars

EvaluatePortfolio ==
    /\ Running("strategy_engine.evaluate_portfolio")
    /\ May([portfolio |-> [of |-> IF run.prev.strategies = Absent THEN {} ELSE run.prev.strategies]])
    /\ UNCHANGED valueVars

\* The orchestrator's learning engine has no store of outcomes: it knows none of those it is given.
UpdateFromOutcomes ==
    /\ Running("learning_engine.update_from_outcomes")
    /\ May([learned |-> {}])
    /\ UNCHANGED valueVars

\* A call that is not supported.
Unsupported ==
    /\ Running("unsupported")
    /\ Fails(<<>>)
    /\ UNCHANGED valueVars

NewOrchestrator == NewProcess /\ run' = [at |-> "none"]

WorkflowNext ==
    \/ \E w \in DOMAIN Program, in \in Input, override \in {Absent} \cup PolicyId : StartRun(w, in, override)
    \/ Snapshot \/ MatchPatterns \/ DiscoverGaps \/ EvaluateMetrics
    \/ SearchStrategies \/ EvaluatePortfolio \/ UpdateFromOutcomes \/ Unsupported
    \/ NewOrchestrator
    \/ /\ \/ \E m \in Metric : Expire(m) \/ \E b \in Found : OtherSaves(m, b)
          \/ \E g \in Graph : GrowGraph(g)
          \/ \E p \in PackOnDisk : EditPack(p)
       /\ UNCHANGED run

WorkflowSpec == WorkflowInit /\ [][WorkflowNext]_workflowVars

-----------------------------------------------------------------------------
(* Properties *)

WorkflowTypeOK ==
    /\ ValueTypeOK /\ run.at \in {"none", "running", "ended", "raised"}
    /\ run.at # "none" => /\ run.id \in DOMAIN Program /\ run.mode \in PolicyId
                          /\ DOMAIN run.prev = DOMAIN Nothing

\* All that a run shows was made of the one snapshot it shows, however the graph grew between its
\* steps: the matches, the gaps with the matches they were found by, and the values that have no
\* evidence; and a value of it is a prior only where evidence and that snapshot have none and the
\* policy of the pack allowed it (workflow.py _execute_workflow_steps_v1).
OneSnapshot ==
    run.at # "none" =>
        LET prev == run.prev
        IN  /\ \A x \in {prev.matches, prev.gaps, prev.values} : x # Absent => x.of = prev.snapshot
            /\ prev.gaps # Absent => prev.gaps.with.of = prev.snapshot
            /\ prev.values # Absent => \A m \in DOMAIN prev.values.records :
                LET r == prev.values.records[m]
                IN  /\ r.method \in {"r_graph_aggregation", "derived_calculation"} =>
                        r.value = GraphValue(m, prev.snapshot).value
                    /\ r.prior > 0 => /\ GraphValue(m, prev.snapshot).value = Absent
                                      /\ prev.values.evidence[m] = <<>>
                                      /\ prev.values.policy.prior.allow

\* The name of what a call shows.
Shows(call) ==
    CASE call = "pattern_engine.match_patterns" -> "matches"
      [] call = "pattern_engine.discover_gaps" -> "gaps"
      [] call = "value_engine.evaluate_metrics" -> "values"
      [] call = "strategy_engine.search_strategies" -> "strategies"
      [] call = "strategy_engine.evaluate_portfolio" -> "portfolio"
      [] call = "learning_engine.update_from_outcomes" -> "learned"

Showing == {"pattern_engine.match_patterns", "pattern_engine.discover_gaps",
            "value_engine.evaluate_metrics", "strategy_engine.search_strategies",
            "strategy_engine.evaluate_portfolio", "learning_engine.update_from_outcomes"}

\* A step that failed ends the run and shows nothing: whatever is shown is of a step that is
\* reported, and none but the last report is an error (workflow.py:428-452).
ReportIsTrue ==
    run.at # "none" =>
        /\ \A i \in DOMAIN run.reports : run.reports[i].status = "error" =>
                i = Len(run.reports) /\ run.at \in {"ended", "raised"}
        /\ run.at = "ended" => run.reports # <<>> /\
                (Last(run.reports).status = "error" \/ Len(run.reports) = Len(Steps))
        /\ \A call \in Showing : run.prev[Shows(call)] # Absent =>
                \E i \in DOMAIN run.reports : run.reports[i] = [call |-> call, status |-> "ok"]
        /\ run.prev.snapshot # Absent =>
                \E i \in DOMAIN run.reports :
                    /\ run.reports[i].call \in {"world_engine.snapshot", "value_engine.evaluate_metrics"}
                    /\ run.reports[i].status = "ok"
=============================================================================
