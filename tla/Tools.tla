------------------------------- MODULE Tools -------------------------------
(***************************************************************************)
(* The tools that cmis_v2/tools.py hands to the language model, by engine, *)
(* and the table that says in which state of the project each may be used. *)
(***************************************************************************)

EvidenceTools == {"collect_evidence", "add_record", "get_evidence"}
WorldTools == {"build_snapshot", "add_node", "add_edge", "get_snapshot"}
PatternTools == {"match_patterns", "discover_gaps"}
ValueTools == {"evaluate_metrics", "set_metric_value", "get_metric_value"}
StrategyTools == {"search_strategies", "set_strategy_impact", "evaluate_portfolio"}
PolicyTools == {"load_policy", "check_evidence_gate", "check_value_gate", "check_all_gates"}
FermiTools == {"create_fermi_tree", "add_fermi_leaf", "add_fermi_subtree", "evaluate_fermi_tree"}
EstimationTools == {"create_estimate", "get_estimate", "update_estimate", "list_estimates",
                    "check_constraints", "get_distribution"} \union FermiTools
CalibrationTools == {"suggest_estimate_from_reference", "get_calibration",
                     "get_calibrated_reliability"}
BeliefTools == {"set_prior", "get_prior", "update_belief", "list_beliefs"}
LearningTools == {"record_outcome", "get_learning_summary", "apply_learnings"}
MigrationTools == {"check_compatibility", "create_migration_map", "migrate_project"}
ProjectTools == {"create_project", "load_project", "get_current_state", "transition", "lock_scope",
                 "add_run", "save_deliverable", "list_projects", "get_project_summary",
                 "get_project_events"}

Tool == EvidenceTools \union WorldTools \union PatternTools \union ValueTools \union StrategyTools
        \union PolicyTools \union EstimationTools \union CalibrationTools \union BeliefTools
        \union LearningTools \union MigrationTools \union ProjectTools

AlwaysAllowed ==
    {"load_project", "get_current_state", "get_project_summary", "get_project_events",
     "list_projects", "load_policy", "check_compatibility", "get_estimate", "list_estimates"}

UserGates == {"scope_review", "finding_review", "opportunity_review", "decision_review"}

\* Mutant: the tools of the collection and the analysis stay allowed in the design.
AllowedInLater(state) ==
    IF state = "strategy_design"
    THEN EvidenceTools \union WorldTools \union StrategyTools \union {"transition"} ELSE Tool

AllowedIn(state) ==
    CASE state = "requested" -> {"create_project", "transition"}
      [] state = "discovery" ->
           EvidenceTools \union FermiTools \union (BeliefTools \ {"update_belief"})
           \union {"create_estimate", "check_evidence_gate", "transition", "lock_scope"}
      [] state = "scope_locked" -> {"transition"}
      [] state = "data_collection" ->
           EvidenceTools \union FermiTools \union BeliefTools
           \union {"create_estimate", "update_estimate", "check_evidence_gate", "transition",
                   "add_run"}
      [] state = "structure_analysis" ->
           WorldTools \union ValueTools \union FermiTools
           \union {"match_patterns", "check_value_gate", "check_all_gates", "create_estimate",
                   "update_estimate", "check_constraints", "transition", "get_evidence", "add_run"}
      [] state = "finding_locked" -> PatternTools \union {"get_snapshot", "transition"}
      [] state = "opportunity_discovery" ->
           PatternTools \union ValueTools \union {"get_snapshot", "transition", "add_run"}
      [] state = "strategy_design" ->
           StrategyTools \union ValueTools \union FermiTools
           \union {"get_snapshot", "check_value_gate", "check_all_gates", "transition", "add_run",
                   "update_belief", "create_estimate", "update_estimate", "check_constraints"}
      [] state = "synthesis" ->
           {"save_deliverable", "get_snapshot", "get_evidence", "get_metric_value", "transition",
            "check_all_gates"}
      [] state = "completed" -> LearningTools
      [] state = "rejected" ->
           {"get_evidence", "get_snapshot", "get_metric_value", "get_learning_summary"}
      [] state \in UserGates -> {"get_evidence", "get_snapshot", "get_metric_value"}

IsToolAllowed(tool, state) == tool \in AlwaysAllowed \union AllowedIn(state)
=============================================================================
