------------------------------ MODULE Session ------------------------------
(***************************************************************************)
(* A session of the language model on a project of cmis_v2: the tools of   *)
(* tools.py as the model calls them, each guarded by the state the project *)
(* is in, on the evidence and the graph (Collections), the values and the  *)
(* gates (Values), the patterns and the strategies (Portfolio).            *)
(*                                                                         *)
(* Every call reads the state anew.  A process may end between two calls   *)
(* and the next session starts with an empty memory; "year" is the time.   *)
(***************************************************************************)
EXTENDS Tools, Values, Portfolio

CONSTANTS Used,       \* the tools that the model uses
          MaxCalls,   \* bound on the calls of one behaviour that write or answer
          MaxYear

BoundAssumption == {MaxCalls, MaxYear} \subseteq Nat

VARIABLES state,      \* of each project
          year,
          calls

session == <<state, year, calls>>
svars == <<stores, ledger, board, session>>

ProjectState == {"discovery", "scope_review", "scope_locked", "data_collection",
                 "structure_analysis", "finding_review", "finding_locked",
                 "opportunity_discovery", "opportunity_review", "strategy_design",
                 "decision_review", "synthesis", "completed", "rejected"}

\* Where a transition leads, forward, back or by a shortcut.
After(s) ==
    CASE s = "discovery"             -> {"scope_review"}
      [] s = "scope_review"          -> {"scope_locked", "discovery", "rejected"}
      [] s = "scope_locked"          -> {"data_collection"}
      [] s = "data_collection"       -> {"structure_analysis"}
      [] s = "structure_analysis"    -> {"finding_review"}
      [] s = "finding_review"        -> {"finding_locked", "structure_analysis", "synthesis"}
      [] s = "finding_locked"        -> {"opportunity_discovery", "synthesis"}
      [] s = "opportunity_discovery" -> {"opportunity_review"}
      [] s = "opportunity_review"    -> {"strategy_design", "opportunity_discovery", "synthesis"}
      [] s = "strategy_design"       -> {"decision_review"}
      [] s = "decision_review"       -> {"synthesis", "strategy_design"}
      [] s = "synthesis"             -> {"completed"}
      [] OTHER                       -> {}

SessionInit ==
    /\ StoresInit /\ ValuesInit /\ BoardInit
    /\ state = [p \in Project |-> "discovery"] /\ year = 0 /\ calls = 0

\* _safe_call: the state is read, and a tool it does not allow is refused.
Call(tool, p) == tool \in Used /\ IsToolAllowed(tool, state[p]) /\ UNCHANGED <<state, year>>

\* A call that writes or answers something new.
Work(tool, p) == Call(tool, p) /\ calls < MaxCalls /\ calls' = calls + 1
Read(tool, p) == Call(tool, p) /\ UNCHANGED calls

-----------------------------------------------------------------------------
ToolCollectEvidence(p) ==
    /\ Work("collect_evidence", p)
    /\ \E sources \in UNION {[1 .. n -> Source] : n \in 0 .. 2}, metrics \in SUBSET Metric :
        CollectEvidence(p, sources, metrics, year)
    /\ UNCHANGED <<ledger, board>>

ToolAddRecord(p) ==
    /\ Work("add_record", p)
    /\ \E i \in Collection, tier \in RecordTier, metrics \in SUBSET Metric :
        AddRecord(p, i, tier, metrics, year)
    /\ UNCHANGED <<ledger, board>>

ToolGetEvidence(p) ==
    Read("get_evidence", p) /\ (\E i \in Collection : GetEvidence(p, i)) /\ UNCHANGED <<ledger, board>>

ToolBuildSnapshot(p) == Work("build_snapshot", p) /\ BuildSnapshot(p) /\ UNCHANGED <<ledger, board>>

ToolAddNode(p) ==
    /\ Work("add_node", p)
    /\ \E i \in Snapshot, n \in Node : AddNode(p, i, n)
    /\ UNCHANGED <<ledger, board>>

ToolAddEdge(p) ==
    Work("add_edge", p) /\ (\E i \in Snapshot : AddEdge(p, i)) /\ UNCHANGED <<ledger, board>>

ToolGetSnapshot(p) ==
    Read("get_snapshot", p) /\ (\E i \in Snapshot : GetSnapshot(p, i)) /\ UNCHANGED <<ledger, board>>

\* The patterns are looked for in a snapshot of the memory: the project is not passed on.
ToolMatchPatterns(p) ==
    /\ Work("match_patterns", p)
    /\ \E i \in Snapshot : snapshots[i] # Absent /\ MatchPatterns(snapshots[i].nodes)
    /\ UNCHANGED <<stores, ledger>>

ToolDiscoverGaps(p) ==
    /\ Work("discover_gaps", p)
    /\ \E i \in Snapshot : snapshots[i] # Absent /\ DiscoverGaps(snapshots[i].nodes)
    /\ UNCHANGED <<stores, ledger>>

ToolEvaluateMetrics(p) ==
    /\ Work("evaluate_metrics", p)
    /\ \E m \in Metric, e \in Evidence \union {Absent} : EvaluateMetric(p, m, e)
    /\ UNCHANGED <<stores, board>>

ToolSetMetricValue(p) ==
    /\ Work("set_metric_value", p)
    /\ \E m \in Metric, confidence \in {Sure - 1, Sure}, method \in Method, summary \in BOOLEAN,
          e \in Evidence \union {Absent}, force \in BOOLEAN :
        SetMetricValue(p, m, confidence, method, summary, e, force)
    /\ UNCHANGED <<stores, board>>

ToolGetMetricValue(p) ==
    /\ Read("get_metric_value", p)
    /\ \E m \in Metric : GetMetricValue(p, m)
    /\ UNCHANGED <<stores, board>>

\* The model passes on the records of a collection it has, and values it has.
ToolCheckAllGates(p) ==
    /\ Work("check_all_gates", p)
    /\ \E mode \in DOMAIN Mode, vs \in Held,
          rs \in {Absent} \union {evidence[i].records : i \in {j \in Collection : evidence[j] # Absent}} :
        CheckAllGates(rs, vs, mode, year)
    /\ UNCHANGED <<stores, board>>

\* The model passes on the matches it was answered, whatever became of the graph.
ToolSearchStrategies(p) ==
    /\ Work("search_strategies", p)
    /\ matches # Absent
    /\ \E constraints \in Constraint : SearchStrategies(p, matches, constraints)
    /\ UNCHANGED <<stores, ledger>>

ToolSetStrategyImpact(p) ==
    /\ Work("set_strategy_impact", p)
    /\ \E s \in Strategy, change \in Change, proof \in Proof : SetStrategyImpact(p, s, change, proof)
    /\ UNCHANGED <<stores, ledger>>

ToolEvaluatePortfolio(p) ==
    /\ Work("evaluate_portfolio", p)
    /\ \E ids \in {<<s>> : s \in Strategy} \union {<<s, t>> : s \in Strategy, t \in Strategy},
          policy \in {"exclude", "fail", "partial"} : EvaluatePortfolio(p, ids, policy)
    /\ UNCHANGED <<stores, ledger>>

\* A transition that its preconditions allow.
Transition(p) ==
    /\ \E s \in After(state[p]) : state' = [state EXCEPT ![p] = s]
    /\ UNCHANGED <<stores, ledger, board, year, calls>>

\* The process ends, perhaps while it writes; the next one may start a year later.
Restart ==
    /\ \E torn \in MayTear : StoresEnd(torn)
    /\ ValuesEnd /\ BoardEnd
    /\ year' \in {year, year + 1} /\ year' <= MaxYear
    /\ UNCHANGED <<state, calls>>

SessionNext ==
    \/ Restart
    \/ \E p \in Project :
        \/ Transition(p)
        \/ ToolCollectEvidence(p) \/ ToolAddRecord(p) \/ ToolGetEvidence(p)
        \/ ToolBuildSnapshot(p) \/ ToolAddNode(p) \/ ToolAddEdge(p) \/ ToolGetSnapshot(p)
        \/ ToolMatchPatterns(p) \/ ToolDiscoverGaps(p)
        \/ ToolEvaluateMetrics(p) \/ ToolSetMetricValue(p) \/ ToolGetMetricValue(p)
        \/ ToolCheckAllGates(p)
        \/ ToolSearchStrategies(p) \/ ToolSetStrategyImpact(p) \/ ToolEvaluatePortfolio(p)

SessionSpec == SessionInit /\ [][SessionNext]_svars

-----------------------------------------------------------------------------
SessionTypeOK ==
    /\ state \in [Project -> ProjectState] /\ year \in 0 .. MaxYear /\ calls \in 0 .. MaxCalls
    /\ EvidenceTypeOK /\ SnapshotTypeOK /\ ValuesTypeOK /\ BoardTypeOK

Designing == {"finding_locked", "opportunity_discovery", "opportunity_review", "strategy_design",
              "decision_review", "synthesis", "completed"}

\* Once the findings are locked, the evidence and the graph they rest on stay what they were, but
\* for a file torn by the end of a process: no tool of the later states changes them and no
\* transition leads back (tools.py _STATE_ALLOWED_TOOLS, state_machine.py TRANSITIONS).
LockedIsFrozen ==
    [][\A p \in Project : state[p] \in Designing =>
        /\ state'[p] \in Designing
        /\ \A i \in Collection : evidenceFile'[p][i] \in {evidenceFile[p][i], Torn}
        /\ \A i \in Snapshot : snapshotFile'[p][i] \in {snapshotFile[p][i], Torn}]_svars
=============================================================================
