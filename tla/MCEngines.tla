----------------------------- MODULE MCEngines -----------------------------
(***************************************************************************)
(* Instances for TLC of the engines and stores that keep what a project    *)
(* knows: the stores, with their constants, and beside them the engines of *)
(* cmis_v2 (estimates, outcomes, Fermi trees, constraints, a session of    *)
(* tools) and of cmis_core (policies, metric values, workflows, the world  *)
(* graph), and packs and learning in other instances.  They share no       *)
(* state: the initial state chooses one, and only that one moves.          *)
(***************************************************************************)
EXTENDS Stores, TLC

CONSTANTS p1, p2, v1, k1, k2, ida, idb, idx, c1, c2, bx, by, cx, cy, o1, Error, Infinity, Latest

VARIABLES
    memory, file, made, outcomes, outcomeFile, value, recorded,
    trees, fitted, treeAnswer,
    given, checked,
    evidence, evidenceFile, snapshots, snapshotFile, values, valueFile, verdict,
    strategies, strategyFile, matches, gaps, portfolio, state, year, calls,
    packFile, routingFile, pack, gates, compiled, effective, judged,
    graphs, overlays, graphCache, disk, index, graphNow, snapshot, taken,
    reality, bundles, packOnDisk, packHeld, metricTask, fusedValue, workflow

estimates == <<memory, file, made, outcomes, outcomeFile, value, recorded>>
fermi == <<trees, fitted, treeAnswer>>
constraints == <<given, checked>>
session == <<evidence, evidenceFile, snapshots, snapshotFile, values, valueFile, verdict,
             strategies, strategyFile, matches, gaps, portfolio, state, year, calls>>
policies == <<packFile, routingFile, pack, gates, compiled, effective, judged>>
world == <<graphs, overlays, graphCache, disk, index, graphNow, snapshot, taken>>
valuations == <<reality, bundles, packOnDisk, packHeld, metricTask, fusedValue, workflow>>
stores == <<ontology, artifacts, legacy, beliefs, packStore, feedback>>
vars == <<which, estimates, fermi, constraints, session, policies, world, valuations, stores>>

-----------------------------------------------------------------------------
(* cmis_v2 *)

\* Three estimates, overlapping, above and below the bounds, of two reliabilities.
Fusion == INSTANCE Estimation WITH
    Project <- {p1, p2}, Variable <- {v1}, Bounds <- (v1 :> [lo |-> 0, hi |-> 80]),
    Given <- {[lo |-> 0, hi |-> 60], [lo |-> 40, hi |-> 120], [lo |-> -80, hi |-> -40]},
    One <- 10, Unit <- 10, Reliability <- {5, 8}, Guess <- {20}, MaxEstimates <- 3

\* Two projects that observe two outcomes, and learn from them.
Learnt == INSTANCE Learning WITH
    Project <- {p1, p2}, Variable <- {v1}, Bounds <- (v1 :> [lo |-> 0, hi |-> 80]),
    Given <- {[lo |-> 0, hi |-> 60]}, One <- 10, Unit <- 10, Reliability <- {5}, Guess <- {},
    MaxEstimates <- 2, Actual <- {20, 30}, Tier <- {"official"},
    DefaultReliability <- ("official" :> 8), OutcomeWeight <- 7, EnoughRated <- 2,
    EnoughCases <- 2, MaxOutcomes <- 2

ASSUME Fusion!EstimationAssumption
ASSUME Learnt!EstimationAssumption /\ Learnt!LearningAssumption

\* Two trees, of leaves that are positive or span zero.
Trees == INSTANCE Fermi WITH
    Variable <- {"x"}, Hint <- ("x" :> "lognormal"), Limits <- ("x" :> Absent),
    Operation <- {"multiply", "subtract", "divide"},
    LeafRange <- {[lo |-> 2, hi |-> 4], [lo |-> -1, hi |-> 2]}, MaxTrees <- 2, MaxChildren <- 2,
    Far <- 9, answer <- treeAnswer

Identity(l, a, op, b) ==
    [type |-> "identity", lhs |-> l, rhs |-> [op |-> op, left |-> a, right |-> b]]
AtLeast(a, b) == [type |-> "inequality", a |-> a, b |-> b, sign |-> ">="]

\* A product, a quotient, two inequalities in a row and a nested quotient.
Relation == INSTANCE Constraints WITH
    Metric <- {"Revenue", "N", "ARPU", "Price", "SAM", "SOM", "TAM"},
    Relations <- <<Identity("Revenue", "N", "*", "ARPU"), Identity("Price", "Revenue", "/", "N"),
                   AtLeast("TAM", "SAM"), AtLeast("SAM", "SOM"),
                   [type |-> "identity", lhs |-> "Price",
                    rhs |-> [op |-> "/", inner |-> [op |-> "-", left |-> "Revenue", right |-> "SOM"],
                             right |-> "Revenue"]]>>,
    Ranges <- {[lo |-> 0, hi |-> 1], [lo |-> 1, hi |-> 2], [lo |-> 2, hi |-> 3]}, MaxGiven <- 4,
    Sample <- 0 .. 3, answer <- checked

\* The inequality of schemas/ontology.yaml:659 that is written the other way round.
Shares == INSTANCE Constraints WITH
    Metric <- {"Top3", "Top5"},
    Relations <- <<[type |-> "inequality", a |-> "Top3", b |-> "Top5", sign |-> "<="]>>,
    Ranges <- {[lo |-> 0, hi |-> 2], [lo |-> 1, hi |-> 3]}, MaxGiven <- 2,
    Sample <- 0 .. 3, answer <- checked

ASSUME Trees!FermiAssumption
ASSUME Relation!ConstraintAssumption /\ Shares!ConstraintAssumption

T == INSTANCE Tools
Gate == {"min_sources", "require_official", "max_age", "literal_ratio", "spread_ratio",
         "prior_ratio", "convergence"}
Modes == [mode \in {"strict", "free"} |->
    IF mode = "strict"
    THEN [gates |-> Gate, minSources |-> 2, official |-> TRUE, maxAge |-> 0, minLiteral |-> 7,
          allowPrior |-> FALSE, maxPrior |-> 0, methods |-> 1]
    ELSE [gates |-> {"max_age", "spread_ratio", "prior_ratio"}, minSources |-> 0, official |-> FALSE,
          maxAge |-> 1, minLiteral |-> 0, allowPrior |-> TRUE, maxPrior |-> 8, methods |-> 1]]
Nodes == {[type |-> "actor", traits |-> {"a"}], [type |-> "state", traits |-> {"b"}]}
Shapes == <<[id |-> "one", requires |-> {<<"actor", "a">>, <<"state", "b">>}],
            [id |-> "two", requires |-> {<<"actor", "a">>}]>>
TierOfSource == [s \in {"web_search", "kosis"} |-> IF s = "kosis" THEN "official" ELSE "web"]

\* Sessions of one project, of the tools of evidence and the world, of evidence and values, and
\* of patterns and strategies.
Gathering == INSTANCE Session WITH
    Project <- {p1}, Metric <- {v1}, TierOf <- TierOfSource, MaxFound <- 1, Node <- Nodes,
    MaxCollections <- 1, MaxRecords <- 2, MaxSnapshots <- 1, MaxNodes <- 2, MaxEdges <- 1,
    Method <- {"unknown"}, Evidence <- {1}, Sure <- 3, Mode <- Modes, Patterns <- Shapes,
    TopN <- 2, Constraint <- {{}}, Change <- {20}, Proof <- {1}, MaxStrategies <- 3, MaxCalls <- 5,
    Used <- T!EvidenceTools \cup T!WorldTools, MaxYear <- 1

Valuing == INSTANCE Session WITH
    Project <- {p1}, Metric <- {v1}, TierOf <- TierOfSource, MaxFound <- 1, Node <- Nodes,
    MaxCollections <- 1, MaxRecords <- 2, MaxSnapshots <- 1, MaxNodes <- 2, MaxEdges <- 1,
    Method <- {"unknown", "prior"}, Evidence <- {1}, Sure <- 3, Mode <- Modes, Patterns <- Shapes,
    TopN <- 2, Constraint <- {{}}, Change <- {20}, Proof <- {1}, MaxStrategies <- 3, MaxCalls <- 3,
    Used <- T!ValueTools \cup {"collect_evidence", "check_all_gates"}, MaxYear <- 1

Planning == INSTANCE Session WITH
    Project <- {p1}, Metric <- {v1}, TierOf <- TierOfSource, MaxFound <- 1, Node <- Nodes,
    MaxCollections <- 1, MaxRecords <- 2, MaxSnapshots <- 1, MaxNodes <- 2, MaxEdges <- 1,
    Method <- {"unknown"}, Evidence <- {1}, Sure <- 3, Mode <- Modes, Patterns <- Shapes,
    TopN <- 2, Constraint <- {{}, {"budget", "timeline"}}, Change <- {-10, 20}, Proof <- {1},
    MaxStrategies <- 3, MaxCalls <- 6,
    Used <- T!PatternTools \cup T!StrategyTools \cup {"build_snapshot", "add_node"}, MaxYear <- 0

ASSUME Gathering!SourceAssumption /\ Gathering!ModeAssumption /\ Gathering!ValueAssumption
       /\ Gathering!BoundAssumption
ASSUME Valuing!SourceAssumption /\ Valuing!ModeAssumption /\ Valuing!ValueAssumption
       /\ Valuing!BoundAssumption
ASSUME Planning!SourceAssumption /\ Planning!ModeAssumption /\ Planning!ValueAssumption
       /\ Planning!BoundAssumption

\* Of Migration: two files; a rename, a chain of renames, a removal.
FilesSaid == [{1, 2} -> {ida, idb, idx}]
Maps == {[renames |-> <<<<ida, idb>>>>, removals |-> {idx}],
         [renames |-> <<<<ida, idb>>, <<idb, idx>>>>, removals |-> {}],
         [renames |-> <<>>, removals |-> {idx}]}

-----------------------------------------------------------------------------
(* cmis_core *)

Shipped == INSTANCE Policies WITH
    Packs <- {}, Routings <- {}, Ref <- <<>>, Bundle <- {}, Evaluations <- {}, CustomGate <- {},
    answer <- judged
Edited == [Shipped!ShippedPack EXCEPT !.modes["decision_balanced"].gates = <<"own", "min_sources">>]
MetricOf(id, literal, spread, methods, convergence, part, kinds) ==
    [id |-> id, literal |-> literal, spread |-> spread, confidence |-> 50, methods |-> methods,
     convergence |-> convergence, prior |-> part, priors |-> kinds]
Both == MetricOf("TAM", 85, 25, {"fermi", "proxy"}, 30, 0, {})
Unmeasured == [Both EXCEPT !.convergence = Absent]

\* Every policy of the shipped pack on metrics at the edges of its thresholds.
Judging == INSTANCE Policies WITH
    Packs <- {Shipped!ShippedPack}, Routings <- {"reporting_strict" :> "mini"}, Ref <- <<>>,
    Bundle <- {[sources |-> 2, tiers |-> {"official"}, age |-> 300],
               [sources |-> 2, tiers |-> {"official", "web"}, age |-> 700]},
    Evaluations <- {<<MetricOf(id, 85, s, ms, 20, q, ks)>> :
                        id \in {"TAM", "Revenue"}, s \in {Absent, 25},
                        ms \in {{"fermi"}, {"fermi", "proxy"}}, q \in {0, 20}, ks \in {{}, {"llm"}}}
                   \cup {<<Both, Unmeasured>>, <<Unmeasured, Both>>},
    CustomGate <- {"max_age"}, answer <- judged

\* The pack and the routing are edited, gates are registered, policies resolved under two names.
Editing == INSTANCE Policies WITH
    Packs <- {Shipped!ShippedPack, Edited},
    Routings <- {"reporting_strict" :> "mini", "reporting_strict" :> "four"},
    Ref <- ("policy:reporting_strict@v3" :> "reporting_strict" @@
            "reporting_strict" :> "reporting_strict"),
    Bundle <- {}, Evaluations <- {}, CustomGate <- {"own", "max_age"}, answer <- judged

ASSUME Judging!PolicyAssumption /\ Editing!PolicyAssumption

SeedB == <<"SEED", "b">>
SeedC == <<"SEED", "c">>
SeedE == <<"SEED", "e">>
NodeOf(type, at, about, of, segs, known, where) ==
    [type |-> type, at |-> at, about |-> about, of |-> of, segments |-> segs, known |-> known, place |-> where]
Pays(from, to) == [type |-> "actor_pays_actor", from |-> from, to |-> to]
Name(n) == [name |-> n]

\* Three companies, one of them in the segment "s", one with a registration number; two states, of
\* which one is known later.
SeedOf == [d \in {"d"} |-> [date |-> 1,
    nodes |-> (SeedB :> NodeOf("actor", 0, {}, "b", {"s"}, Name("b"), 1))
        @@ (SeedC :> NodeOf("actor", 0, {}, "c", {}, [name |-> "c", crn |-> "C"], 2))
        @@ (SeedE :> NodeOf("actor", 0, {}, "e", {}, Name("e"), 6))
        @@ (<<"S", 1>> :> NodeOf("state", 0, {SeedB}, Absent, {}, Absent, 3))
        @@ (<<"S", 2>> :> NodeOf("state", 1, {SeedB}, Absent, {}, Absent, 4))
        @@ (<<"F", 1>> :> NodeOf("money_flow", 0, {SeedB, SeedC}, Absent, {}, Absent, 5)),
    edges |-> {Pays(SeedB, SeedC), Pays(SeedE, SeedC)}]]

\* The names of companies as identifiers have them, and which are alike: "ee" is "e" spelled another
\* way or another company's, "bo" another's, "al" begins as "a" does, "cc" is a new name of "c".
NameBase == [n \in {"a", "al", "b", "bo", "c", "cc", "e", "ee", "unknown"} |-> IF n = "al" THEN "a" ELSE n]
NameLikeness == [pair \in (DOMAIN NameBase) \X (DOMAIN NameBase) |->
    CASE pair[1] = pair[2]                             -> 10
      [] {pair[1], pair[2]} = {"e", "ee"}              -> 9
      [] {pair[1], pair[2]} = {"b", "bo"}              -> 8
      [] OTHER                                         -> 2]
Slices == ("near" :> [hops |-> 1, edges |-> {"actor_pays_actor", "actor_competes_with_actor"}]
           @@ "far" :> [hops |-> 2, edges |-> {"actor_pays_actor"}])
Ask(segment, asOf, context, slice) ==
    [domain |-> "d", segment |-> segment, asOf |-> asOf, context |-> context, slice |-> slice]
Rec(kind, of, told, y, at) == [kind |-> kind, of |-> of, told |-> told, year |-> y, at |-> at]

\* Six questions, one context and one batch of evidence, over the cache ...
Views == INSTANCE WorldGraph WITH
    Domain <- {"d"}, Seed <- SeedOf, Base <- NameBase,
    Likeness <- NameLikeness, Unknown <- "unknown",
    Context <- ("y" :> [actor |-> SeedB, baseline |-> 1, assets |-> {"brand"}]), Slice <- Slices,
    Question <- {Ask(Absent, Absent, Absent, "near"), Ask("s", 1, Absent, "near"),
                 Ask("s", 0, Absent, "near"), Ask(Absent, 1, "y", "near"), Ask(Absent, 1, "y", "far"),
                 Ask(Absent, Latest, Absent, "near")},
    Batch <- {<<Rec("customers", "b", Name("b"), 1, 2)>>},
    UseBackend <- FALSE, Lifetime <- 0, MaxBatches <- 1, MaxClock <- 1,
    cache <- graphCache, now <- graphNow, answer <- snapshot

\* ... and batches, of which three are ingested, with the files of the backend: companies new and
\* known, twice in one batch, with a name, a code, a name spelled otherwise or a name like another's,
\* and figures with and without a date.
Growth == INSTANCE WorldGraph WITH
    Domain <- {"d"}, Seed <- SeedOf, Base <- NameBase, Likeness <- NameLikeness, Unknown <- "unknown",
    Context <- <<>>, Slice <- Slices, Question <- {Ask(Absent, 1, Absent, "near")},
    Batch <- {<<Rec("company", "a", [name |-> "a", stock |-> "A"], 1, 1)>>,
              <<Rec("company", "a", Name("a"), 1, 1), Rec("customers", "a", Name("a"), 1, 0),
                [kind |-> "deal", of |-> "a", told |-> Name("a"), with |-> "b", year |-> 1, at |-> 1]>>,
              <<Rec("other", "a", Name("a"), 0, 0), Rec("company", "al", Name("al"), 1, 1)>>,
              <<Rec("customers", "b", Name("b"), 1, Absent), Rec("market", "b", Name("b"), 0, 0)>>,
              <<Rec("company", "b", [name |-> "b", stock |-> "B"], 0, 1), Rec("company", "a", Name("a"), 0, 1)>>,
              <<Rec("financial", "b", [stock |-> "B"], Absent, 1), Rec("company", "o", Name("bo"), 1, 1)>>,
              <<Rec("financial", "c", [crn |-> "C"], 1, 1), Rec("revenue", "c", [crn |-> "C", name |-> "cc"], 0, 0)>>,
              <<Rec("customers", "c", Name("cc"), 1, 1), Rec("customers", "e", Name("ee"), 1, 1)>>,
              <<Rec("customers", "i", Name("ee"), 1, 1), Rec("financial", "a", Name("a"), 1, 1)>>,
              <<Rec("revenue", "a", [stock |-> "A"], 1, Absent), Rec("company", "f", [crn |-> "F"], 1, 1)>>,
              <<Rec("company", "f", [stock |-> "F"], 1, 1), Rec("revenue", "o", Name("bo"), Absent, Absent)>>},
    UseBackend <- TRUE, Lifetime <- 0, MaxBatches <- 3, MaxClock <- 0,
    cache <- graphCache, now <- graphNow, answer <- snapshot

Datum(source, tier, v, confidence) ==
    [source |-> source, tier |-> tier, value |-> v, confidence |-> confidence]
Fused(method, v) == [method |-> method, value |-> v, literal |-> 50]
Bare == [segments |-> <<>>, paid |-> {}]
NoPrior == [result |-> "empty"]
APrior == [result |-> "prior", kind |-> "uninformative", spread |-> 20]
Lenient == [Shipped!ShippedPack EXCEPT !.modes["reporting_strict"].prior = "free"]

\* One metric that evidence, the graph or a prior may value, under every policy of two packs ...
Valuation == INSTANCE MetricValues WITH
    Metric <- {"Avg_price"},
    Graph <- {Bare,
              [segments |-> "s" :> [people |-> 10, companies |-> Absent]
                            @@ "t" :> [people |-> Absent, companies |-> 2],
               paid |-> {[from |-> "s", to |-> "p", amount |-> 30], [from |-> "p", to |-> "s", amount |-> 7]}]},
    Found <- {<<>>, <<Datum("K", "official", 12, 90), Datum("D", "official", 10, 95)>>,
              <<Datum("C", "curated_internal", Absent, 95)>>},
    Prior <- {[result |-> "error"], NoPrior, APrior},
    PackOnDisk <- {Shipped!ShippedPack, Lenient}, Candidates <- {},
    world <- reality, cached <- bundles, file <- packOnDisk, held <- packHeld, task <- metricTask,
    fused <- fusedValue
ASSUME Valuation!ValueAssumption

\* ... values to be fused, known and unknown, positive and negative ...
Fusing == INSTANCE MetricValues WITH
    Metric <- {}, Graph <- {Bare}, Found <- {<<>>}, Prior <- {NoPrior},
    PackOnDisk <- {Shipped!ShippedPack},
    Candidates <- {<<Fused("fermi", 10), Fused("proxy", 12)>>,
                   <<Fused("fermi", 10), Fused("proxy", Absent), Fused("top_down", 20)>>,
                   <<Fused("bottom_up", 12), Fused("fermi", 12), Fused("proxy", 4)>>,
                   <<Fused("other", -10), Fused("fermi", 0)>>, <<Fused("proxy", Absent)>>},
    world <- reality, cached <- bundles, file <- packOnDisk, held <- packHeld, task <- metricTask,
    fused <- fusedValue

Calls(c) == [call |-> c]
Gaps(precomputed) == [call |-> "pattern_engine.discover_gaps", precomputed |-> precomputed]
Evaluates(policy) ==
    [call |-> "value_engine.evaluate_metrics", policy |-> policy, metrics |-> {"Avg_price"}]

\* ... and the four workflows of config/workflows.yaml beside one with steps in another order.
Flow == INSTANCE Workflows WITH
    Metric <- {"Avg_price"},
    Graph <- {Bare, [segments |-> "s" :> [people |-> 10, companies |-> Absent],
                     paid |-> {[from |-> "s", to |-> "p", amount |-> 30]}]},
    Found <- {<<>>, <<Datum("K", "official", 12, 90)>>}, Prior <- {NoPrior, APrior},
    PackOnDisk <- {Shipped!ShippedPack, Lenient}, Candidates <- {},
    Program <- [w \in {"structure", "discovery", "design", "monitoring", "own"} |->
        CASE w = "structure"  -> [role |-> "structure_analyst", usage |-> Absent, programmed |-> TRUE,
                                  steps |-> <<Calls("world_engine.snapshot"),
                                              Calls("pattern_engine.match_patterns"),
                                              Evaluates("reporting_strict")>>]
          [] w = "discovery"  -> [role |-> "opportunity_designer", usage |-> Absent, programmed |-> TRUE,
                                  steps |-> <<Calls("world_engine.snapshot"),
                                              Calls("pattern_engine.match_patterns"), Gaps(TRUE)>>]
          [] w = "design"     -> [role |-> "strategy_architect", usage |-> Absent, programmed |-> FALSE,
                                  steps |-> <<Calls("strategy_engine.search_strategies"),
                                              Calls("strategy_engine.evaluate_portfolio")>>]
          [] w = "monitoring" -> [role |-> "reality_monitor", usage |-> Absent, programmed |-> FALSE,
                                  steps |-> <<Calls("learning_engine.update_from_outcomes"),
                                              Evaluates("reporting_strict")>>]
          [] w = "own"        -> [role |-> Absent, usage |-> "exploration", programmed |-> FALSE,
                                  steps |-> <<Evaluates(Absent), Gaps(FALSE), Calls("unsupported")>>]],
    Input <- {[place |-> TRUE, ids |-> {"x"}], [place |-> FALSE, ids |-> {}]},
    world <- reality, cached <- bundles, file <- packOnDisk, held <- packHeld, task <- metricTask,
    fused <- fusedValue, run <- workflow
ASSUME Flow!ProgramAssumption

Entry(bundle, digest, asOf, status) == [bundle |-> bundle, digest |-> digest, asOf |-> asOf, status |-> status]
Pick(context, pin, p, selector, pivot) ==
    [context |-> context, pin |-> pin, pack |-> p, selector |-> selector, pivot |-> pivot]

\* Of Packs: two clients append to a pack, curate what it refers to and verify it ...
Appended == {[entries |-> <<Entry(bx, bx, 1, Absent)>>, mode |-> Absent],
             [entries |-> <<Entry(by, by, 2, "draft"), Entry(bx, by, 1, "validated")>>, mode |-> Absent]}

\* ... a pack is asked for the latest bundle and for that of a day, while it grows ...
Selecting == INSTANCE Packs WITH
    Client <- {c1}, Pack <- {p1}, Base <- {}, Bundle <- {bx, by},
    PackSpec <- {[entries |-> <<Entry(bx, bx, 1, Absent), Entry(by, by, 3, "validated"),
                                Entry(bx, bx, 2, "draft")>>, mode |-> Absent],
                 [entries |-> <<Entry(by, by, 2, "validated"), Entry(bx, by, 1, "validated")>>,
                  mode |-> "fixed_date"],
                 [entries |-> <<Entry(bx, bx, Absent, "draft"), Entry(by, Absent, Absent, "draft")>>,
                  mode |-> Absent]},
    Lineage <- {}, Question <- {Pick(Absent, Absent, p1, Absent, 2), Pick(Absent, Absent, p1, "user_select", 1),
                                Pick(Absent, Absent, p1, "user_select", 3)},
    MaxVersions <- 2, MaxContexts <- 0

\* ... and a context with and without its version, while versions are saved.
Pinning == INSTANCE Packs WITH
    Client <- {c1}, Pack <- {}, Base <- {"b"}, Bundle <- {bx, by}, PackSpec <- {},
    Lineage <- {Absent, [bundle |-> bx, digest |-> bx], [bundle |-> by, digest |-> bx],
                [bundle |-> by, digest |-> by]},
    Question <- {Pick("b", 1, Absent, Absent, Absent), Pick("b", Absent, p1, Absent, Absent)},
    MaxVersions <- 0, MaxContexts <- 2

\* Of Feedback: two engines learn two outcomes in a context and in one whose name begins with its
\* name ...
Learned(strategy, deltas, revenue, margin) ==
    [strategy |-> strategy, deltas |-> deltas, revenue |-> revenue, margin |-> margin]
NamesGiven == {[stem |-> <<"a">>, version |-> 0], [stem |-> <<"a">>, version |-> 1],
               [stem |-> <<"a", "ip">>, version |-> 0]}
WhatIsLearned == (o1 :> Learned(Absent, <<>>, 1, Absent) @@ ida :> Learned(Absent, <<>>, 2, 1))

\* ... and one learns from outcomes of one, six and eleven metrics.
Zeros(n) == [i \in 1..n |-> 0]
Lessons == INSTANCE Feedback WITH
    Engine <- {c1}, Given <- {}, Outcome <- {o1, ida, idb, idx},
    About <- (o1 :> Learned("s", <<40>>, Absent, Absent) @@ ida :> Learned("s", Append(Zeros(5), 60), Absent, Absent)
              @@ idb :> Learned("s", Append(Zeros(10), -60), Absent, Absent)
              @@ idx :> Learned(Absent, <<>>, 1, Absent)),
    MaxUpdates <- 0, MaxNotes <- 2, strategies <- toldStrategies

ASSUME Selecting!PackAssumption /\ Pinning!PackAssumption /\ Lessons!FeedbackAssumption

-----------------------------------------------------------------------------
\* The components that are not chosen have one initial state each.
Init ==
    /\ StoresInit
    /\ Learnt!LearningInit
    /\ Trees!Init
    /\ IF which = "shares" THEN Shares!Init ELSE Relation!Init
    /\ Gathering!SessionInit
    /\ CASE which = "judging" -> Judging!Init
         [] which = "editing" -> Editing!Init
         [] OTHER -> /\ packFile = Absent /\ routingFile = Absent /\ pack = Absent /\ gates = {}
                     /\ compiled = Absent /\ effective = Absent /\ judged = Absent
    /\ IF which = "growth" THEN Growth!Init ELSE Views!Init
    /\ IF which = "valuation" THEN Valuation!ValueInit /\ workflow = [at |-> "none"]
       ELSE Flow!WorkflowInit /\ (which # "workflow" => reality = Bare)
    /\ which # "ontology" => O!Init /\ meant = [k \in DataKey |-> [f \in Field |-> ida]]
    /\ which # "storage" => A!Init
    /\ which # "keys" =>
           /\ doc = <<>> /\ table = Absent /\ row = <<>> /\ store = "closed" /\ stage = 0
           /\ read = <<>> /\ runs = 0 /\ saves = 0 /\ named = <<>> /\ raced = {} /\ finished = FALSE
    /\ which # "belief" => B!Init
    /\ which # "packing" => IF which = "pinning" THEN Pinning!Init ELSE Selecting!Init
    /\ which # "versions" => Lessons!Init

EnginesNext ==
    \/ which = "fusion" /\ Fusion!Next
         /\ UNCHANGED <<outcomes, outcomeFile, value, recorded, fermi, constraints, session, policies,
                        world, valuations, stores>>
    \/ which = "learning" /\ Learnt!LearningNext
         /\ UNCHANGED <<fermi, constraints, session, policies, world, valuations, stores>>
    \/ which = "fermi" /\ Trees!Next
         /\ UNCHANGED <<estimates, constraints, session, policies, world, valuations, stores>>
    \/ /\ which \in {"relation", "shares"}
       /\ IF which = "relation" THEN Relation!Next ELSE Shares!Next
       /\ UNCHANGED <<estimates, fermi, session, policies, world, valuations, stores>>
    \/ /\ \/ which = "gathering" /\ Gathering!SessionNext
          \/ which = "valuing" /\ Valuing!SessionNext
          \/ which = "planning" /\ Planning!SessionNext
       /\ UNCHANGED <<estimates, fermi, constraints, policies, world, valuations, stores>>
    \/ /\ \/ which = "judging" /\ Judging!Next
          \/ which = "editing" /\ Editing!Next
       /\ UNCHANGED <<estimates, fermi, constraints, session, world, valuations, stores>>
    \/ /\ \/ which = "views" /\ Views!Next
          \/ which = "growth" /\ Growth!Next
       /\ UNCHANGED <<estimates, fermi, constraints, session, policies, valuations, stores>>
    \/ /\ \/ which = "valuation" /\ Valuation!ValueNext /\ UNCHANGED workflow
          \/ which = "fusing" /\ Fusing!ValueNext /\ UNCHANGED workflow
          \/ which = "workflow" /\ Flow!WorkflowNext
       /\ UNCHANGED <<estimates, fermi, constraints, session, policies, world, stores>>
    \/ /\ \/ which = "selecting" /\ Selecting!Next
          \/ which = "pinning" /\ Pinning!Next
       /\ UNCHANGED <<estimates, fermi, constraints, session, policies, world, valuations, ontology,
                      artifacts, legacy, beliefs, feedback>>
    \/ which = "lessons" /\ Lessons!Next
         /\ UNCHANGED <<estimates, fermi, constraints, session, policies, world, valuations, ontology,
                        artifacts, legacy, beliefs, packStore>>

Next ==
    \/ StoresNext /\ UNCHANGED <<estimates, fermi, constraints, session, policies, world, valuations>>
    \/ EnginesNext /\ UNCHANGED which

Spec == Init /\ [][Next]_vars

-----------------------------------------------------------------------------
(* The properties of the components, for the one that was chosen           *)

\* Every component stays within its types.
TypeOK ==
    /\ StoresTypeOK
    /\ which \in {"fusion", "learning"} => IF which = "fusion" THEN Fusion!TypeOK ELSE Learnt!LearningTypeOK
    /\ which = "fermi" => Trees!TypeOK
    /\ which = "relation" => Relation!TypeOK
    /\ which = "gathering" => Gathering!SessionTypeOK
    /\ which = "valuing" => Valuing!SessionTypeOK
    /\ which = "planning" => Planning!SessionTypeOK
    /\ which = "judging" => Judging!TypeOK
    /\ which = "editing" => Editing!TypeOK
    /\ which = "views" => Views!TypeOK
    /\ which = "growth" => Growth!TypeOK
    /\ which = "valuation" => Valuation!ValueTypeOK
    /\ which = "fusing" => Fusing!ValueTypeOK
    /\ which = "workflow" => Flow!WorkflowTypeOK
    /\ which = "selecting" => Selecting!TypeOK
    /\ which = "pinning" => Pinning!TypeOK
    /\ which = "lessons" => Lessons!TypeOK

\* Propagation along the declared relations loses no value that satisfies them all, and reports a
\* relation violated only if none does (cmis_v2/engines/constraints.py propagate_constraints).
NoSolutionIsLost == which = "relation" => Relation!NoSolutionIsLost

\* The same of the inequalities with "<=" that the ontology declares (schemas/ontology.yaml:659).
SharesAreKept == which = "shares" => Shares!NoSolutionIsLost

\* A fused range, a calibrated suggestion, an evaluated tree and a propagated range say no more
\* than what they were made of, in whatever order it came and whoever shared the memory
\* (cmis_v2/engines/estimation.py, learning.py, constraints.py, cmis_core/value_engine.py,
\* outcome_comparator.py).
EstimatesAreSound ==
    /\ which = "fusion" => Fusion!FusionIsSound
    /\ which = "learning" =>
        /\ Learnt!FusionIsSound
        /\ Learnt!OutcomesStayHome
        /\ Learnt!SuggestionsAreObserved
    /\ which = "fermi" => Trees!FermiIsSound
    /\ which = "fusing" => Fusing!FusionIsBetween
    /\ which = "lessons" => Lessons!FewAreNoOutliers
    /\ NoSolutionIsLost

\* A gate that passed, a value that is "ok" and an impact that is ranked have behind them what they
\* claim, after any sequence of tool calls and restarts; of the policies of cmis_core the stricter
\* passes less, no prior passes for a value, a workflow shows what it made of one snapshot, and a
\* bundle that was verified is served, the nearest of a pack, the same for a version of a context
\* (cmis_v2/engines/policy.py, value.py, strategy.py; policy_engine.py, value_engine.py, workflow.py,
\* pack_store.py, curated_internal_source.py).
ChecksAreBacked ==
    /\ which = "gathering" => Gathering!CountersAreTrue
    /\ which = "valuing" => Valuing!OkIsBacked /\ Valuing!PassedMeansAll
    /\ which = "planning" => Planning!CountersAreTrue /\ Planning!ImpactIsProved
    /\ which = "judging" => Judging!StricterPassesLess
    /\ which = "valuation" => Valuation!PriorIsLast /\ Valuation!WhatPassesIsBacked
    /\ which = "workflow" => Flow!OneSnapshot /\ Flow!ReportIsTrue
    /\ which = "packing" => P!VerifiedIsServed
    /\ which = "selecting" => Selecting!VerifiedIsServed /\ Selecting!SelectedIsNearest
    /\ which = "pinning" => Pinning!VerifiedIsServed /\ Pinning!PinnedStaysPut

\* A snapshot shows the state of its date around its actor, a cached one what would be cut now, and
\* a company that can be told apart is one actor in it (cmis_core/world_engine.py,
\* reality_graph_store.py, project_overlay_store.py, actor_resolver.py, evidence_mapper.py).
SnapshotsAreSound ==
    /\ which = "views" => Views!ServedIsCurrent /\ Views!SnapshotIsSound
    /\ which = "growth" => Growth!OneIdentity

\* The codes a record tells of a company with its name lead to the company's actor from then on
\* (cmis_core/actor_resolver.py:23, existing actors are merged with new evidence).
CodesAreLearned == which = "growth" => Growth!CodesAreLearned

\* No step loses what was gathered before but where the component says so: estimates, records and
\* snapshots, what findings rest on once they are locked, the routing of the moment, evidence of
\* the world and of a task, the versions of a pack (estimation.py, evidence.py, world.py,
\* policy_engine.py, reality_graph_store.py, value_engine.py, pack_store.py).
NothingIsLost ==
    /\ Fusion!ForgottenOnlyBlind
    /\ Gathering!NothingGatheredIsLost
    /\ Gathering!LockedIsFrozen
    /\ Editing!ResolvedIsCurrent
    /\ Growth!EvidenceStays
    /\ Valuation!CollectedIsCached
    /\ P!PackVersionsStay
=============================================================================
