# Verification of CMIS

CMIS is a market-intelligence system in Python with two generations side by
side: `cmis_core` (engines, stores, an orchestration kernel and a "brownfield"
import of a company's own data) and `cmis_v2` (a project state machine whose
work is done by a language model that calls guarded tools).  This directory
holds TLA+ models of the parts whose correctness depends on order, failure and
concurrency, the TLC configurations that check them and the TLAPS proofs.

## 1. Inventory of the system

| Component | State it keeps | Operations | What is hard about it |
|---|---|---|---|
| **Project lifecycle** (`cmis_v2/state_machine, project, runner, tools`) | `manifest.json` per project (state, scope, runs), engine data files | `run_new`, `resume`, `transition`, `lock_scope`, `add_run`, auto-advance, the tool guard | several processes and no lock; a file rewritten in place; guard and action read the state separately; model calls in any order; crash between file and events |
| **Event log** (`cmis_v2/events`) | `events.db` per project | `emit_event`, `list_events` | must agree with the manifest; read back in an order that is not the order of writing |
| **v2 evidence, world and gates** (`cmis_v2/engines/evidence, world, policy, engine_store`) | dicts in the memory of a process and a JSON copy per record | `collect_evidence`, `add_record`, `build_snapshot`, `add_node`, `add_edge`, the gates, `check_all_gates` | memory and files diverge at a restart; counters kept beside what they count; any order of calls |
| **v2 estimation** (`interval, distribution, estimation, constraints, calibration, reference_class`) | estimates, Fermi trees, outcomes | fuse, evaluate a tree twice over, propagate constraints, calibrate | interval arithmetic around zero, results that depend on order, stale results in trees, cycles |
| **v2 value, belief, pattern, strategy, learning** (`cmis_v2/engines`) | values, strategies and outcomes, in memory for all projects and in files per project | set and get values, match patterns, search, prove and rank strategies, record and apply outcomes | stores keyed without the project; a status that outlives what it was based on |
| **Ontology migration** (`cmis_v2/ontology_migration`) | the manifest's version, a map of renames, the engine files | check, create a map, migrate | a crash between two files; engines that hold old copies; renames that chain |
| **Brownfield import** (`cmis_core/brownfield`) | `brownfield.db`: import runs, curated data and bundles, outbox; `contexts.db`: versioned focal-actor contexts | import, validate, commit, reconcile, patches, append and verify packs, choose a bundle | two databases, no common transaction; at-least-once outbox; two processes; version planned outside the transaction; retry after anything |
| **Orchestration kernel** (`cmis_core/orchestration`) | task queue, project and progress ledgers, run store | the reconcile loop: verify, diff, replan, execute | termination, budgets, dependencies, approvals, exceptions in the middle of a task |
| **Evidence engine** (`cmis_core/evidence_*`, `rate_limiter`) | evidence cache with expiry, token buckets | fetch by tier, early return, parallel fetch, retry, batch | threads, time, staleness, partial results |
| **Value engine** (`cmis_core/value_engine`, the executor's metric task) | none of its own: evidence cache, graph, policy pack | evaluate a metric by evidence, graph or prior; fuse methods; gate | collects a second time what the gates judge; reads the policy pack anew |
| **Workflows** (`cmis_core/workflow`, `config/workflows.yaml`) | outputs of the steps of a run | `run_workflow`, steps | a graph and evidence that change between steps; a failing step |
| **World** (`graph, reality_graph_store, reality_graph_backend, project_overlay_store, world_engine, actor_resolver, evidence_mapper`) | graph per domain, overlays, a snapshot cache, files | seed, ingest evidence, ingest a context, snapshot | shared mutable nodes, cache keys, identity of companies that come under several names |
| **Beliefs** (`belief_engine, belief_updater, prior_manager`) | a file per belief, a cache with a lifetime in each process | answer a prior, update it | two caches, torn files, policies that adjust what is answered |
| **Policy engine** (`policy_engine`) | policy pack, compiled policies, registered gates | resolve, compile, judge, route | files edited between calls; caches under references |
| **Search v3** (`cmis_core/search_v3`) | trace, per-phase budgets | run phases of queries until a gate accepts | budgets, stopping |
| **Stores** (`cmis_core/stores`, `storage_migration`) | runs, ledgers, artifacts, outcomes; files beside rows | put, get, dedupe, doctor, reset, migrate | a file and a row that must agree; steps that a crash separates; migration beside a live store |
| **LLM service** (`cmis_core/llm`) | providers, cache, tokens of the minute, cost of the day | select a model, `call`, `call_structured`, gates, escalation, fall back | limits checked before and booked after the call; clock read twice; midnight; one cache for all policies; fallback order |
| **Learning** (`learning_engine, outcome_comparator, context_learner`) | contexts and strategies in the memory of each engine, a store of contexts they share, what was learned | learn from outcomes, update a context by one | versions that share objects, version numbers in names, engines on one store, outliers of small samples |
| **Patterns, strategies, portfolios of `cmis_core`; sources; CLI, export, ontology data** | little | scoring, parsing, printing | mostly pure computation over floats |

How they interact: the CLI (`cmis_v2.runner`, `cmis_cli`) starts processes that
share nothing but files and SQLite databases.  `runner` calls `project` and
starts the model; the model calls `tools`, which guards each call with the state
of the manifest and then calls `project` or an engine; engines leave JSON files
in the project's `engine_data`, and `project.transition` looks there for the
preconditions of a transition.  In `cmis_core` the kernel drives the engines
through its executor and records everything in the stores; the brownfield
commit writes `brownfield.db` in one transaction and leaves the publication in
`contexts.db` to an outbox.

What makes each correct, in a sentence: a project is only at a stage whose
inputs exist and leaves a gate only on the user's word; the event log agrees
with the manifest; an import is committed as a whole, published exactly as
committed and can always be reconciled; the kernel ends, runs tasks after what
they depend on and never says more than was verified; the evidence cache never
serves what expired; a limiter never lets more calls through than its rate; an
estimate claims no more than what it was made of; a gate passes only what is
backed; a snapshot shows one moment and one actor per company; what was stored
is found again under its new name and place.

## 2. Modules and runs

| Module | Models | Code |
|---|---|---|
| `Lifecycle` | manifest, events and engine data of every project; CLI processes and the models they run | `cmis_v2`: `state_machine.py`, `project.py`, `runner.py`, `tools.py`, `engine_store.py` |
| `Brownfield` | import runs, bundles, outbox and contexts in two databases; commit and reconcile processes | `cmis_core/brownfield`: `commit.py`, `outbox.py`, `validation.py`, `import_run_store.py`, `uow.py`; `focal_actor_context_store.py` |
| `ImportLedger` | what an import promises its users, without databases or processes | the abstract specification `Brownfield` implements |
| `Kernel` | one call of the orchestration kernel: queue, ledgers, budgets, row and snapshots | `cmis_core/orchestration`: all of it; `run_store.py`, `ledger_store.py` |
| `Evidence` | collection of evidence by tiers, and the cache that processes share | `evidence_engine.py`, `evidence_store.py`, `EvidenceBundle` and `EvidencePolicy` of `types.py` |
| `Search` | one run of the search kernel: phases, queries, loads, crawls, gate and commit | `search_v3`: `runner.py`, `gate.py`, `document_fetcher.py`, `link_selector.py`, `synthesizer.py`; `evidence/search_v3_source.py` |
| `Curated` | curated data, bundles and override patches of `brownfield.db`, in their transactions | `cmis_core/brownfield`: `curated_store.py`, `dop_store.py`; `evidence/curated_internal_source.py` |
| `LLM` | one language model service: selection, cache, limits, attempts | `cmis_core/llm`: `service.py`, `model_selector.py`, `quality_gate.py`; the llm policies of `policy_engine.py` |
| `Intervals` | ranges and their arithmetic over integers | `engines/interval.py` |
| `Estimation`, `Learning` | estimates in the memory of a process and in files, their fusion; outcomes, ratings and what is learned from them | `engines/estimation.py`, `belief.py`, `learning.py`, `calibration.py`, `reference_class.py` |
| `Fermi` | trees of estimates, evaluated by intervals and by samples | `engines/estimation.py`, `distribution.py` |
| `Constraints` | propagation of ranges along declared relations | `engines/constraints.py` |
| `Tools` | the tools of the model and the table of where each is allowed | `cmis_v2/tools.py` |
| `Collections`, `Values`, `Portfolio`, composed by `Session` | a session of the model on one project: evidence and snapshots, values and gates, patterns and strategies | `tools.py`; `engines/evidence.py`, `world.py`, `value.py`, `policy.py`, `pattern.py`, `strategy.py`, `engine_store.py` |
| `Migration` | a project's move to a new ontology | `ontology_migration.py` |
| `Policies` | the policy pack, compiled policies, gates and routing | `policy_engine.py`, `config/policies.yaml` |
| `MetricValues`, extended by `Workflows` | the valuation of a metric, the task that gates it, fusion; workflows over it | `value_engine.py`, `executor.py`; `workflow.py`, `config/workflows.yaml` |
| `WorldGraph` | the reality graph, its files, overlays, snapshots and their cache | `reality_graph_*.py`, `project_overlay_store.py`, `world_engine.py`, `actor_resolver.py`, `evidence_mapper.py` |
| `Artifacts` | artifacts as files with rows, the doctor, resets with backups | `artifact_store.py`, `doctor.py`, `storage_migration.py` |
| `Legacy` | documents and outcomes under a key that was renamed | `storage_migration.py`, `outcome_store.py` |
| `Beliefs` | beliefs in files and in the caches of processes | `belief_engine.py`, `belief_updater.py`, `prior_manager.py` |
| `Packs` | versions of packs in their transactions, the choice of a bundle by pack or context | `pack_store.py`, `verify.py`, `curated_internal_source.py` |
| `Feedback` | outcomes compared with predictions, versions of contexts made of them | `learning_engine.py`, `outcome_comparator.py`, `context_learner.py`, `focal_actor_context_store.py` |
| `Services` | `Evidence` (twice, in detail and with a shared cache), `Search`, `Curated` and `LLM` beside each other; the initial state chooses one | what a run of the kernel calls |
| `KernelAndImports` | `Kernel` beside two settings of `Brownfield`; the initial state chooses one | what fills the stores the kernel reads |
| `Stores` | `Migration`, `Artifacts`, `Legacy`, `Beliefs`, `Packs` and `Feedback` beside each other; the initial state chooses one of them, or leaves room for another component | what outlives a process |
| `MCLifecycle`, `MCBrownfield`, `MCKernel`, `MCServices`, `MCEngines` | instances for TLC; `MCServices` gives `Services` its values, `MCKernel` gives them to `KernelAndImports` and `MCEngines` to `Stores`, beside which it has the other engines, each in an instance of its own | |
| `LifecycleProofs`, `BrownfieldProofs`, `KernelProofs`, `EvidenceProofs`, `LLMProofs`, `ServiceProofs`, `SessionProofs`, `StoreProofs` | theorems for all parameters; `KernelProofs` is also about `MetricValues`, `Workflows` and `Policies`, `ServiceProofs` about `Search`, `Curated` and `Services`, `SessionProofs` about `Estimation`, `Learning`, `Constraints` and `Fermi`, `StoreProofs` about `Stores` and all of its components | |

`PROJECT.json` names, for every definition, the lines it stands for.  In each
module an operator marked "Mutant" is a plausible bug of the operator below it;
no action uses it, and it is there to show that a property notices.
`PROJECT.json` lists one for each property of a run; where a property of
`Services`, `Stores` or `MCEngines` gathers those of several components, each of these
has a mutant beside the operator it breaks.

### 2.1 Lifecycle

A `Session` is a CLI process.  `pc[s]` is the place it has reached and `job[s]`
what it holds in memory; in particular `job[s].copy` is the manifest it loaded
and changed, and which it will write back whatever is on disk by then.
`_write_manifest` is two steps (`OpenManifest` truncates, `DumpManifest`
writes), and `transition` emits its events in two more, because a crash, a
raise or another process can come in between.  The language model is a
nondeterministic caller: in `llm` a session may call any tool the table allows
with any argument of the configuration, or end its turn.  The guard reads the
session's own project (`ToolAllowed`), the call acts on the one it names.
Data is abstracted to what the transitions test: whether the scope was locked,
whether evidence was saved and contains records, whether a snapshot was saved,
and the set of saved policy results.  `RecordPolicy` is what the end-to-end tests
do (`test_e2e_integration.py:125`), which save policy results themselves; nothing
in `cmis_v2` does.  `gatesPassed` and `lost` are observers no action reads:
`lost` is where a crash or a raise has left manifest and log apart, until the
next transition that is recorded in full.

| Run | Instance | Shows |
|---|---|---|
| `one` | one process, one project, two run identifiers, all answers and triggers, values JSON refuses, crashes anywhere | `StageBacked`, `UserGateNeedsUser`, `AuditMatchesManifest`, `CommandEnds` |
| `gate_project` | one process, two projects | violated: the guard and the action look at different projects |
| `policy` | one process, nothing recorded from outside | violated: gates that pass do not satisfy the precondition |

`one` has one process after another, which is how the tool is documented to be
used, though no lock enforces it.  Two sessions may undo each other's
transitions, scopes and runs, and then the log and the manifest differ too; no
text of the repository promises otherwise, so that is recorded as a hazard and
is neither a property nor a finding.  What survives any number of processes,
their lost updates and torn files is `StageBacked`; the theorem
`StagesAreBacked` says so for every set of sessions.  `AuditMatchesManifest`
says how long a crash or a raise between the manifest and the log shows: until
the next transition that is recorded in full, however many fail before it.

Fairness: a process that has something to do does it (`WF` on `Advance`), and
the completion ends because it is limited to 30 iterations and 600 seconds
(`SF` on `EndSegment`).  Nothing is assumed of users.

### 2.2 Brownfield and ImportLedger

A `Worker` is one `cmis brownfield` process (commit or reconcile), a `Run` an
import run.  `runs`, `bundles` and `outbox` are the tables of `brownfield.db`,
`contexts` the table of `contexts.db`.  SQLite serialises the writers of one
database, so every transaction (`with UnitOfWork`, or the statements up to a
`commit()`) is one action, and nothing larger is: the version is planned from
`contexts.db` (`PlanVersion`) before the transaction that records it
(`CommitRun`), and the outbox record is claimed, looked up, saved and recorded
in four (`Claim`, `Lookup`, `Save`, `Record`).  `job[w]` is what the process
carries from one to the next.  A reconcile lists the records of any set of runs,
which is what its filter, order and limit come to.  `Crash` ends a process between any two of them;
`StepFails` is a write that finds its database locked, which the handler turns
into a failed record.  A file is only what the properties tell apart: its
identity (the digest of the bundle made of it) and what validation says of it.
`commit_import_run` without `--base-id` makes up a base that no other run has;
the model calls it by the run's name.

| Run | Instance | Shows |
|---|---|---|
| `bf_two` | two processes, two runs, three files (good, warnings, refused), two versions, two faults | commits are whole, versions have no gap, done is published, and the ledger, in which a commit is final, is implemented |
| `kernel`, from the initial state `one` | one process, two runs on one context, two faults | a run is published as its own bundle (`PublishedIsWhatWasCommitted`) |
| `kernel`, from the initial state `fresh` | two processes, one run with a context of its own, two faults, fairness | it is published in the end (`CommittedGetsPublished`) |
| `bf_conflict` | one process, two runs on one context, one fault, fairness | violated: two commits planned the same version, one can never be published |
| `bf_replace` | two processes, two runs on one context, no fault | violated: `INSERT OR REPLACE` after a stale look replaces a published context |

`ImportLedger` has two variables: how far each run is and the file it stands
for.  `Phase` and `Content` in `Brownfield` are the refinement mapping; a
published run is one whose row says so, and crash, retry, second processes and
failed steps are stutters.

Fairness: running processes run on (`WF` on `Advance`) and somebody keeps
calling `reconcile --retry-failed`, which is what the error messages and the
documentation of the outbox tell the user to do (`SF`, since a process that
happens to be busy is not always able to start it).

### 2.3 Kernel

`execute` is one loop: verify (`Verify`), stop or plan (`Replan`), stop for the
run mode or the budget (`WaitForApproval`, `PauseManual`, `StopOnBudget`), take
the oldest pending task (`Execute`), apply what the executor answers
(`Answer`), save a snapshot (`SaveSnapshot`).  `pc` is the place in the loop;
after it come `FinalizeRun`, which writes the row in `runs.db`, and
`LastSnapshot`, which writes `ledgers.db`.  An exception inside the `try` may
come at every place (`Raise`; `ReplanRaises` between the queue and the ledger),
and leaves the ledgers as they are; outside of it the process dies (`Crash`).
What the engines answer for a metric is any `Computed` entry: what the verifier
tests of it are value, lineage, policy and whether the point lies in the
distribution.  `Diff` and `Satisfied` are the verifier, `Plan` the replanner
with the order in which it plans; `gaps` is the evidence plan of the project
ledger, `satisfied` the goal graph.  Goals are lists of one to three metrics
because that is what the rules of `GoalBuilder` make.  Left out: references to
evidence, call histories, timings and wording.

| Run | Instance | Shows |
|---|---|---|
| `kernel` | two metrics, every run mode, budget of five tasks, every answer, exceptions and crashes everywhere (and the two instances of `Brownfield` above, on variables of their own) | eight safety properties and that every call returns |

Five tasks are the workflow, collecting, computing both metrics, and one stale
task of an earlier plan, which is where plans overtake one another.  (With six
the run has ten times the states and shows nothing else.)  Fairness: `WF` on
`Proceed`; engines answer or raise because their requests have timeouts.

What the model makes visible: the replanner has a task for every gap the
verifier reports, so both stall counters stay at zero and "stalled" is never
reached (`NeverStalls`); a task that raises stays "running" in queue, ledger
and goal graph for good, and the stored snapshot says "running" while the row
says "failed"; `next_step_suggestion` never becomes "rerun", because the
replanner always leaves one of its own.  A call in manual mode ends after its
first task and every call starts with fresh ledgers, so that rerunning the
request, as `kernel.py:362` advises, repeats that task.

### 2.4 Evidence, Search, Curated and LLM

In `Evidence` a `Client` is a call of `fetch_for_metrics` and `rows` the table
`evidence_cache`.  A look-up takes three steps, because other processes use the
table: read the row (`LookUp`), judge its two ages (`Fresh`: since it was saved,
and since its collection began), and serve it (`Hit`) or delete whatever row
has the key by then (`Expire`).  A collection (`Open`) asks the sources of a
tier one after the other; the time is looked at before each (`Ask`,
`SkipTier`), failures of any kind go on with the next (`Fail`), and after each
tier the bundle is weighed (`Enough`, the two ratios in tenths).  `Tick` lets
time pass only while a source is asked or nobody works.  `got` is the result of
a client's current call, `forced` an observer of what it last collected with
`use_cache=False`.

In `Search` hits, links and contents are inputs.  A query's hits are loaded one
by one (`Load`) or are the start of a breadth-first crawl (`Crawl`), whose
documents are charged to the budget when it is over (`EndCrawl`; it may end any
time, since `max_time_sec` may be over).  `Weigh` extracts the candidates and
asks the gate, `Extra` is the replanned load, `EndPhase` the gate at the end of a
phase and `Commit` synthesis and gate together.  A candidate is its host, its
content and a fact, the host being that of the page at which redirects ended
(`Landing`), while `visited` and the links know the pages by the addresses they
were asked for, so that two documents may be one page; `fits` says whether the fact is of the year and unit
asked for; both are taken to be given in the request.  `loaded` is an observer
that counts every page.

`Curated` is what happens to the data of an import afterwards.  `now` are the
three tables as the one changing connection sees them, `saved` as they are
committed, and `open` tells whether a transaction is: Python's `sqlite3` opens
one with the first change, and `dop_store.py:573` applies patches in it if it is
open and in one of its own if not.  `Commit` and `Close` are the caller's (or
its crash, or the commit hidden in `migrate_brownfield_db`).  Identifiers are
table positions and digests contents; a payload is the one number that the JSON
pointer of a patch names, and `Applicable` and `After` are what an operation
does to it.  `Patched` keeps the order of the code, which is not that of the
call: patches are grouped by datum, and each group is applied and written before
the next, up to the first one that fails (`ApplyFails`).  `Replayed` is the
reference definition: the patches of the chain one by one on the bundle it
starts from.

`LLM` is one `LLMService` with its one caller; `pc` is the place in `call` or
`call_structured` and `job` the request with its selection.  `Candidates` are
the filters of `ModelSelector.select` and `Chosen` its ranking, `Route` the
selection with the default route behind it.  `Call` goes up to the cache;
`TakeToken`, `WaitOrNot` and `Wake` are the limiter, whose two readings of the
clock are two steps; `Charge` is the reset of the day with the check against its
limit, and `Answered` the booking, so that time and midnight (`Tick`,
`Midnight`) may come before, between and after.  `Raised` is the provider
failing in either.  A structured call is `CallStructured`, then
`AnsweredStructured` and `Escalate` as often as the attempts allow.  A prompt is
known by its task, costs are whole numbers, caching is taken to be on; traces
and statistics are left out.  `asked` and `spent` are observers.

| Run | Instance | Shows |
|---|---|---|
| `services` | collection from one official and two commercial sources under two policies; two processes on one cached metric; a search with a plain and a crawling phase over three pages of two hosts, one of which redirects to another now and then, under `reporting_strict` and under a laxer policy; two bundles that share a key, two patches (`set`, `add`), three bundles; three models of two providers, a task that escalates and one that is forbidden, one request a minute and one unit of cost a day | cached records are fresh, tiers come in turn and in time, strict values have two sources, budgets hold, nothing is loaded after the gate is met, crawls follow links, calls and searches end; a bundle is what its chain of patches says, its data are found and served as such, and their lineage is true; managed answers come from models the policy allows, the limits of the minute and of the day hold, and the ladder is followed |
| `evidence_forced` | two processes on one cached metric | violated: evidence collected with `force_refresh` is not what the next computation uses |

The properties of `Services` gather those of its components: `LoadsAreDue`
is `WithinBudget` and `LinksLeadBack`; `DataIsTrue` is `ChainReplays`,
`ServedAsReplayed` and `LineageIsTrue`; `AnswersAreAllowed` has `LadderIsTaken`
with it and `CallsReturn` has `SearchEnds`; `LimitsHold` is `RateHolds` and
`DayHolds`.  `AnswersAreAllowed` is about managed answers: when a policy forbids
the task, leaves no model or cannot be resolved, `call` falls back to the default
route without a selection, as its comment says (`service.py:522`), and the model
that answers need not be one the policy allows.  That nothing is loaded after the gate is met is proved only.

A day is one unit of time, as are the time budget and the longest call, and the
clock stops at three: long enough for a row to be saved late, to expire and to
be replaced.  Fairness: `WF` on the work of a call and on a search, because
sources, queries and pages answer, fail or time out; nobody has to start one.
Two patches are the least that have an order, in one call or two; three bundles
leave room for one to be patched twice.
`Services` takes the parameters of its components as constants, and assumes of
them what each component names as its assumption; the runs evaluate these.  The
run and the theorems are therefore about one and the same specification.

What the model makes visible: a page or query that cannot be had ends the whole
search with an exception and its candidates are lost (`Raise`); the early
return of `run` ends the collection, but running out of time only ends the tier.  In `Curated`, the
check that a patch was applied already (`dop_store.py:437`) never fires, because
a patch names the bundle it is for and cannot be in that bundle's own chain; a
patch listed twice in one call is applied twice; a failure in the caller's
transaction leaves data no bundle has; and a patched datum that equals an
existing one is shared, so its lineage does not name the patches.

In `LLM`, a window of a minute may see twice the limit and one more
(`RateHolds` with that bound holds, with one less it does not): a full window at
its end, the token taken below zero, and the next window at its start.
`call_structured` looks at neither limit and books on whatever day was last
reset, which is why `DayHolds` speaks of `call` alone: what it books for one
day fits because the reset comes before the check and the booking is done even
after midnight.  An answer that fails its gates is returned when no attempt is
left, and a task whose gate wants text (`has_claims`) fails it on every answer of
`call_structured` that is not a JSON string.

### 2.5 Engines and stores

`MCEngines` holds twenty-three small systems on variables of their own, six of which
are those of `Stores`; the initial state chooses one.  What they share is how they are built: state that lives in
the memory of a process beside its copy in files, callers that call anything in
any order, and a process that may end anywhere.

**Estimates** (`fusion`, `learning`).  `memory` is `_ESTIMATION_STORE`, keyed by
the variable alone; `file` is keyed by project and variable.  `BatchFuse` is the
fold of `_batch_fuse` in the order of reliability, with its clamping in between.
`Learning` adds outcomes, their rating against the estimate of the moment, what
is read back, and the estimates that are made of outcomes.  `FusionIsSound`
bounds what a fused range may claim; `OutcomesStayHome`,
`SuggestionsAreObserved` and `ForgottenOnlyBlind` say what survives projects
that share a memory, and restarts.

**Trees** (`fermi`).  A tree is built leaf by leaf; a subtree is a tree of its
own.  It is evaluated by interval arithmetic and by samples, of which the model
keeps the support: the sets of values that draws may reach, among them one in
the tail (`Far`).  `FermiIsSound`: samples of bounded leaves stay within the
interval, a cycle is answered as an error, and a stored result is that of the
tree as it is, unless a tree below it has changed.

**Constraints** (`relation`, `shares`).  The ontology's kinds of relations over
ranges of 0..3; the reference is the set of all assignments that satisfy them.
`NoSolutionIsLost` compares the two; `shares` is the inequality that the
ontology writes with `<=` and the code reads as `>=`.

**A session** (`gathering`, `valuing`, `planning`).  `Session` is the model
calling tools; `Call` is the guard, `Work` a call that writes, `Read` one that
answers.  `Collections` are evidence and snapshots with files that a crash may
tear, `Values` the values and gates of two modes, `Portfolio` patterns,
strategies and their ranking.  Three instances use different tools, so that each
can be deep where its state is.  `CountersAreTrue`, `OkIsBacked`,
`PassedMeansAll` and `ImpactIsProved` relate what a gate or a ranking reads to
what was given; `NothingGatheredIsLost` and `LockedIsFrozen` are action
properties.

**Migration of a project** (`ontology`).  `said` is the observer that remembers
what each file was meant to say.  A migration is `StartMigration` (manifest
first, as the code does) and one `MigrateFile` per file; engines `Load` and
`Save` between them.

**Policies** (`judging`, `editing`).  The shipped pack is translated as data;
`Compile` fills in what the parsers fill in, `EvaluateMetric` runs the gates in
their order.  `judging` puts metrics on the edges of every threshold;
`editing` changes pack and routing between calls and registers gates.

**Values and workflows** (`valuation`, `fusing`, `workflow`).  `task` is the
executor's `COMPUTE_METRIC`: `Collect` (the evidence that the gates judge),
`TakeSnapshot`, `EvaluateMetric` (the engine collects again, or fails to and
goes on without), `Judge`.  Between them the cache expires or is filled by
others, the graph grows and the pack on the disk is edited.  `ValueOf` is the
order evidence, graph, prior; `Fuse` is `fuse_4method`, whose average is kept as
a fraction.  `PriorIsLast` and `WhatPassesIsBacked` say what a value and a pass
rest on.  `Workflows` runs the steps of `config/workflows.yaml`; what a step
shows carries the graph it was made of, so that `OneSnapshot` can compare them.
Its `Program` is the four shipped workflows and one in another order that uses
every branch of the step runner; `ReportIsTrue` relates outputs to reports.

**World** (`views`, `growth`).  A node keeps its date, what it is about and its
place; a snapshot shares its nodes with the store, as in the code.  `views` asks
six questions over the cache, `growth` ingests three batches of evidence, of
eleven kinds, with the backend's files.  A record of evidence carries what it
tells of its company (a registration number, a stock code, a name), and
`Resolved` goes by that alone, in the order and with the indexes of
`ActorResolver`; the company that is really meant (`of`) is read by the
properties only.  How alike two names are is a parameter, the threshold of 0.9
is the code's.  `ServedIsCurrent`, `SnapshotIsSound` and `OneIdentity` are the
invariants, `EvidenceStays` the action property.  `OneIdentity` is about
companies that can be told apart by what was told of them (`ToldApart`); every
one of its conditions is needed, TLC finds a split or a merged company without
it.

**Storage** (`storage`, `keys`).  `Artifacts` writes a file and then its row
(`FirstWrite`, `SecondWrite`), and a reset moves one part at a time; `DoctorOk`
is the code's own checker.  `Legacy` has one action per transaction of
`migrate_runtime_storage` and per statement group of `OutcomeStore`, which
renames the same rows.

**Beliefs** (`belief`).  Two processes with a cache of a lifetime and files that
may be torn; `PriorIsCurrent` and `CountsAreBacked`.

**Packs** (`packing`, `selecting`, `pinning`).  `append_version` is a read
(`Start`) and an `Insert`, as another client may write in between; a fetch is
`Ask` (the reference) and `Look` (the bundle).  `packing` has two clients, two
versions of a pack and two bundles; `selecting` has three kinds of packs, with
and without dates and validation, and three questions; `pinning` two versions of
a context.  `VersionsAreDense` and the action property `PackVersionsStay` are
about the table, `VerifiedIsServed` relates what `verify_pack` and `verify_prj`
passed to what is answered later, `PinnedStaysPut` compares answers to the same
question over time, and `SelectedIsNearest` compares the choice with its rivals.

**Learning** (`versions`, `lessons`).  The versions of a context share their
list of outcomes and their margins in memory, which `lists` and `margins` keep
as objects; the store has copies.  `versions` has two engines on one store, two
outcomes, three updates and the names `a` and `a-vip`; `NothingLearnedIsLost`
says that the newest version of a context holds all that was applied to it.
`lessons` compares one outcome of one, six and eleven metrics
(`FewAreNoOutliers`); with exactly ten, an outlier is at three deviations and
the code's floats decide, so that case is left out.

| Run | Instance | Shows |
|---|---|---|
| `engines` | all of the above but `shares`; the instances are in `MCEngines` | seven properties, each the conjunction over the components it is about: `TypeOK`, `EstimatesAreSound`, `ChecksAreBacked`, `SnapshotsAreSound`, `StorageIsBacked`, `PriorsAreBacked`, and the action property `NothingIsLost` |
| `shares` | two metrics with `Top3 <= Top5` | violated: market shares that satisfy the ontology are cut off |
| `codes` | `growth` | violated: a stock code told of a known company together with its name is not kept, and alone does not lead to that company afterwards |

Many of these properties name an exception ("unless a tree below it has
changed").  Each exception is a behaviour of the code; without it TLC finds the
counterexample.  Texts of the repository deny two of them, which is said where
they are listed.  They are listed here, as they are what a maintainer will want
to look at:

- *Estimates.* With equal reliabilities the fused range depends on the order of
  arrival: `estimation.py:244` says "order-independent", which is so for
  different reliabilities only, and the property is about these; a range wholly
  below its bounds is clamped to them; after a restart `create_estimate` and
  `set_metric_value` start a record anew and overwrite its file; the stores in
  memory are keyed without the project; `add_fermi_leaf` leaves the results of
  the trees above it standing.
- *Sessions.* A value set again without evidence keeps the `evidence_id` of the
  one before; any identifier is accepted as proof of an impact;
  `evaluate_portfolio` calls a ranking complete when all its strategies are
  missing; the literal and spread ratios that the v2 gates read are never filled.
- *Migration.* The manifest's version is written before the files: after a crash
  the rest is never migrated; engines write back copies made before it.
- *World.* The key of a cached snapshot leaves the slice out
  (`reality_graph_backend.py:279`) and nothing invalidates it when evidence comes
  in; a snapshot nothing was filtered out of is the store's own graph; a figure
  without a date makes every later snapshot of a date raise.  The resolver is
  said to prevent duplicate actors (`actor_resolver.py:22`); it builds its
  indexes once for a batch, learns no code of a company it knows (`codes`),
  merges names that are 0.9 alike, identifiers keep 20 letters, and companies
  that come without a name share `ACT-unknown`.
- *Storage.* Two resets in one second share a backup and the second removes the
  first's; rows are migrated from a read made outside the write transaction.
- *Beliefs.* The number of observations starts from 0 after a reload; the beliefs
  of two processes may fork within the lifetime of a cache entry.
- *Values.* The gates judge the first collection of a task, the value comes from
  a second, and if that one fails the graph's value passes by the evidence of the
  first (`executor.py:203`, `value_engine.py:117`); an adopted prior has ratio
  1.0 and passes no shipped gate; evidence of the tier `curated_internal` is in
  no policy's list, which says `curated` (`policies.yaml:50`); a valuation
  reports one method while TAM and SAM ask for two; no customers at all is an
  "ok" value; a negative average always converges.
- *Workflows.* `--policy` never changes the policy that metrics are valued under,
  as the shipped steps name their own; the orchestrator's learning engine has no
  store of outcomes, so `reality_monitoring` learns nothing.
- *Packs and learning.* `verify_pack` commits what its caller has written, since
  it migrates on the caller's connection; a context without a reference is not
  answered from the pack.  An update asked of an older version, or of a context
  whose name has `-v` within (it goes on under the part before it), may make a
  version whose number is taken, and replaces that one (`context_learner.py:69`); fewer than ten metrics have no outlier, whatever
  their differences (`outcome_comparator.py:172`).

No fairness is assumed here: the bounded calls and clocks stop, which is why
deadlock is not checked, and nothing in these parts waits for anything.

## 3. What is proved

All theorems hold for any values of the constants that satisfy the named
assumptions, which the runs evaluate on their instances: `NothingAssumption`,
`QualityAssumption`, `BoundAssumption` of `Lifecycle`; `RequiredAssumption`,
`BudgetAssumption`, `ModeAssumption`, `RunAssumption` of `Kernel`; `AloneAssumption`
and `TogetherAssumption` of `KernelAndImports`; `TiersAssumption`,
`CacheAssumption`, `SearchAssumption`, `DataAssumption`, `ServiceAssumption` of
`Services`; `OntologyAssumption`, `StorageAssumption`, `KeysAssumption`,
`PriorsAssumption`, `PackingAssumption`, `VersionsAssumption` of `Stores`; and, as
hypotheses of the theorems because the modules are instantiated, those of
`Evidence`, `Search`, `LLM`, `Session`, `Estimation`, `Learning`, `Constraints`, `Fermi`,
`MetricValues`, `Policies` and `Workflows`, and of each component of `Stores` where a theorem is about it alone.  Some
theorems have one more hypothesis, which the code needs: `OneSession`, `OneProject` and `OneWorker` say that there is one of them.  Each is
named with its reason below.

`LifecycleProofs`: `TypeCorrect`, `StagesAreBacked`.  `StageBacked` alone is not
inductive: a session may hold an old copy and write it later.  `IInv` adds
`CopiesBacked` (the manifest in the memory of a session about to write is backed
too, and stays so because the engine store only grows) and `JobOK` (where a
session is tells what it holds).  `PreconditionHolds` carries `Backed` over a
transition.  With one process (`OneSession`: of two, one may write a manifest
that the log of the other does not know) `AuditAgrees` follows from `OneInv`:
`JobsFit` says of every place how far the file, the log and the copy in memory
are apart.
`GatesAreTheUsers` needs one project besides, as a session whose guard has read
one project's manifest may act on another project; `TurnInv` says whose turn it
is at every place.

`BrownfieldProofs`: `TypeCorrect`, `CommitsAreWhole`, `VersionsHaveNoGap`,
`DoneMeansPublished`, `CommittedStays` and `Refinement` (every step of the
processes is a step of `ImportLedger` or a stutter).  The contexts are written
from plans made much earlier, so `IInv` adds `RowsFilled` (a row that exists
has its data), `PlansFollow` (a planned version is the first or follows one that
exists) and `JobsOK` (what each process holds at its place agrees with the
tables).  `PlansFollow` survives two processes planning the same version, which
is why there is no gap although there are conflicts.  `PublishedAsCommitted`
holds for one process (`OneWorker`; the run `bf_replace` is the counterexample
with two): what the process found in `contexts.db` still holds when it writes
there (`FoundStillHolds`).
`KernelProofs` brings it to the composition that the run `kernel` looks at:
`ImportsArePublishedAsCommitted`, for any constants of kernel and imports.

`KernelProofs`: in three layers.  `LoopInv` (types, places, limits, and the
queue: pending tasks are exactly those after the last step) gives
`TypeCorrect`, `QueueIsShown`, `LimitsHold` and `NoStall`; for the last,
`PlanNotEmpty` shows that an unsatisfied goal has a plan.  On top of it `GoalInv`
(`DiffIsNoted`, `GraphShowsMetrics`, `Completed`) gives `ReasonsAreNoted`, and
`StoreInv` (`RowsFollow`, `SnapshotFollows`) gives `CrashLosesAtMostOne`,
`RecordsAgree` and, with both, `SuccessMeansSatisfied`.

Three more theorems bring what TLC checks on one run of a loop to all of them.
`PlansAnswerDiffs`: every task of a replan answers a gap, and every gap has its
tasks in the right order; that is the action property `PlanAnswersDiff`, from
`LoopInv` and a description of `Plan` by its members.

The value engine and the orchestrator of workflows are instantiated there as
`W`.  `TaskInv` says that the record of a task is the value of its metric by the
second collection, its snapshot and the policy on the disk, and that it passed
what the policy in memory says of that record and of the *first* collection:
two collections and two policies are what makes `PriorsAreLast`, `PassingIsBacked`
and `CollectionsAgree` more than a reading of the code.  `RunInv` says of a
workflow under way that its reports are its steps so far and that whatever it
shows is of a step that is reported and of the one snapshot it shows
(`RunsShowOneSnapshot`, `ReportsAreTrue`).

The policy engine is instantiated there as `Y`.  `PolicyInv` says that what is
cached as compiled is what the engine's own pack says, that an entry of the
routing cache has the routing its key tells, and that the last judgement is the
dry run of what was compiled.  `RoutingsAreCurrent` and `PoliciesTyped` follow.
`StricterPoliciesPassLess` compares the policies of `config/policies.yaml`, for
any evidence and metric: `PassingIs` turns the list of all violations into one
condition a gate (`EmptyIsFlat` and `FlatIsEmpty` are the two directions),
`StrictThresholds` and the like say what each policy asks of a metric, with the
thresholds of the metric's own, and `StrictPassesBalanced` and
`BalancedPassesExploration` go through the gates.  `JudgedTruly` is its second
half, for any pack: the result keeps one entry an identifier, that of the last
metric that has it (`LastOfId`), so that a failure of another one may go unnamed.

`EvidenceProofs`: `TypeCorrect`, `CacheIsFresh`, `TiersAreInTurn` and
`CollectionIsInTime`.  What is promised of a finished bundle is decided while it
is made.  `InProgress` says of a bundle under way which sources of which tier
have answered, and that the sources of lower tiers have all been asked; `OnTime`
that the clock is past the budget by one call at most, because it is looked at
before each question.  `RowsOK` carries both into the table, from where another
process may read them, and `Dated` says that no answer is older than its bundle.

`ServiceProofs` has three parts.

*Search*, from `WebAssumption` and `PhaseAssumption`: `SearchIsTyped` (with
`TypeInv`: a replanned load has a hit to load), `BudgetsHold` (with `BudgetInv`:
what a crawl has loaded so far is not counted yet and fits into what is left;
a crawl that raises loses its count, which is why the number of pages and
`fetches` may differ once the run is over), `LinksComeFromPages` (with `LinkInv`:
the documents are pages asked for under different addresses, and each page that waits in the queue is
linked from a document and differs from all of them and from the others that
wait; a page is marked as visited when it is put into the queue, so that both
stay so), `StrictValuesAreBacked` and
`MetMeansDone` (with `GateInv`: a run whose gate is met is at the end of a phase
or about to commit; `TwoElements` turns the gate's count of keys into two
sources).

*Curated data*, from `CuratedAssumption`: `DataAlwaysTrue`.  Three of the model's
functions are recursive over a list: a payload after changes, a bundle after
its chain, the values of the items after a call.  No induction principle over
lists can be cited, but such a function exists as a trace, one entry a step
(`StepsExist`), and two traces that begin alike and step alike are alike
(`Alike`); both follow from `LeastNumber`.  That gives each function its
equation (`HistoryIs`, `ReplayIs`) and what happens to a list that is continued
(`ReplayInTwo`).  The heart is `ItemByItem`: the code groups the patches of a
call by item and applies each group by itself, and that is the same as
replaying them one by one, because patches of different items do not touch.
The invariant `DataInv` is `Sound` of both the committed tables and those of the
open transaction, as a transaction may be rolled back at any time.  `Sound` says
of every datum that its lineage is a true history of patches that exist, and of
every bundle that its items are what its chain says and have data.  Rows are
only added and a patch is only approved (`Grows`), which keeps both
(`SoundGrows`).  A new bundle continues the chain of the one it is made from
(`LongerChain`), and a new datum the lineage of the one it replaces
(`RowFits`); where one of several groups fails, the rows of the earlier ones
stay in the open transaction and are sound as well (`ApplyFailsKeeps`).

*The components together*: every property that the run `services` checks of
`Services`, but for its liveness, holds for any values of the parameters
(`ServedAlwaysFresh`, `TiersAlwaysInTurn`, `AlwaysInTime`, `CommitsAreBacked`,
`AllLoadsAreDue`, `AnswersStayAllowed`, `LimitsAlwaysHold`, `DataAlwaysTrue`,
`AlwaysTyped`).  A behaviour of `Services` is one of each component, which moves
or stutters (`WebRuns`, `DataRuns`, `ServiceRuns`); the two instances of
`Evidence` share variables, so that a behaviour is one of either (`CacheRuns`,
`TiersRun`), which the first state decides for good (`OneChoice`).

`LLMProofs`, from `LLMAssumption`: `TypeCorrect` (`TypeInv` adds that a token is
missing only when the minute is over, and that what precedes the limits is a
first attempt), `AnswersAllowed` and `LadderTaken` (with `SelectInv`: the cache
keeps an answer under the model that gave it, and a later attempt has the model
chosen after the last failures; `ChosenIsCandidate` and `LadderIsChosen` say what
the ranking returns), `DayBounded` (with `DayInv`: what was booked for the day
of the last reset is part of `daily`, and a request being answered still fits),
`RateBounded` (with `RateInv`: a sum over a window is the difference of two counts,
so it suffices to know one count, that of the last refill.  From then on not more
was asked than tokens were taken, of which one may not have been there, and was
taken a minute later; in the minute before, not more than the limit and one.
The two together are twice the limit and one).

`SessionProofs`: `TypeCorrect`, `CountersAgree`, `OkValuesAreBacked`,
`PassedGatesMeanAll`, and the action properties `LockedStaysFrozen` and
`GatheredStays`.  A file is loaded into the memory, changed there and written
back, so the invariant speaks of every object in either: `Gathered`, `Drawn` and
`Worth` are the collections, snapshots and values that a tool may have made, and
the lemmas about `CountTier` and `CountType` say that appending a record or a
node adds one to its counter.  `GatheredStays` needs one project in the process:
the memory is keyed by an identifier alone (`engines/evidence.py:22`), so that
with two, six steps suffice for the collection loaded from one project to be
written over the other's file.

*Estimates and learning*, also in `SessionProofs`: `FusionsAreSound` and
`ForgetsOnlyBlindly` for the estimates alone, `LearningIsSound` and
`LearningForgetsOnlyBlindly` with outcomes beside them, from
`EstimationAssumption` and `LearningAssumption`.  The state is simple: every record
is one that estimates of its variable make (`RecordOf`), and a project's outcomes
have numbers that no others have (`NumberedInv`).  What is hard is
that a fusion is a sort and then a fold.  The sort: no two estimates have the
same rank and there are as many ranks as estimates, so each rank is taken
(`PlacesFill`), by the same estimate from either end of the list
(`SortedFromTheEnd`).  The fold: `StepsExist` says that the recursive
function exists and stays in a set that its step does not leave, by the length
of its traces; for the fusion this set is `FusedSoFar`, the ranges within the reach
of all estimates that keep what is common to them as long as no two are disjoint
(`JoinedStays`, which rests on `TowardKeeps`: a part of the way to a number
ends between).  The set holds the first estimate and so every
fusion before it is clamped (`FusedAll`); `FusedReaches`, `ReachIsBounded` and
`CommonIsKept` say what clamping does.  An average of outcomes is a sum over a set
taken one by one, and a number for the same reason (`AverageIs`).

*Relations and trees*, the last part of `SessionProofs`.  `NarrowingIsSound`, from
`ConstraintAssumption`: the code narrows ranges by one relation after another.
What the answer to one relation owes is `Sound`: a point that lies in the ranges and
satisfies the relation lies in the narrowed ones, and the relation is no
violation; for an identity since the arithmetic of ranges holds the
arithmetic of numbers (`SpanningIs`).  `Advances` carries this to the report,
`Checked` to the report on the first k relations, and
`AllChecked` to the recursive function, which exists by `StepsExist`.
The theorem is about relations whose inequalities are written with
`>=` (`GreaterFirst`): of the one that is not, `shares` shows that it is false.

`TreesAreSound`, from `FermiAssumption`: a tree's value is a recursion over trees
and, within each, a fold over its children, and this three times: ranges,
samples, and leaves that are counted.  A subtree has a greater number than its
parent (`Forest`), so that each recursion has a solution (`RecursionExists`, by
filling it in from the last tree) and what the greater trees hand
down to a tree holds of all (`CountingDown`).  The folds keep `Truly`: if as many
leaves are sampled from their own ranges as there are, every sample is a number
within the range (`FoldsAreTrue`, by `CombineIs` for one operation).  This is
`TreesAreTrue`, and the invariant `Grown` adds that a marked tree of leaves holds
what they give (`Stored`), which growing a tree undoes with the mark.

`StoreProofs` is about the six stores of `Stores`, each with its invariant, and about
all of them together.  For `Packs`: `PacksTyped`, `PacksAreDense`, `PacksStay`,
`VerifiedStaysServed`, `PinnedAnswersStay` and `NearestIsChosen`.  `PackInv` says
that the rows of an open transaction are the committed ones and its own, and
that a row about to be inserted is still the next one when its client holds the
write lock; `VerifiedInv` and `PinnedInv` relate what was passed or served to
what is committed and to the fetch under way.  `NearestIsChosen` is about any
list of bundles: `LastIsLatest` and `FirstIsEarliest` say what `LastOf` and
`FirstOf` choose.  For `Artifacts`: `ArtifactsTypeCorrect`, `ArtifactsBacked` and
`BackupsKeep`.  `BackedInv` is the order of writing: files before rows before
references, and rows moved before files; `KeptInv` says that the backup under
way holds none of the parts that are left to move, so that none is replaced,
which is where "no two resets began in the same second" is needed.

For `Beliefs`: `BeliefsTyped`, `PriorsAreCurrent`, `PriorsAreReal` and
`CountsStayBacked`.  An answer
comes from a cache that may be an hour old, so `BeliefInv` relates every cache to
the files: `CacheOK` says that the cached belief's file is there and whole, and
`Current` that no whole file of the same process, or older than the cache, is
younger than it.  The cached file stays whole because only the file being
written can be torn.  `CountsStayBacked` is about a recursive function, the
observations of all that a file descends from, and no induction over the files
is at hand.  Its invariant says that *some* function is one such (`Counted`), that all
of these observations have been given, and that no belief that is stored or cached
counts more of them.  Each file that is written
extends that function by a value (`CountsGrow`), and as the recursion always goes
to an older file, the function is the model's `Descent` (`DescentIs`, by the least
file where they differ).

For `Legacy`: `LegacyTyped`, `MigrationKeeps` and `OpenStoresRead`.  Two programs
rename the same rows after reading them in another transaction.  `DocInv` says
that a document with the old key is in a database that the migration has still
to come to (`Ahead`), which a migration that is run again restores
(`ColumnsAreAhead`); `ReadInv` that a row that was read is as it was read unless
it was saved or dropped since, and that while the store is opening, a row that
it has not read is one that needs no renaming.  `RowInv` then keeps an open
store readable while the migration writes its old copies back: what it writes
has no old key, and it leaves the column alone.

For `Migration`: `MigrationKeepsMeaning`, for maps that are plain (no rename
starts from what an earlier one has made, nothing renamed is removed).  The code applies the renames in a row to
what the one before has left; `ChainIsShort` says that at most one of them
changes a name, so that the row is one renaming.  `FilesFollow` says of every file
what it is by what it was meant to say, for files the migration has come to and
for those it has not; those that an engine, which had loaded them before, has
written since are `lagging` and left out, as the property says.  `MigrationTyped`
rests on the same: renaming leads from one set of names to another.

For `Feedback`: `NothingLearnedLost`, for contexts that users name with their
version 1 or without a number, as all do in the repository.  The versions of a
context share the list of outcomes and the margins in memory, so an update
changes objects that older versions refer to as well, and `update_baseline_state`
appends to a list before it is known where the new version will be saved.
`FeedbackInv` therefore speaks of objects: contexts whose names have different
stems refer to none together (`NoneShared`), and the newest version of a stem in
memory would, if it was saved again, give the row that is there (`AsSaved`).  The
row then tells all that was applied to the stem (`Told`; `LastWord`: one more
outcome has the last word if it says something).  Only the newest version need
do so, since older ones in memory have lists that went on without them.  The
types say besides that a version is one more than the updates at most, so that
the newest row exists (`NewestIs`), and that a name tells its version
(`Numbered`).

`FewNeverOutlying` is that `FewAreNoOutliers` holds for any integer differences,
not only those of `lessons`.  It is Samuelson's inequality: no number is further
from the mean of n numbers than the square root of n - 1 standard deviations,
which is three for ten.  The sum of the other numbers, squared, is at most their
number times the sum of their squares (`OneMoreSquare`, by induction in
`NoneBeyond`), and `FewAreNear` is the rest.  `Total` is a recursive function;
that it is the sum step by step (`TotalIs`) needs that such steps can be taken at
all (`StepsExist`).  The invariant is only that every note was taught by its
outcome (`NotesTold`).

*The stores together*: `StorageStaysBacked`, `PriorsStayBacked` and
`StoresStayTyped` are the properties that the run `engines` checks, for any values
of the parameters.  As with `Services`, a behaviour is one of the component that
the first state chose (`OntologyRuns` and the like), for good (`ChoiceStays`).
Where it chose none of the six, anything may happen to their variables
(`OthersNext`), so that a behaviour of `MCEngines`, whose other components leave
`which` alone, is one of `Stores`.

Induction over numbers is used through first-order consequences of
`WellFoundedInduction`: `LeastNumber` (a set of numbers that is not empty has a
least one) gives `LargestNumber`, `DatesAreBounded` and the like: the least
counterexample has a predecessor that is none.

The models are written so that prover and model checker read the same: the
status of a value in `Values` and the advice of `Portfolio` are IFs where a CASE
would have overlapping guards, of which TLC takes the first and the prover may
take any; `WithRow` of `Packs` is a function constructor, as the prover does not
know `@@`, and the unions in `Kept` of `Artifacts` are in parentheses.

Only model-checked: liveness (`CommandEnds`, `CommittedGetsPublished`,
`CallsReturn`), which the prover does not reach; the graph of section 2.5
and `ImpactIsProved` of `Portfolio`, whose folds over
nodes and strategies need induction over data, some of them by operators
that the prover cannot take.  Of the properties of `MCEngines`, `StorageIsBacked`
and `PriorsAreBacked` are proved as they stand, and `TypeOK` for the stores.  Of
`EstimatesAreSound`, `ChecksAreBacked`, `SnapshotsAreSound` and `NothingIsLost`,
the parts about estimates and learning, trees, relations, sessions, packs, metric values, workflows and
policies are proved where their components are (`FusionsAreSound`, `LearningIsSound`, `TreesAreSound`, `NarrowingIsSound`, `CountersAgree`, `PassedGatesMeanAll`, `PassingIsBacked`,
`StricterPoliciesPassLess`, `FewNeverOutlying`, `VerifiedStaysServed`, `LockedStaysFrozen` and so on); the
conjunctions are not, as those of the graph and of the parts above are in them.
That nothing gathered is lost is checked and proved for one project, as it is
false for two in one process.

## 4. Bounds

`MaxVersion` and `MaxFaults` bound `Brownfield`: two versions are the least at
which one context follows another, and two faults let a crash hit the recovery
from a crash.  `MaxIterations` is the kernel's own budget.  In `LLM` a
minute is two ticks and the clock stops at three, so that windows overlap;
`MaxDay` gives one midnight; `MaxBooked` ends the structured calls, which no
limit ends.  One project is
enough where sessions only meet on a project, and two processes are
the least that race.  The instances of `MCEngines` are the least
in which their hazard can happen: three estimates overlap pairwise but not
together; two projects share a memory; four ranges reach through two inequalities
in a row; trees of two levels have stale parents; three to six calls of a session
reach a restart between two writes; two artifacts and two resets collide; two
or three batches tell of a company under different identifiers; two observations in two processes
outlive a cache entry.
Symmetry is used where sessions, runs or processes are
interchangeable and no liveness is checked.  Deadlock checking is off for
`Lifecycle`, `Kernel`, `MCServices` and `MCEngines`: when every command has ended, or the
clock has stopped, and no user acts, the system rests.

## 5. Plan

Done: `Lifecycle`, `Brownfield` with `ImportLedger`, `Kernel`, and their proofs;
`Evidence`, `Search`, `Curated` and `LLM`; the engines and stores of section 2.5.

Next, in this order:

1. Theorems about the folds of section 2.5, in the way of `Curated`: as traces;
   first `ImpactIsProved` of `Portfolio`.
2. The rest of the brownfield data: context views and mappings.
3. The rest of evidence collection: threads (`evidence_parallel`), retry,
   batches, token buckets (`rate_limiter` and the search provider's).
4. The benchmark runner of the LLM service; the v2 `EventLog`.

Components that are small are checked together: one MC module chooses the
component in its initial state, so that one run covers the operations of all
of them.

Known hazards that no property covers: a manifest read while another process
truncates it (`project.py:163`), the order of the last key taken of a dict
(`project.py:67`), a scope that stays locked when the user goes back
(`project.py:43`), a collection saved though all its sources failed
(`evidence.py:293`), a turn that ends in a state that is no user gate
(`runner.py:956`), events listed by a random identifier (`events.py:208`), and a
base whose own name ends in `-vN` (`focal_actor_context_store.py:29`).

## 6. Not modelled, and why

Parsers of external web APIs (their answers are inputs); formatting, printing,
prompts, deliverables and reports; generated types, static data and ontology
files.  The threads, retries, batches and token buckets beside the evidence
engine, which the engine does not call.  Mappings and context views of the
brownfield data, which only tests use.  `pattern_learner` and `learning_policy`,
which the learning engine holds and never calls.  Scoring and ranking of
patterns, strategies and portfolios in `cmis_core` and the propagation of
uncertainty: float arithmetic with no state, and
the same promises are modelled in `cmis_v2`'s engines.  Densities and
percentiles of distributions.  The audit of ungrounded claims and the content
of records.
