----------------------------- MODULE Lifecycle -----------------------------
(***************************************************************************)
(* The project lifecycle of cmis_v2: one manifest.json and one events.db   *)
(* per project, moved from state to state by CLI processes (run_new and    *)
(* resume in runner.py) and by the language model those processes run,     *)
(* which calls the guarded tools of tools.py.                              *)
(*                                                                         *)
(* A Session is one CLI process.  Nothing locks the manifest: every        *)
(* operation loads it, computes a new one in memory and rewrites the file  *)
(* with open(path, "w"), so two sessions on a project, or a crash inside   *)
(* the rewrite, meet here as they meet on disk.                            *)
(***************************************************************************)
EXTENDS FiniteSets

CONSTANTS
    Project,        \* project identifiers
    Session,        \* CLI processes
    Run,            \* run identifiers passed to add_run
    NoProject,      \* the project of an idle session
    PolicyRecorder, \* TRUE: something outside cmis_v2 saves policy results
    Answer,         \* the answers users give at the gates
    ModelTrigger,   \* the triggers the model passes to its transition tool
    MayCrash,       \* TRUE: a process may die between two steps
    Unserializable  \* TRUE: the model may pass values JSON cannot carry

ASSUME NoProjectAssumption == NoProject \notin Project
ASSUME FlagAssumption == PolicyRecorder \in BOOLEAN /\ MayCrash \in BOOLEAN
                         /\ Unserializable \in BOOLEAN

VARIABLES
    manifest,   \* projects/<id>/manifest.json
    audit,      \* events.db: where the recorded transitions end, last trigger
    evidence,   \* engine_data/evidence: "none", "empty" or "records"
    world,      \* engine_data/world: a snapshot was saved
    policy,     \* engine_data/policy: what the saved results say
    gatesPassed,\* observer: a gate-check tool has answered "passed"
    lost,       \* observer: what crashes and raises have cost each project and
                \* no later transition has made good
    pc,         \* where each session is
    job         \* what each session holds in memory

vars == <<manifest, audit, evidence, world, policy, gatesPassed, lost, pc, job>>

-----------------------------------------------------------------------------
(* state_machine.py                                                        *)

State == {"requested", "discovery", "scope_review", "scope_locked",
          "data_collection", "structure_analysis", "finding_review",
          "finding_locked", "opportunity_discovery", "opportunity_review",
          "strategy_design", "decision_review", "synthesis", "completed",
          "rejected"}

\* TRANSITIONS, as <<current, trigger, next>>.
Transitions ==
    { <<"requested", "project_created", "discovery">>,
      <<"discovery", "discovery_completed", "scope_review">>,
      <<"scope_review", "scope_approved", "scope_locked">>,
      <<"scope_review", "scope_revised", "discovery">>,
      <<"scope_review", "scope_rejected", "rejected">>,
      <<"scope_locked", "auto", "data_collection">>,
      <<"data_collection", "data_quality_passed", "structure_analysis">>,
      <<"structure_analysis", "analysis_completed", "finding_review">>,
      <<"finding_review", "finding_approved", "finding_locked">>,
      <<"finding_review", "finding_deepened", "structure_analysis">>,
      <<"finding_review", "finding_completed_early", "synthesis">>,
      <<"finding_locked", "opportunity_included", "opportunity_discovery">>,
      <<"finding_locked", "opportunity_not_included", "synthesis">>,
      <<"opportunity_discovery", "opportunity_completed", "opportunity_review">>,
      <<"opportunity_review", "opportunity_selected", "strategy_design">>,
      <<"opportunity_review", "opportunity_deepened", "opportunity_discovery">>,
      <<"opportunity_review", "opportunity_completed_early", "synthesis">>,
      <<"strategy_design", "strategy_completed", "decision_review">>,
      <<"decision_review", "decision_approved", "synthesis">>,
      <<"decision_review", "decision_revised", "strategy_design">>,
      <<"synthesis", "deliverable_saved", "completed">> }

Trigger == { t[2] : t \in Transitions }
Source(trigger) == CHOOSE s \in State : \E t \in Transitions : t[1] = s /\ t[2] = trigger
Target(trigger) == CHOOSE s \in State : \E t \in Transitions : t[2] = trigger /\ t[3] = s

CanTransition(state, trigger) ==
    \E t \in Transitions : t[1] = state /\ t[2] = trigger

TerminalStates == {"completed", "rejected"}

UserGateStates == {"scope_review", "finding_review", "finding_locked",
                   "opportunity_review", "decision_review"}

-----------------------------------------------------------------------------
(* The manifest and the preconditions of project.py                        *)

Manifest == [state : State \cup {"absent", "torn"}, scope : BOOLEAN, runs : SUBSET Run]

Absent == [state |-> "absent", scope |-> FALSE, runs |-> {}]

\* What a file truncated by open(path, "w") holds: json.load raises on it.
Torn == [state |-> "torn", scope |-> FALSE, runs |-> {}]

\* Mutant: create_project stores a state the state machine does not know.
FreshUnknownState == [state |-> "created", scope |-> FALSE, runs |-> {}]

\* What create_project, lock_scope and add_run put into the manifest.
Fresh == [state |-> "requested", scope |-> FALSE, runs |-> {}]

LockScope(m) == [m EXCEPT !.scope = TRUE]

AddRun(m, r) == [m EXCEPT !.runs = @ \cup {r}]

Loadable(p) == manifest[p].state \in State

PolicyResult == {"passed", "failed"}

\* The records _check_policy_gate_passed may take for the latest one: the last
\* key of an unordered directory listing, so any saved record, or none.
LatestPolicy(p) == IF policy[p] = {} THEN {"missing"} ELSE policy[p]

\* Mutant: no precondition is looked up for the trigger.
NoPrecondition(p, trigger, latest) == TRUE

\* _PRECONDITIONS, on what the engine store and the manifest hold.
PreconditionHolds(p, trigger, latest) ==
    CASE trigger = "auto"                -> manifest[p].scope
      [] trigger = "data_quality_passed" -> evidence[p] # "none"
      [] trigger = "analysis_completed"  -> world[p]
      [] trigger \in {"finding_approved", "opportunity_selected",
                      "decision_approved"} -> latest = "passed"
      [] OTHER -> TRUE

-----------------------------------------------------------------------------
(* The tool guard of tools.py, for the tools that change the state here    *)

ToolsAllowedIn(state) ==
    CASE state = "discovery"          -> {"transition", "lock_scope", "collect_evidence", "check_gates"}
      [] state = "data_collection"    -> {"transition", "add_run", "collect_evidence", "check_gates"}
      [] state = "structure_analysis" -> {"transition", "add_run", "build_snapshot", "check_gates"}
      [] state = "strategy_design"    -> {"transition", "add_run", "check_gates"}
      [] state = "opportunity_discovery" -> {"transition", "add_run"}
      [] state = "synthesis"          -> {"transition", "check_gates"}
      [] state \in {"requested", "scope_locked", "finding_locked"} -> {"transition"}
      [] OTHER                        -> {}

\* _get_current_state_str turns an unreadable manifest into "", which
\* _safe_call takes for "no project": the guard is skipped.
ToolAllowed(s, tool) ==
    LET state == manifest[job[s].own].state
    IN  state = "torn" \/ tool \in ToolsAllowedIn(state)

\* runner._GATE_ACTION_MAP: the triggers a user's answer at a gate can name.
GateActions ==
    { <<"scope_review", "approve", "scope_approved">>,
      <<"scope_review", "revise", "scope_revised">>,
      <<"scope_review", "reject", "scope_rejected">>,
      <<"finding_review", "approve", "finding_approved">>,
      <<"finding_review", "revise", "finding_deepened">>,
      <<"finding_review", "complete", "finding_completed_early">>,
      <<"opportunity_review", "approve", "opportunity_selected">>,
      <<"opportunity_review", "select", "opportunity_selected">>,
      <<"opportunity_review", "revise", "opportunity_deepened">>,
      <<"opportunity_review", "complete", "opportunity_completed_early">>,
      <<"finding_locked", "include_opportunity", "opportunity_included">>,
      <<"finding_locked", "skip_opportunity", "opportunity_not_included">>,
      <<"decision_review", "approve", "decision_approved">>,
      <<"decision_review", "revise", "decision_revised">> }

UserAction == { a[2] : a \in GateActions }

ASSUME InputAssumption == Answer \subseteq UserAction /\ ModelTrigger \subseteq Trigger

\* The irreversible ones are shown with the current gate and confirmed first.
ConfirmedActions == {"approve", "reject", "complete"}

-----------------------------------------------------------------------------
(* Sessions                                                                *)

Job == [cmd     : {"none", "new", "resume"},     \* run_new or resume
        own     : Project \cup {NoProject},      \* CMISTools.project_id
        tgt     : Project \cup {NoProject},      \* the call's project_id
        op      : {"none", "create", "transition", "lock_scope", "add_run"},
        trigger : Trigger \cup {"none"},
        actor   : {"none", "system", "user", "rlm"},
        caller  : {"none", "start", "auto", "llm"}, \* who waits for the result
        answer  : UserAction \cup {"none"},
        copy    : Manifest]                      \* the manifest in memory

NoJob == [cmd |-> "none", own |-> NoProject, tgt |-> NoProject, op |-> "none",
          trigger |-> "none", actor |-> "none", caller |-> "none",
          answer |-> "none", copy |-> Absent]

PC == {"idle", "confirm", "load", "open", "dump", "created", "emit",
       "emitTrigger", "auto", "segment", "llm"}

Goto(s, label) == pc' = [pc EXCEPT ![s] = label]

\* The process ends, by returning, by an uncaught exception or by a crash.
Exit(s) == Goto(s, "idle") /\ job' = [job EXCEPT ![s] = NoJob]

\* A call with no project operation under way keeps only what the session is.
Rest(j) == [NoJob EXCEPT !.cmd = j.cmd, !.own = j.own]

Stores == <<evidence, world, policy, gatesPassed>>
Files  == <<manifest, audit, lost>>

Init ==
    /\ manifest = [p \in Project |-> Absent]
    /\ audit = [p \in Project |-> [at |-> "absent", by |-> "none"]]
    /\ evidence = [p \in Project |-> "none"]
    /\ world = [p \in Project |-> FALSE]
    /\ policy = [p \in Project |-> {}]
    /\ gatesPassed = [p \in Project |-> FALSE]
    /\ lost = [p \in Project |-> {}]
    /\ pc = [s \in Session |-> "idle"]
    /\ job = [s \in Session |-> NoJob]

\* run_new: create_project builds the manifest of a fresh id.
RunNew(s, p) ==
    /\ pc[s] = "idle"
    /\ manifest[p].state = "absent"
    /\ \A t \in Session : job[t].own # p
    /\ Goto(s, "open")
    /\ job' = [job EXCEPT ![s] = [NoJob EXCEPT
                  !.cmd = "new", !.own = p, !.tgt = p, !.op = "create",
                  !.caller = "start", !.copy = Fresh]]
    /\ UNCHANGED <<Files, Stores>>

\* _confirm_action: shows the gate the manifest is at and asks; the gate the
\* answer is applied to is the one resume reads afterwards.
Confirm(s, p, action) ==
    /\ pc[s] = "idle"
    /\ Loadable(p)
    /\ Goto(s, "confirm")
    /\ job' = [job EXCEPT ![s] = [NoJob EXCEPT
                  !.cmd = "resume", !.own = p, !.tgt = p, !.answer = action]]
    /\ UNCHANGED <<Files, Stores>>

\* resume, up to its call of transition(project_id, trigger, "user").
Resume(s, p, action) ==
    /\ Loadable(p)
    /\ IF /\ manifest[p].state \in UserGateStates
          /\ \E a \in GateActions : a[1] = manifest[p].state /\ a[2] = action
       THEN \E a \in GateActions :
              /\ a[1] = manifest[p].state
              /\ a[2] = action
              /\ Goto(s, "load")
              /\ job' = [job EXCEPT ![s] = [NoJob EXCEPT
                            !.cmd = "resume", !.own = p, !.tgt = p,
                            !.op = "transition", !.trigger = a[3],
                            !.actor = "user", !.caller = "start"]]
       ELSE Exit(s)
    /\ UNCHANGED <<Files, Stores>>

\* The answers that need no confirmation, and every answer under --yes.
ResumeAtOnce(s, p, action) == pc[s] = "idle" /\ Resume(s, p, action)

ResumeConfirmed(s) ==
    /\ pc[s] = "confirm"
    /\ Resume(s, job[s].own, job[s].answer)

Decline(s) == pc[s] = "confirm" /\ Exit(s) /\ UNCHANGED <<Files, Stores>>

\* Where a finished operation, a returned {"error": ...} and a raised exception
\* leave the session, by who called.
\* (_auto_advance looks at the state its transition returned before it goes on.)
AfterSuccess(j) ==
    IF j.caller = "llm" THEN "llm"
    ELSE IF j.caller = "auto" /\ ~CanTransition(j.copy.state, "auto") THEN "segment"
    ELSE "auto"

\* Mutant: _auto_advance tries again instead of breaking out of its loop.
RetryAfterError(j) == IF j.caller = "llm" THEN "llm" ELSE "auto"

AfterError(j) ==
    CASE j.caller = "llm"  -> "llm"
      [] j.caller = "auto" -> "segment"
      [] j.caller = "start" /\ j.cmd = "new" -> "auto"
      [] OTHER -> "idle"

AfterException(j) == IF j.caller = "llm" THEN "llm" ELSE "idle"

Leave(s, label) ==
    IF label = "idle" THEN Exit(s)
    ELSE Goto(s, label) /\ job' = [job EXCEPT ![s] = Rest(@)]

\* The first half of transition, lock_scope and add_run: load the manifest,
\* check, and compute the one to write.
LoadManifest(s) ==
    LET j == job[s]
        m == manifest[j.tgt]
    IN  /\ pc[s] = "load"
        /\ \/ m.state = "torn" /\ Leave(s, AfterException(j))
           \/ m.state = "absent" /\ Leave(s, AfterError(j))
           \/ /\ m.state \in State /\ j.op = "transition"
              /\ \E latest \in LatestPolicy(j.tgt) :
                    IF /\ CanTransition(m.state, j.trigger)
                       /\ PreconditionHolds(j.tgt, j.trigger, latest)
                    THEN /\ Goto(s, "open")
                         /\ \E t \in Transitions :
                              /\ t[1] = m.state
                              /\ t[2] = j.trigger
                              /\ job' = [job EXCEPT ![s].copy = [m EXCEPT !.state = t[3]]]
                    ELSE Leave(s, AfterError(j))
           \/ /\ m.state \in State /\ j.op = "lock_scope"
              /\ Goto(s, "open")
              /\ job' = [job EXCEPT ![s].copy = LockScope(m)]
           \/ /\ m.state \in State /\ j.op = "add_run"
              /\ Goto(s, "open")
              /\ \E r \in Run : job' = [job EXCEPT ![s].copy = AddRun(m, r)]
        /\ UNCHANGED <<Files, Stores>>

\* _write_manifest, first the truncation by open(path, "w") ...
OpenManifest(s) ==
    /\ pc[s] = "open"
    /\ manifest' = [manifest EXCEPT ![job[s].tgt] = Torn]
    /\ Goto(s, "dump")
    /\ UNCHANGED <<audit, lost, Stores, job>>

\* ... then the contents.  When another writer finished since the truncation
\* the longer of the two texts may stay behind the shorter one.
DumpManifest(s) ==
    LET j == job[s]
        p == j.tgt
        next == CASE j.op = "create" -> "created"
                  [] j.op = "transition" -> "emit"
                  [] OTHER -> AfterSuccess(j)
    IN  /\ pc[s] = "dump"
        /\ \/ manifest' = [manifest EXCEPT ![p] = j.copy] /\ UNCHANGED lost
           \/ /\ Loadable(p)
              /\ manifest' = [manifest EXCEPT ![p] = Torn]
              /\ lost' = [lost EXCEPT ![p] = @ \cup {"file"}]
        /\ IF next \in {"created", "emit"}
           THEN Goto(s, next) /\ UNCHANGED job
           ELSE Leave(s, next)
        /\ UNCHANGED <<audit, Stores>>

\* json.dump raises on what the model passed, scope_data or a run's query and
\* workflow_hint: the truncated file stays, and _safe_call answers with an error.
DumpRaises(s) ==
    /\ Unserializable
    /\ pc[s] = "dump"
    /\ job[s].op \in {"lock_scope", "add_run"}
    /\ lost' = [lost EXCEPT ![job[s].tgt] = @ \cup {"file"}]
    /\ Leave(s, AfterException(job[s]))
    /\ UNCHANGED <<manifest, audit, Stores>>

\* create_project's project.created event, then run_new's first transition.
EmitCreated(s) ==
    /\ pc[s] = "created"
    /\ audit' = [audit EXCEPT ![job[s].tgt] = [at |-> "requested", by |-> "none"]]
    /\ Goto(s, "load")
    /\ job' = [job EXCEPT ![s].op = "transition", ![s].trigger = "project_created",
                          ![s].actor = "system"]
    /\ UNCHANGED <<manifest, lost, Stores>>

\* Mutant: the event is recorded with the state the transition left.
EmitStateBefore(s) ==
    /\ pc[s] = "emit"
    /\ audit' = [audit EXCEPT ![job[s].tgt].at = Source(job[s].trigger)]
    /\ Goto(s, "emitTrigger")
    /\ UNCHANGED <<manifest, lost, Stores, job>>

\* transition's state.transitioned event ...
EmitTransitioned(s) ==
    /\ pc[s] = "emit"
    /\ audit' = [audit EXCEPT ![job[s].tgt].at = job[s].copy.state]
    /\ Goto(s, "emitTrigger")
    /\ UNCHANGED <<manifest, lost, Stores, job>>

\* emit_event raises on the model's payload, after the manifest was written.
EmitRaises(s) ==
    /\ Unserializable
    /\ pc[s] = "emit"
    /\ job[s].actor = "rlm"
    /\ lost' = [lost EXCEPT ![job[s].tgt] = @ \cup {"audit"}]
    /\ Leave(s, AfterException(job[s]))
    /\ UNCHANGED <<manifest, audit, Stores>>

\* ... and the trigger's own event (and project.completed or .rejected).  What
\* an earlier call has left out of the log is history from here on.
EmitTrigger(s) ==
    /\ pc[s] = "emitTrigger"
    /\ audit' = [audit EXCEPT ![job[s].tgt].by = job[s].trigger]
    /\ lost' = [lost EXCEPT ![job[s].tgt] = @ \ {"audit"}]
    /\ Leave(s, AfterSuccess(job[s]))
    /\ UNCHANGED <<manifest, Stores>>

\* runner._auto_advance: one round of its loop.
AutoAdvance(s) ==
    LET state == manifest[job[s].own].state
    IN  /\ pc[s] = "auto"
        /\ CASE state = "torn" -> Exit(s)
             [] CanTransition(state, "auto") ->
                  /\ Goto(s, "load")
                  /\ job' = [job EXCEPT ![s].tgt = job[s].own, ![s].op = "transition",
                               ![s].trigger = "auto", ![s].actor = "system",
                               ![s].caller = "auto"]
             [] OTHER -> Goto(s, "segment") /\ UNCHANGED job
        /\ UNCHANGED <<Files, Stores>>

\* Mutant: the model gets its turn wherever the user's answer led.
EnterSegmentAnywhere(s) == pc[s] = "segment" /\ Goto(s, "llm") /\ UNCHANGED <<Files, Stores, job>>

\* resume stops at a gate or a terminal state; otherwise, and always in
\* run_new, the language model gets its turn.
EnterSegment(s) ==
    LET state == manifest[job[s].own].state
    IN  /\ pc[s] = "segment"
        /\ IF job[s].cmd = "resume" /\ state \in {"torn"} \cup TerminalStates \cup UserGateStates
           THEN Exit(s)
           ELSE Goto(s, "llm") /\ UNCHANGED job
        /\ UNCHANGED <<Files, Stores>>

\* What a session holds when its model calls such a tool.
ToolJob(j, tool, p, trigger) ==
    [cmd |-> j.cmd, own |-> j.own, tgt |-> p, op |-> tool, trigger |-> trigger,
     actor |-> "rlm", caller |-> "llm", answer |-> "none", copy |-> Absent]

\* A tool call that rewrites a manifest, admitted by _safe_call: the guard reads
\* the session's own project, the call acts on the project it names.
CallManifestTool(s, tool, p, trigger) ==
    /\ pc[s] = "llm"
    /\ ToolAllowed(s, tool)
    /\ Goto(s, "load")
    /\ job' = [job EXCEPT ![s] = ToolJob(@, tool, p, trigger)]
    /\ UNCHANGED <<Files, Stores>>

\* collect_evidence saves its result even when no source returned a record.
CollectEvidence(s, found) ==
    LET p == job[s].own
    IN  /\ pc[s] = "llm"
        /\ ToolAllowed(s, "collect_evidence")
        /\ evidence' = [evidence EXCEPT ![p] =
                          IF found \/ @ = "records" THEN "records" ELSE "empty"]
        /\ UNCHANGED <<Files, world, policy, gatesPassed, pc, job>>

BuildSnapshot(s) ==
    /\ pc[s] = "llm"
    /\ ToolAllowed(s, "build_snapshot")
    /\ world' = [world EXCEPT ![job[s].own] = TRUE]
    /\ UNCHANGED <<Files, evidence, policy, gatesPassed, pc, job>>

\* check_all_gates and check_evidence_gate answer and save nothing.
CheckGates(s) ==
    /\ pc[s] = "llm"
    /\ ToolAllowed(s, "check_gates")
    /\ evidence[job[s].own] = "records"
    /\ gatesPassed' = [gatesPassed EXCEPT ![job[s].own] = TRUE]
    /\ UNCHANGED <<Files, evidence, world, policy, pc, job>>

\* The completion returns (and a gate report may be saved) or raises.
EndSegment(s) == pc[s] = "llm" /\ Exit(s) /\ UNCHANGED <<Files, Stores>>

\* The process dies between two of its steps.
Crash(s) ==
    LET p == job[s].tgt
    IN  /\ MayCrash
        /\ pc[s] # "idle"
        /\ lost' = CASE pc[s] = "dump" -> [lost EXCEPT ![p] = @ \cup {"file"}]
                     [] pc[s] \in {"created", "emit", "emitTrigger"} ->
                          [lost EXCEPT ![p] = @ \cup {"audit"}]
                     [] OTHER -> lost
        /\ Exit(s)
        /\ UNCHANGED <<manifest, audit, Stores>>

\* The repository's end-to-end tests save a policy result next to the other
\* engine data; nothing in cmis_v2 does.
RecordPolicy(p, result) ==
    /\ PolicyRecorder
    /\ manifest[p].state # "absent"
    /\ policy' = [policy EXCEPT ![p] = @ \cup {result}]
    /\ UNCHANGED <<Files, evidence, world, gatesPassed, pc, job>>

\* What a session does without waiting for the user or the model.
Advance(s) ==
    \/ LoadManifest(s)
    \/ OpenManifest(s)
    \/ DumpManifest(s)
    \/ DumpRaises(s)
    \/ EmitCreated(s)
    \/ EmitTransitioned(s)
    \/ EmitRaises(s)
    \/ EmitTrigger(s)
    \/ AutoAdvance(s)
    \/ EnterSegment(s)

UserStep(s) ==
    \/ \E p \in Project : RunNew(s, p)
    \/ \E p \in Project, action \in Answer \cap ConfirmedActions : Confirm(s, p, action)
    \/ \E p \in Project, action \in Answer : ResumeAtOnce(s, p, action)
    \/ ResumeConfirmed(s)
    \/ Decline(s)

ModelStep(s) ==
    \/ \E p \in Project, trigger \in ModelTrigger : CallManifestTool(s, "transition", p, trigger)
    \/ \E p \in Project, tool \in {"lock_scope", "add_run"} : CallManifestTool(s, tool, p, "none")
    \/ \E found \in BOOLEAN : CollectEvidence(s, found)
    \/ BuildSnapshot(s)
    \/ CheckGates(s)
    \/ EndSegment(s)

Next ==
    \/ \E s \in Session : Advance(s) \/ UserStep(s) \/ ModelStep(s) \/ Crash(s)
    \/ \E p \in Project, result \in PolicyResult : RecordPolicy(p, result)

Spec == Init /\ [][Next]_vars

\* A running process keeps running; the completion is cut off after
\* max_iterations, so a model that keeps calling tools still ends.
Fairness == \A s \in Session : WF_vars(Advance(s)) /\ SF_vars(EndSegment(s))

FairSpec == Spec /\ Fairness

-----------------------------------------------------------------------------
(* Properties                                                              *)

\* Every variable holds what its part of the code can store there.
TypeOK ==
    /\ manifest \in [Project -> Manifest]
    /\ audit \in [Project -> [at : State \cup {"absent"}, by : Trigger \cup {"none"}]]
    /\ evidence \in [Project -> {"none", "empty", "records"}]
    /\ world \in [Project -> BOOLEAN]
    /\ policy \in [Project -> SUBSET PolicyResult]
    /\ gatesPassed \in [Project -> BOOLEAN]
    /\ lost \in [Project -> SUBSET {"file", "audit"}]
    /\ pc \in [Session -> PC]
    /\ job \in [Session -> Job]

\* The states only reached through the scope_locked, data_collection,
\* structure_analysis and finding_review preconditions.
AfterPolicy == {"finding_locked", "opportunity_discovery", "opportunity_review",
                "strategy_design", "decision_review"}
AfterWorld == AfterPolicy \cup {"finding_review", "synthesis", "completed"}
AfterEvidence == AfterWorld \cup {"structure_analysis"}
AfterScope == AfterEvidence \cup {"data_collection"}

Backed(m, p) ==
    /\ m.state \in AfterScope => m.scope
    /\ m.state \in AfterEvidence => evidence[p] # "none"
    /\ m.state \in AfterWorld => world[p]
    /\ m.state \in AfterPolicy => "passed" \in policy[p]

\* Whatever sessions overwrite each other's manifest and wherever they crash,
\* a manifest on disk never names a stage whose inputs are missing: a locked
\* scope, collected evidence, a snapshot, a passing policy record.
StageBacked == \A p \in Project : Backed(manifest[p], p)

Writing(s) == pc[s] \in {"open", "dump"}

\* A transition that is about to leave a user gate was asked for by the user
\* (resume), not by the model's transition tool: in the review states the tool
\* table refuses it, and in finding_locked, where the table allows it, the
\* model never gets its turn.
UserGateNeedsUser ==
    \A s \in Session :
       Writing(s) /\ job[s].op = "transition" /\ Source(job[s].trigger) \in UserGateStates
          => job[s].actor = "user"

Quiet(p) == \A s \in Session :
              job[s].tgt = p => pc[s] \notin {"dump", "created", "emit", "emitTrigger"}

\* When no call is under way, the last recorded transition ends where the
\* manifest is and its trigger event is there too.  A call that dies or raises
\* after the manifest was written leaves them apart no longer than until the
\* next transition is recorded in full, however many calls failed before it;
\* one that dies inside the rewrite leaves a manifest nobody can load again.
AuditMatchesManifest ==
    \A p \in Project :
       Quiet(p) /\ lost[p] = {} /\ manifest[p].state # "absent" =>
          /\ audit[p].at = manifest[p].state
          /\ audit[p].by # "none" => Target(audit[p].by) = manifest[p].state
          /\ audit[p].by = "none" => manifest[p].state = "requested"

\* Every command comes back to the shell: auto-advance cannot loop and the
\* model's turn is bounded (a question to the user may stay unanswered).
CommandEnds == \A s \in Session : pc[s] \notin {"idle", "confirm"} ~> pc[s] = "idle"

\* project.py's error for the three approvals says that running a gate check
\* before the transition is what they need.
PassedGateCheckSuffices ==
    \A p \in Project :
       manifest[p].state = "finding_review" /\ gatesPassed[p] => "passed" \in policy[p]

=============================================================================
