----------------------------- MODULE Brownfield -----------------------------
(***************************************************************************)
(* Import, validation, commit and publication of brownfield data           *)
(* (cmis_core/brownfield).  An import run and everything a commit writes   *)
(* are rows of brownfield.db; the focal actor context (PRJ) a committed    *)
(* run is published as is a row of contexts.db.  No transaction spans the  *)
(* two: the commit leaves a record in the outbox, and any process that     *)
(* reconciles the outbox publishes it, at least once.                      *)
(*                                                                         *)
(* A Worker is one CLI process (brownfield commit or reconcile).  SQLite   *)
(* serialises the writers of one database, so a transaction is one step;   *)
(* between two of its steps a worker may die, and a step may fail because  *)
(* the database is locked.                                                 *)
(***************************************************************************)
EXTENDS Naturals, FiniteSets

CONSTANTS
    Run,        \* import run identifiers (IMP-...)
    File,       \* file contents; a bundle's digest is that of its file
    Base,       \* focal actor contexts users commit to (PRJ-... of --base-id)
    Worker,     \* CLI processes
    Quality,    \* what validation says of each file
    MaxVersion, \* bound on the versions of one context
    MaxFaults,  \* bound on crashes and failed steps
    Nothing     \* the absent bundle, base or run

Decision == {"pass", "warn_only", "fail"}

\* commit_import_run makes up a base PRJ-<uuid> when none is given; no two
\* runs share it, so it goes by the run's name.
AnyBase == Base \cup Run

ASSUME NothingAssumption == Nothing \notin Run \cup File \cup Base
ASSUME QualityAssumption == Quality \in [File -> Decision]
ASSUME BoundAssumption == MaxVersion \in Nat /\ MaxFaults \in Nat

VARIABLES
    runs,     \* brownfield.db, table import_runs
    bundles,  \* brownfield.db, table curated_bundles: the digests stored
    outbox,   \* brownfield.db, table outbox: the publication of each run
    contexts, \* contexts.db, table focal_actor_contexts
    pc,       \* where each worker is
    job,      \* what each worker holds in memory
    faults    \* crashes and failed steps so far

vars == <<runs, bundles, outbox, contexts, pc, job, faults>>

RunRow == [status    : {"none", "decoded", "validated", "rejected", "committed"},
           file      : File \cup {Nothing},
           decision  : Decision \cup {"none"},
           bundle    : File \cup {Nothing},
           base      : AnyBase \cup {Nothing},
           version   : Nat,    \* 0: no publication planned
           published : Nat]    \* 0: not published

NoRow == [status |-> "none", file |-> Nothing, decision |-> "none",
          bundle |-> Nothing, base |-> Nothing, version |-> 0, published |-> 0]

OutboxRow == [status  : {"none", "pending", "processing", "done", "failed"},
              digest  : File \cup {Nothing},
              base    : AnyBase \cup {Nothing},
              version : Nat]

NoRecord == [status |-> "none", digest |-> Nothing, base |-> Nothing, version |-> 0]

ContextRow == [base : AnyBase, version : Nat \ {0}, digest : File, prev : Nat]

Job == [run     : Run \cup {Nothing},     \* the run to commit
        base    : AnyBase \cup {Nothing}, \* the planned publication
        version : Nat,
        retry   : {"yes", "no"},          \* retry_failed
        scope   : SUBSET Run,             \* the runs to reconcile
        todo    : SUBSET Run,             \* the candidates still to process
        record  : Run \cup {Nothing},     \* the one being processed
        prev    : Nat]                    \* the version the new context follows

NoJob == [run |-> Nothing, base |-> Nothing, version |-> 0, retry |-> "no",
          scope |-> {}, todo |-> {}, record |-> Nothing, prev |-> 0]

PC == {"idle", "plan", "commit", "list", "next", "lookup", "save", "record", "fail"}

Goto(w, label) == pc' = [pc EXCEPT ![w] = label]
Exit(w) == Goto(w, "idle") /\ job' = [job EXCEPT ![w] = NoJob]

Tables == <<runs, bundles, outbox, contexts>>

Init ==
    /\ runs = [r \in Run |-> NoRow]
    /\ bundles = {}
    /\ outbox = [r \in Run |-> NoRecord]
    /\ contexts = {}
    /\ pc = [w \in Worker |-> "idle"]
    /\ job = [w \in Worker |-> NoJob]
    /\ faults = 0

-----------------------------------------------------------------------------
(* Import and validation: one transaction each                             *)

\* import_csv_file and import_xlsx_file: create_staged and attach_preview.
Import(r, f) ==
    /\ runs[r].status = "none"
    /\ runs' = [runs EXCEPT ![r].status = "decoded", ![r].file = f]
    /\ UNCHANGED <<bundles, outbox, contexts, pc, job, faults>>

\* Mutant: attach_validation no longer looks at the status it replaces.
ValidateAnyStatus(r) ==
    /\ runs[r].status # "none"
    /\ LET d == Quality[runs[r].file]
       IN  runs' = [runs EXCEPT ![r].decision = d,
                                ![r].status = IF d = "fail" THEN "rejected" ELSE "validated"]
    /\ UNCHANGED <<bundles, outbox, contexts, pc, job, faults>>

\* Mutant: the decision is stored but not turned into a status.
ValidateAcceptsAll(r) ==
    /\ runs[r].status \in {"decoded", "validated", "rejected"}
    /\ runs' = [runs EXCEPT ![r].decision = Quality[runs[r].file], ![r].status = "validated"]
    /\ UNCHANGED <<bundles, outbox, contexts, pc, job, faults>>

\* validate_import_run.  The decision only depends on the preview, which never
\* changes, so that it is read before the transaction makes no difference.
Validate(r) ==
    /\ runs[r].status \in {"decoded", "validated", "rejected"}
    /\ LET d == Quality[runs[r].file]
       IN  runs' = [runs EXCEPT ![r].decision = d,
                                ![r].status = IF d = "fail" THEN "rejected" ELSE "validated"]
    /\ UNCHANGED <<bundles, outbox, contexts, pc, job, faults>>

-----------------------------------------------------------------------------
(* Commit                                                                  *)

CanCommit(mode, decision) ==
    CASE mode = "reporting_strict" -> decision = "pass"
      [] mode \in {"decision_balanced", "exploration_friendly"} -> decision \in {"pass", "warn_only"}
      [] OTHER -> FALSE

PolicyMode == {"reporting_strict", "decision_balanced", "exploration_friendly"}

\* commit_import_run on a validated run: the gate, and the base to publish to.
StartCommit(w, r, mode, base) ==
    /\ pc[w] = "idle"
    /\ runs[r].status = "validated"
    /\ CanCommit(mode, runs[r].decision)
    /\ Goto(w, "plan")
    /\ job' = [job EXCEPT ![w] = [NoJob EXCEPT !.run = r, !.base = base]]
    /\ UNCHANGED <<Tables, faults>>

\* commit_import_run on a committed run that is not published yet.
ResumeCommit(w, r) ==
    /\ pc[w] = "idle"
    /\ runs[r].status = "committed"
    /\ runs[r].published = 0
    /\ Goto(w, "list")
    /\ job' = [job EXCEPT ![w] = [NoJob EXCEPT !.scope = {r}, !.retry = "yes"]]
    /\ UNCHANGED <<Tables, faults>>

Versions(b) == { c.version : c \in { x \in contexts : x.base = b } }

\* get_latest, 0 when there is none.
IsLatest(b, v) ==
    /\ v \in Versions(b) \/ (v = 0 /\ Versions(b) = {})
    /\ \A u \in Versions(b) : u <= v

\* Mutant: the next version is counted from the plans of the import runs.
PlanFromRuns(w) ==
    /\ pc[w] = "plan"
    /\ LET b == job[w].base
           planned == { r \in Run : runs[r].base = b }
       IN  /\ Cardinality(planned) < MaxVersion
           /\ job' = [job EXCEPT ![w].version = Cardinality(planned) + 1]
    /\ Goto(w, "commit")
    /\ UNCHANGED <<Tables, faults>>

\* The version is read from contexts.db before the transaction that records it.
PlanVersion(w) ==
    /\ pc[w] = "plan"
    /\ \E v \in 0..MaxVersion :
          /\ v < MaxVersion
          /\ IsLatest(job[w].base, v)
          /\ job' = [job EXCEPT ![w].version = v + 1]
    /\ Goto(w, "commit")
    /\ UNCHANGED <<Tables, faults>>

\* Mutant: the outbox record is left to a later step of the process.
CommitWithoutOutbox(w) ==
    LET j == job[w]
        r == j.run
    IN  /\ pc[w] = "commit"
        /\ IF runs[r].status = "validated"
           THEN /\ bundles' = bundles \cup {runs[r].file}
                /\ runs' = [runs EXCEPT ![r].status = "committed", ![r].bundle = runs[r].file,
                                        ![r].base = j.base, ![r].version = j.version]
                /\ Goto(w, "list")
                /\ job' = [job EXCEPT ![w] = [NoJob EXCEPT !.scope = {r}, !.retry = "yes"]]
           ELSE Exit(w) /\ UNCHANGED <<runs, bundles>>
        /\ UNCHANGED <<outbox, contexts, faults>>

\* The transaction: datum and bundle (stored once per digest), the plan, the
\* status, and the outbox record (INSERT OR IGNORE).  mark_committed raises when
\* another process committed the run first, and everything is rolled back.
CommitRun(w) ==
    LET j == job[w]
        r == j.run
    IN  /\ pc[w] = "commit"
        /\ IF runs[r].status = "validated"
           THEN /\ bundles' = bundles \cup {runs[r].file}
                /\ runs' = [runs EXCEPT ![r].status = "committed", ![r].bundle = runs[r].file,
                                        ![r].base = j.base, ![r].version = j.version]
                /\ outbox' = IF outbox[r].status = "none"
                             THEN [outbox EXCEPT ![r] = [status |-> "pending",
                                      digest |-> runs[r].file, base |-> j.base, version |-> j.version]]
                             ELSE outbox
                /\ Goto(w, "list")
                /\ job' = [job EXCEPT ![w] = [NoJob EXCEPT !.scope = {r}, !.retry = "yes"]]
           ELSE Exit(w) /\ UNCHANGED <<runs, bundles, outbox>>
        /\ UNCHANGED <<contexts, faults>>

-----------------------------------------------------------------------------
(* The outbox                                                              *)

\* `cmis brownfield reconcile`: for the records the listing comes to, those of
\* one run (its filter) or of all runs up to a limit, in whatever order.
StartReconcile(w, scope, retry) ==
    /\ pc[w] = "idle"
    /\ Goto(w, "list")
    /\ job' = [job EXCEPT ![w] = [NoJob EXCEPT !.scope = scope, !.retry = retry]]
    /\ UNCHANGED <<Tables, faults>>

\* Mutant: a record some process began to handle is never taken up again.
PendingOnly(retry) == {"pending"} \cup (IF retry = "yes" THEN {"failed"} ELSE {})

Claimable(retry) == {"pending", "processing"} \cup (IF retry = "yes" THEN {"failed"} ELSE {})

ListCandidates(w) ==
    /\ pc[w] = "list"
    /\ Goto(w, "next")
    /\ job' = [job EXCEPT ![w].todo =
                 { r \in job[w].scope : outbox[r].status \in Claimable(job[w].retry) }]
    /\ UNCHANGED <<Tables, faults>>

\* _claim and the commit after it; a record that is no longer claimable is skipped.
Claim(w, r) ==
    /\ pc[w] = "next"
    /\ r \in job[w].todo
    /\ IF outbox[r].status \in Claimable(job[w].retry)
       THEN /\ outbox' = [outbox EXCEPT ![r].status = "processing"]
            /\ Goto(w, "lookup")
            /\ job' = [job EXCEPT ![w].todo = @ \ {r}, ![w].record = r]
       ELSE /\ job' = [job EXCEPT ![w].todo = @ \ {r}]
            /\ UNCHANGED <<outbox, pc>>
    /\ UNCHANGED <<runs, bundles, contexts, faults>>

RowsAt(b, v) == { c \in contexts : c.base = b /\ c.version = v }

\* Mutant: an existing context is taken for ours whatever bundle it holds.
LookupAnyDigest(w) ==
    LET o == outbox[job[w].record]
    IN  /\ pc[w] = "lookup"
        /\ IF RowsAt(o.base, o.version) # {}
           THEN Goto(w, "record") /\ UNCHANGED job
           ELSE Goto(w, "save") /\ job' = [job EXCEPT ![w].prev = o.version - 1]
        /\ UNCHANGED <<Tables, faults>>

\* _handle_publish_focal_actor_context up to its write: an existing context of
\* this version is ours when it holds our bundle, and a conflict otherwise.
Lookup(w) ==
    LET o == outbox[job[w].record]
    IN  /\ pc[w] = "lookup"
        /\ \/ /\ \E c \in RowsAt(o.base, o.version) : c.digest # o.digest
              /\ Goto(w, "fail") /\ UNCHANGED job
           \/ /\ RowsAt(o.base, o.version) # {}
              /\ \A c \in RowsAt(o.base, o.version) : c.digest = o.digest
              /\ Goto(w, "record") /\ UNCHANGED job
           \/ /\ RowsAt(o.base, o.version) = {}
              /\ \E v \in 0..MaxVersion :
                    /\ IF o.version > 1 /\ RowsAt(o.base, o.version - 1) # {}
                       THEN v = o.version - 1
                       ELSE IF o.version > 1 THEN IsLatest(o.base, v) ELSE v = 0
                    /\ job' = [job EXCEPT ![w].prev = v]
              /\ Goto(w, "save")
        /\ UNCHANGED <<Tables, faults>>

\* FocalActorContextStore.save: INSERT OR REPLACE on (base, version).
Save(w) ==
    LET o == outbox[job[w].record]
    IN  /\ pc[w] = "save"
        /\ contexts' = (contexts \ RowsAt(o.base, o.version)) \cup
                       {[base |-> o.base, version |-> o.version, digest |-> o.digest,
                         prev |-> job[w].prev]}
        /\ Goto(w, "record")
        /\ UNCHANGED <<runs, bundles, outbox, job, faults>>

\* Mutant: the record is closed, the run is not told.
RecordDoneOnly(w) ==
    /\ pc[w] = "record"
    /\ outbox' = [outbox EXCEPT ![job[w].record].status = "done"]
    /\ Goto(w, "next")
    /\ job' = [job EXCEPT ![w].record = Nothing, ![w].prev = 0]
    /\ UNCHANGED <<runs, bundles, contexts, faults>>

\* set_published_focal_actor_context_id and _mark_done in one transaction.
Record(w) ==
    LET r == job[w].record
    IN  /\ pc[w] = "record"
        /\ runs' = [runs EXCEPT ![r].published = outbox[r].version]
        /\ outbox' = [outbox EXCEPT ![r].status = "done"]
        /\ Goto(w, "next")
        /\ job' = [job EXCEPT ![w].record = Nothing, ![w].prev = 0]
        /\ UNCHANGED <<bundles, contexts, faults>>

\* Mutant: a status the table does not know.
MarkGivenUp(w) ==
    /\ pc[w] = "fail"
    /\ outbox' = [outbox EXCEPT ![job[w].record].status = "given_up"]
    /\ Goto(w, "next")
    /\ job' = [job EXCEPT ![w].record = Nothing, ![w].prev = 0]
    /\ UNCHANGED <<runs, bundles, contexts, faults>>

\* _mark_failed, whatever became of the record in the meantime.
MarkFailed(w) ==
    /\ pc[w] = "fail"
    /\ outbox' = [outbox EXCEPT ![job[w].record].status = "failed"]
    /\ Goto(w, "next")
    /\ job' = [job EXCEPT ![w].record = Nothing, ![w].prev = 0]
    /\ UNCHANGED <<runs, bundles, contexts, faults>>

\* Nothing left to process: the command returns or raises.
Finish(w) ==
    /\ pc[w] = "next"
    /\ job[w].todo = {}
    /\ Exit(w)
    /\ UNCHANGED <<Tables, faults>>

-----------------------------------------------------------------------------
(* Faults                                                                  *)

\* A write of the outbox loop finds its database locked for longer than the
\* busy timeout: the exception handler rolls back and marks the record failed.
StepFails(w) ==
    /\ faults < MaxFaults
    /\ faults' = faults + 1
    /\ \/ /\ pc[w] \in {"save", "record"}
          /\ UNCHANGED job
       \/ /\ pc[w] = "next"
          /\ \E r \in job[w].todo : job' = [job EXCEPT ![w].todo = @ \ {r}, ![w].record = r]
    /\ Goto(w, "fail")
    /\ UNCHANGED Tables

\* The process dies, or an exception nobody catches ends it.
Crash(w) ==
    /\ faults < MaxFaults
    /\ faults' = faults + 1
    /\ pc[w] # "idle"
    /\ Exit(w)
    /\ UNCHANGED Tables

-----------------------------------------------------------------------------
Advance(w) ==
    \/ PlanVersion(w)
    \/ CommitRun(w)
    \/ ListCandidates(w)
    \/ \E r \in Run : Claim(w, r)
    \/ Lookup(w)
    \/ Save(w)
    \/ Record(w)
    \/ MarkFailed(w)
    \/ Finish(w)

ReconcileAll(w) == StartReconcile(w, Run, "yes")

Start(w) ==
    \/ \E r \in Run, mode \in PolicyMode :
          \E base \in Base \cup {r} : StartCommit(w, r, mode, base)
    \/ \E r \in Run : ResumeCommit(w, r)
    \/ \E retry \in {"yes", "no"} :
          \E scope \in SUBSET Run \ {{}} : StartReconcile(w, scope, retry)

Next ==
    \/ \E r \in Run, f \in File : Import(r, f)
    \/ \E r \in Run : Validate(r)
    \/ \E w \in Worker : Advance(w) \/ Start(w) \/ StepFails(w) \/ Crash(w)

Spec == Init /\ [][Next]_vars

\* Running processes run on, and someone keeps calling reconcile --retry-failed,
\* as the error messages and the outbox's documentation ask for, with a limit
\* that no more records wait than.
Fairness == \A w \in Worker : WF_vars(Advance(w)) /\ SF_vars(ReconcileAll(w))

FairSpec == Spec /\ Fairness

-----------------------------------------------------------------------------
(* Properties                                                              *)

\* Every table and every worker holds what the code can put there.
TypeOK ==
    /\ runs \in [Run -> RunRow]
    /\ bundles \in SUBSET File
    /\ outbox \in [Run -> OutboxRow]
    /\ contexts \in SUBSET ContextRow
    /\ pc \in [Worker -> PC]
    /\ job \in [Worker -> Job]
    /\ faults \in Nat

\* A commit is all or nothing (UnitOfWork): a committed run has its bundle, its
\* plan and the outbox record that says the same; a run that is not committed
\* has none of them, whichever process died or lost the race.
CommitIsWhole ==
    \A r \in Run :
       IF runs[r].status = "committed"
       THEN /\ runs[r].bundle = runs[r].file
            /\ runs[r].bundle \in bundles
            /\ runs[r].version > 0
            /\ outbox[r].status # "none"
            /\ outbox[r].digest = runs[r].bundle
            /\ outbox[r].base = runs[r].base
            /\ outbox[r].version = runs[r].version
       ELSE /\ runs[r].bundle = Nothing
            /\ runs[r].version = 0
            /\ runs[r].published = 0
            /\ outbox[r] = NoRecord

\* What is committed stays as it was committed: no later validation, commit or
\* reconciliation of the run changes its status, bundle or planned context.
CommittedIsFinal ==
    [][\A r \in Run : runs[r].status = "committed" =>
          runs'[r] = [runs[r] EXCEPT !.published = runs'[r].published]]_vars

\* Versions of a context are handed out without a hole, and each new context
\* points to the version before it, although the version is read outside the
\* transaction that records it and published much later.
VersionsWithoutGap ==
    \A c \in contexts :
       /\ c.version > 1 => RowsAt(c.base, c.version - 1) # {}
       /\ c.prev = c.version - 1

\* A record marked done was published: the context exists and the run knows it.
DoneIsPublished ==
    \A r \in Run : outbox[r].status = "done" =>
       /\ RowsAt(outbox[r].base, outbox[r].version) # {}
       /\ runs[r].published = outbox[r].version

\* The context a run is published as holds that run's bundle and not another's:
\* the handler refuses a version that holds a different bundle.
PublishedIsWhatWasCommitted ==
    \A r \in Run : runs[r].published # 0 =>
       /\ RowsAt(runs[r].base, runs[r].published) # {}
       /\ \A c \in RowsAt(runs[r].base, runs[r].published) : c.digest = runs[r].bundle

\* Whatever was interrupted, a committed run gets published if reconcile keeps
\* being called.
CommittedGetsPublished ==
    \A r \in Run : runs[r].status = "committed" ~> runs[r].published # 0

-----------------------------------------------------------------------------
(* What an import is to its users                                          *)

\* The phase ImportLedger gives each run, and the file it stands for.
PhaseOf(row) ==
    IF row.status = "none" THEN "none"
    ELSE IF row.status = "decoded" THEN "imported"
    ELSE IF row.status = "validated" THEN "accepted"
    ELSE IF row.status = "rejected" THEN "refused"
    ELSE IF row.published = 0 THEN "committed" ELSE "published"

Phase == [r \in Run |-> PhaseOf(runs[r])]

Content == [r \in Run |-> runs[r].file]

Ledger == INSTANCE ImportLedger WITH phase <- Phase, content <- Content

\* Processes, crashes and the outbox together behave like the ledger.
ImplementsLedger == Ledger!Spec
=============================================================================
