-------------------------- MODULE BrownfieldProofs --------------------------
(***************************************************************************)
(* Proofs about Brownfield, for any number of runs, files, contexts and    *)
(* processes and any number of faults: type correctness, commits that are  *)
(* whole, versions without a gap, done records that are published, and     *)
(* that Brownfield implements ImportLedger.                                *)
(*                                                                         *)
(* None of the invariants is inductive alone.  The contexts are written by *)
(* the outbox from plans made much earlier, so the plans and what each     *)
(* process holds in memory have to be right at every moment in between:    *)
(* IInv adds RowsFilled, PlansFollow and JobOK.                            *)
(*                                                                         *)
(* With one process, what was published is what was committed.  That needs *)
(* OneInv: what the process found in contexts.db still holds when it       *)
(* writes there.                                                           *)
(***************************************************************************)
EXTENDS Brownfield, TLAPS

\* A row that exists has been filled in: an imported run has its file, an
\* outbox record says what to publish, and under which version.
RowsFilled ==
    \A r \in Run :
       /\ runs[r].status # "none" => runs[r].file \in File
       /\ outbox[r].status # "none" =>
             /\ outbox[r].digest \in File
             /\ outbox[r].base \in AnyBase
             /\ outbox[r].version > 0

HasRow(rows, b, v) == \E c \in rows : c.base = b /\ c.version = v

\* A planned version is the first one or follows one that exists.
PlansFollow ==
    \A r \in Run : outbox[r].status # "none" /\ outbox[r].version > 1 =>
       HasRow(contexts, outbox[r].base, outbox[r].version - 1)

\* What a process at a place of its program holds in memory, given the tables
\* of import runs, outbox records and contexts.
LocalOK(imports, records, rows, label, j) ==
    /\ label \in {"plan", "commit"} =>
          /\ j.run \in Run
          /\ imports[j.run].status # "none"
          /\ j.base \in AnyBase
    /\ label = "commit" =>
          /\ j.version > 0
          /\ j.version > 1 => HasRow(rows, j.base, j.version - 1)
    /\ label \in {"next", "lookup", "save", "record", "fail"} =>
          \A r \in j.todo : records[r].status # "none"
    /\ label \in {"lookup", "save", "record", "fail"} =>
          /\ j.record \in Run
          /\ records[j.record].status # "none"
    /\ label = "save" => j.prev = records[j.record].version - 1
    /\ label = "record" => HasRow(rows, records[j.record].base, records[j.record].version)

JobsOK == \A w \in Worker : LocalOK(runs, outbox, contexts, pc[w], job[w])

\* What the databases satisfy, whatever the processes do.
TableTypes ==
    /\ runs \in [Run -> RunRow]
    /\ bundles \in SUBSET File
    /\ outbox \in [Run -> OutboxRow]
    /\ contexts \in SUBSET ContextRow

TablesOK ==
    /\ TableTypes
    /\ RowsFilled
    /\ CommitIsWhole
    /\ PlansFollow
    /\ VersionsWithoutGap
    /\ DoneIsPublished

WorkerTypes ==
    /\ pc \in [Worker -> PC]
    /\ job \in [Worker -> Job]
    /\ faults \in Nat

IInv == TablesOK /\ WorkerTypes /\ JobsOK

LEMMA IInvImpliesTypeOK == ASSUME IInv PROVE TypeOK
  BY DEF IInv, TablesOK, TableTypes, WorkerTypes, TypeOK

-----------------------------------------------------------------------------
(* What no step takes back *)

\* A row, once there, stays; what an outbox record says to publish is fixed;
\* a version of a context may get another content but never disappears.
Kept ==
    /\ \A r \in Run :
          /\ runs[r].status # "none" => runs'[r].status # "none"
          /\ outbox[r].status # "none" =>
                /\ outbox'[r].status # "none"
                /\ outbox'[r].base = outbox[r].base
                /\ outbox'[r].version = outbox[r].version
    /\ \A b, v : HasRow(contexts, b, v) => HasRow(contexts', b, v)

LEMMA KeptWhenUnchanged == ASSUME UNCHANGED Tables PROVE Kept
  BY DEF Tables, Kept

LEMMA TablesUnchanged == ASSUME TablesOK, UNCHANGED Tables PROVE TablesOK'
  BY DEF Tables, TablesOK, TableTypes, RowsFilled, CommitIsWhole, PlansFollow,
         VersionsWithoutGap, DoneIsPublished, HasRow, RowsAt

\* The step of one process: the databases stay right and keep their rows, and
\* the process knows what it has to know where it goes.
LEMMA WorkerStep ==
    ASSUME IInv, NEW w \in Worker, NEW label \in PC, NEW j \in Job,
           TablesOK', Kept,
           LocalOK(runs', outbox', contexts', label, j),
           pc' = [pc EXCEPT ![w] = label],
           job' = [job EXCEPT ![w] = j],
           faults' \in Nat
    PROVE  IInv'
<1>1. pc \in [Worker -> PC] /\ job \in [Worker -> Job]
  BY DEF IInv, WorkerTypes
<1>2. \A x \in Worker : /\ pc'[x] = IF x = w THEN label ELSE pc[x]
                        /\ job'[x] = IF x = w THEN j ELSE job[x]
  BY <1>1
<1>3. WorkerTypes'
  BY <1>1 DEF WorkerTypes
<1>4. ASSUME NEW x \in Worker, x # w
      PROVE  LocalOK(runs', outbox', contexts', pc[x], job[x])
  <2>1. LocalOK(runs, outbox, contexts, pc[x], job[x]) /\ job[x] \in Job
    BY <1>1 DEF IInv, JobsOK
  <2>2. job[x].todo \subseteq Run
    BY <2>1 DEF Job
  <2>3. QED
    BY <2>1, <2>2 DEF LocalOK, Kept
<1>5. ASSUME NEW x \in Worker
      PROVE  LocalOK(runs', outbox', contexts', pc'[x], job'[x])
  BY <1>2, <1>4
<1>6. QED
  BY <1>3, <1>5 DEF IInv, JobsOK

\* The step of a command that is one transaction.
LEMMA CommandStep ==
    ASSUME IInv, TablesOK', Kept, UNCHANGED <<pc, job, faults>>
    PROVE  IInv'
<1>1. WorkerTypes'
  BY DEF IInv, WorkerTypes
<1>2. ASSUME NEW x \in Worker
      PROVE  LocalOK(runs', outbox', contexts', pc[x], job[x])
  <2>1. LocalOK(runs, outbox, contexts, pc[x], job[x]) /\ job[x] \in Job
    BY DEF IInv, JobsOK, WorkerTypes
  <2>2. job[x].todo \subseteq Run
    BY <2>1 DEF Job
  <2>3. QED
    BY <2>1, <2>2 DEF LocalOK, Kept
<1>3. QED
  BY <1>1, <1>2 DEF IInv, JobsOK

-----------------------------------------------------------------------------
(* The actions *)

LEMMA NoJobType == NoJob \in Job
  BY DEF NoJob, Job

LEMMA InitIInv == ASSUME Init PROVE IInv
<1>1. NoRow \in RunRow /\ NoRecord \in OutboxRow
  BY DEF NoRow, RunRow, NoRecord, OutboxRow
<1>2. TableTypes /\ WorkerTypes
  BY <1>1, NoJobType DEF Init, TableTypes, WorkerTypes, PC
<1>3. RowsFilled /\ CommitIsWhole /\ PlansFollow /\ VersionsWithoutGap /\ DoneIsPublished
  BY DEF Init, NoRow, NoRecord, RowsFilled, CommitIsWhole, PlansFollow,
         VersionsWithoutGap, DoneIsPublished
<1>4. JobsOK
  BY DEF Init, JobsOK, LocalOK
<1>5. QED
  BY <1>2, <1>3, <1>4 DEF IInv, TablesOK

\* Only the row of one import changes, and it is not a committed one.
LEMMA RowStep ==
    ASSUME IInv, NEW r \in Run, NEW row \in RunRow,
           runs' = [runs EXCEPT ![r] = row],
           runs[r].status # "committed", row.status \notin {"none", "committed"},
           row.file \in File, row.bundle = runs[r].bundle,
           row.version = runs[r].version, row.published = runs[r].published,
           UNCHANGED <<bundles, outbox, contexts, pc, job, faults>>
    PROVE  IInv'
<1>1. \A q \in Run : runs'[q] = IF q = r THEN row ELSE runs[q]
  BY DEF IInv, TablesOK, TableTypes
<1>2. TableTypes'
  BY DEF IInv, TablesOK, TableTypes
<1>3. RowsFilled' /\ PlansFollow' /\ VersionsWithoutGap'
  BY <1>1 DEF IInv, TablesOK, RowsFilled, PlansFollow, VersionsWithoutGap, RowsAt
<1>4. CommitIsWhole'
  BY <1>1 DEF IInv, TablesOK, CommitIsWhole
<1>5. DoneIsPublished'
  BY <1>1 DEF IInv, TablesOK, DoneIsPublished, RowsAt
<1>6. Kept
  BY <1>1 DEF Kept
<1>7. QED
  BY <1>2, <1>3, <1>4, <1>5, <1>6, CommandStep DEF TablesOK

LEMMA ImportStep ==
    ASSUME IInv, NEW r \in Run, NEW f \in File, Import(r, f)
    PROVE  IInv'
<1> DEFINE row == [runs[r] EXCEPT !.status = "decoded", !.file = f]
<1>1. runs[r] \in RunRow /\ runs[r].status = "none"
  BY DEF IInv, TablesOK, TableTypes, Import
<1>2. row \in RunRow
  BY <1>1 DEF RunRow
<1>3. row.status = "decoded" /\ row.file = f /\ row.bundle = runs[r].bundle
      /\ row.version = runs[r].version /\ row.published = runs[r].published
  BY <1>1 DEF RunRow
<1>4. runs' = [runs EXCEPT ![r] = row]
  BY DEF Import
<1> HIDE DEF row
<1>5. QED
  BY <1>1, <1>2, <1>3, <1>4, RowStep DEF Import

LEMMA ValidateStep ==
    ASSUME IInv, NEW r \in Run, Validate(r)
    PROVE  IInv'
<1> DEFINE d == Quality[runs[r].file]
           status == IF d = "fail" THEN "rejected" ELSE "validated"
           row == [runs[r] EXCEPT !.decision = d, !.status = status]
<1>1. runs[r] \in RunRow /\ runs[r].status \in {"decoded", "validated", "rejected"}
  BY DEF IInv, TablesOK, TableTypes, Validate
<1>2. runs[r].file \in File
  BY <1>1 DEF IInv, TablesOK, RowsFilled
<1>3. d \in Decision
  BY <1>2, QualityAssumption
<1>4. row \in RunRow
  BY <1>1, <1>3 DEF RunRow
<1>5. row.status = status /\ row.file = runs[r].file /\ row.bundle = runs[r].bundle
      /\ row.version = runs[r].version /\ row.published = runs[r].published
  BY <1>1 DEF RunRow
<1>6. runs' = [runs EXCEPT ![r] = row]
  BY DEF Validate
<1>7. status \notin {"none", "committed"}
  OBVIOUS
<1> HIDE DEF row, status, d
<1>8. QED
  BY <1>1, <1>2, <1>4, <1>5, <1>6, <1>7, RowStep DEF Validate

\* A step of one process that only changes what it holds in memory.
LEMMA MemoryStep ==
    ASSUME IInv, NEW w \in Worker, NEW label \in PC, NEW j \in Job,
           LocalOK(runs, outbox, contexts, label, j),
           pc' = [pc EXCEPT ![w] = label],
           job' = [job EXCEPT ![w] = j],
           UNCHANGED Tables, faults' \in Nat
    PROVE  IInv'
<1>1. TablesOK' /\ Kept
  BY TablesUnchanged, KeptWhenUnchanged DEF IInv
<1>2. LocalOK(runs', outbox', contexts', label, j)
  BY DEF Tables
<1>3. QED
  BY <1>1, <1>2, WorkerStep

\* What IInv says of process w.
LEMMA Holds ==
    ASSUME IInv, NEW w \in Worker
    PROVE  /\ job[w] \in Job
           /\ LocalOK(runs, outbox, contexts, pc[w], job[w])
           /\ faults \in Nat
  BY DEF IInv, WorkerTypes, JobsOK

LEMMA ExitStep ==
    ASSUME IInv, NEW w \in Worker, Exit(w), UNCHANGED Tables, faults' \in Nat
    PROVE  IInv'
<1>1. LocalOK(runs, outbox, contexts, "idle", NoJob) /\ "idle" \in PC
  BY DEF LocalOK, PC
<1>2. QED
  BY <1>1, NoJobType, MemoryStep DEF Exit, Goto

LEMMA StartCommitStep ==
    ASSUME IInv, NEW w \in Worker, NEW r \in Run, NEW mode, NEW base \in Base \cup {r},
           StartCommit(w, r, mode, base)
    PROVE  IInv'
<1> DEFINE j == [NoJob EXCEPT !.run = r, !.base = base]
<1>1. base \in AnyBase
  BY DEF AnyBase
<1>2. j \in Job /\ j.run = r /\ j.base = base
  BY <1>1 DEF NoJob, Job
<1>3. pc' = [pc EXCEPT ![w] = "plan"] /\ job' = [job EXCEPT ![w] = j]
  BY DEF StartCommit, Goto
<1>4. UNCHANGED Tables /\ faults' \in Nat /\ runs[r].status = "validated"
  BY Holds DEF StartCommit
<1> HIDE DEF j
<1>5. LocalOK(runs, outbox, contexts, "plan", j) /\ "plan" \in PC
  BY <1>1, <1>2, <1>4 DEF LocalOK, PC
<1>6. QED
  BY <1>2, <1>3, <1>4, <1>5, MemoryStep

LEMMA ScopeJob ==
    ASSUME NEW scope \in SUBSET Run, NEW retry \in {"yes", "no"}
    PROVE  /\ [NoJob EXCEPT !.scope = scope, !.retry = retry] \in Job
           /\ LocalOK(runs, outbox, contexts, "list",
                      [NoJob EXCEPT !.scope = scope, !.retry = retry])
           /\ LocalOK(runs', outbox', contexts', "list",
                      [NoJob EXCEPT !.scope = scope, !.retry = retry])
           /\ "list" \in PC
  BY DEF NoJob, Job, LocalOK, PC

LEMMA ResumeCommitStep ==
    ASSUME IInv, NEW w \in Worker, NEW r \in Run, ResumeCommit(w, r)
    PROVE  IInv'
<1> DEFINE j == [NoJob EXCEPT !.scope = {r}, !.retry = "yes"]
<1>1. j \in Job /\ LocalOK(runs, outbox, contexts, "list", j) /\ "list" \in PC
  BY ScopeJob
<1>2. pc' = [pc EXCEPT ![w] = "list"] /\ job' = [job EXCEPT ![w] = j]
      /\ UNCHANGED Tables /\ faults' \in Nat
  BY Holds DEF ResumeCommit, Goto
<1> HIDE DEF j
<1>3. QED
  BY <1>1, <1>2, MemoryStep

LEMMA StartReconcileStep ==
    ASSUME IInv, NEW w \in Worker, NEW scope \in SUBSET Run, NEW retry \in {"yes", "no"},
           StartReconcile(w, scope, retry)
    PROVE  IInv'
<1> DEFINE j == [NoJob EXCEPT !.scope = scope, !.retry = retry]
<1>1. j \in Job /\ LocalOK(runs, outbox, contexts, "list", j) /\ "list" \in PC
  BY ScopeJob
<1>2. pc' = [pc EXCEPT ![w] = "list"] /\ job' = [job EXCEPT ![w] = j]
      /\ UNCHANGED Tables /\ faults' \in Nat
  BY Holds DEF StartReconcile, Goto
<1> HIDE DEF j
<1>3. QED
  BY <1>1, <1>2, MemoryStep

\* The version planned follows the latest one there is.
LEMMA PlanVersionStep ==
    ASSUME IInv, NEW w \in Worker, PlanVersion(w)
    PROVE  IInv'
<1>1. PICK v \in 0..MaxVersion :
         /\ IsLatest(job[w].base, v)
         /\ job' = [job EXCEPT ![w].version = v + 1]
  BY DEF PlanVersion
<1> DEFINE j == [job[w] EXCEPT !.version = v + 1]
<1>2. pc[w] = "plan" /\ pc' = [pc EXCEPT ![w] = "commit"] /\ UNCHANGED Tables /\ faults' \in Nat
  BY Holds DEF PlanVersion, Goto
<1>3. job' = [job EXCEPT ![w] = j]
  BY <1>1
<1>4. v \in Nat
  BY BoundAssumption
<1>5. job[w] \in Job /\ LocalOK(runs, outbox, contexts, "plan", job[w])
  BY <1>2, Holds
<1>6. j \in Job /\ j.version = v + 1 /\ j.base = job[w].base /\ j.run = job[w].run
  BY <1>4, <1>5 DEF Job
<1>7. v > 0 => HasRow(contexts, job[w].base, v)
  BY <1>1 DEF IsLatest, Versions, HasRow
<1> HIDE DEF j
<1>8. LocalOK(runs, outbox, contexts, "commit", j) /\ "commit" \in PC
  BY <1>4, <1>5, <1>6, <1>7 DEF LocalOK, PC
<1>9. QED
  BY <1>2, <1>3, <1>6, <1>8, MemoryStep

LEMMA ListCandidatesStep ==
    ASSUME IInv, NEW w \in Worker, ListCandidates(w)
    PROVE  IInv'
<1> DEFINE todo == { r \in job[w].scope : outbox[r].status \in Claimable(job[w].retry) }
           j == [job[w] EXCEPT !.todo = todo]
<1>1. pc' = [pc EXCEPT ![w] = "next"] /\ job' = [job EXCEPT ![w] = j]
      /\ UNCHANGED Tables /\ faults' \in Nat
  BY Holds DEF ListCandidates, Goto
<1>2. job[w] \in Job
  BY Holds
<1>3. todo \in SUBSET Run /\ \A r \in todo : outbox[r].status # "none"
  BY <1>2 DEF Job, Claimable
<1> HIDE DEF todo
<1>4. j \in Job /\ j.todo = todo
  BY <1>2, <1>3 DEF Job
<1> HIDE DEF j
<1>5. LocalOK(runs, outbox, contexts, "next", j) /\ "next" \in PC
  BY <1>3, <1>4 DEF LocalOK, PC
<1>6. QED
  BY <1>1, <1>4, <1>5, MemoryStep

\* A commit fills everything in at once, or nothing.
LEMMA CommitRunStep ==
    ASSUME IInv, NEW w \in Worker, CommitRun(w)
    PROVE  IInv'
<1> DEFINE r == job[w].run
<1>1. /\ pc[w] = "commit" /\ faults' \in Nat
      /\ job[w] \in Job
      /\ LocalOK(runs, outbox, contexts, "commit", job[w])
  BY Holds DEF CommitRun
<1>2. /\ r \in Run /\ job[w].base \in AnyBase
      /\ job[w].version \in Nat \ {0}
      /\ job[w].version > 1 => HasRow(contexts, job[w].base, job[w].version - 1)
  BY <1>1 DEF LocalOK, Job
<1>3. CASE runs[r].status # "validated"
  BY <1>1, <1>3, ExitStep DEF CommitRun, Tables
<1>4. CASE runs[r].status = "validated"
  <2> DEFINE base == job[w].base
             version == job[w].version
             file == runs[r].file
             row == [runs[r] EXCEPT !.status = "committed", !.bundle = file,
                                    !.base = base, !.version = version]
             rec == [status |-> "pending", digest |-> file, base |-> base, version |-> version]
             j == [NoJob EXCEPT !.scope = {r}, !.retry = "yes"]
  <2>1. /\ TableTypes /\ RowsFilled /\ CommitIsWhole /\ PlansFollow
        /\ VersionsWithoutGap /\ DoneIsPublished
    BY DEF IInv, TablesOK
  <2>2. outbox[r] = NoRecord /\ runs[r].published = 0
    BY <1>2, <1>4, <2>1 DEF CommitIsWhole
  <2>3. file \in File
    BY <1>2, <1>4, <2>1 DEF RowsFilled
  <2>4. row \in RunRow /\ rec \in OutboxRow
    <3>1. runs[r] \in RunRow
      BY <1>2, <2>1 DEF TableTypes
    <3>2. base \in AnyBase /\ version \in Nat
      BY <1>2
    <3> HIDE DEF file, base, version, r
    <3>3. row \in RunRow
      BY <2>3, <3>1, <3>2 DEF RunRow
    <3>4. rec \in OutboxRow
      BY <2>3, <3>2 DEF OutboxRow
    <3>5. QED
      BY <3>3, <3>4
  <2>5. row.status = "committed" /\ row.bundle = file /\ row.file = file
        /\ row.base = base /\ row.version = version /\ row.published = 0
    BY <1>2, <2>1, <2>2 DEF TableTypes, RunRow
  <2>6. rec.status = "pending" /\ rec.digest = file /\ rec.base = base /\ rec.version = version
    OBVIOUS
  <2>7. /\ bundles' = bundles \cup {file}
        /\ runs' = [runs EXCEPT ![r] = row]
        /\ outbox' = [outbox EXCEPT ![r] = rec]
        /\ contexts' = contexts
        /\ pc' = [pc EXCEPT ![w] = "list"]
        /\ job' = [job EXCEPT ![w] = j]
    <3>1. outbox[r].status = "none"
      BY <2>2 DEF NoRecord
    <3>2. QED
      BY <1>4, <3>1 DEF CommitRun, Goto
  <2>8. j \in Job /\ LocalOK(runs', outbox', contexts', "list", j) /\ "list" \in PC
    BY <1>2, ScopeJob
  <2> HIDE DEF row, rec, j, file, version, base, r
  <2>9. \A q \in Run : /\ runs'[q] = IF q = r THEN row ELSE runs[q]
                       /\ outbox'[q] = IF q = r THEN rec ELSE outbox[q]
    BY <2>1, <2>7 DEF TableTypes
  <2>10. TableTypes'
    BY <2>1, <2>3, <2>4, <2>7 DEF TableTypes
  <2>11. RowsFilled'
    BY <1>2, <2>1, <2>3, <2>5, <2>6, <2>9 DEF RowsFilled, base, version
  <2>12. CommitIsWhole'
    BY <1>2, <2>1, <2>5, <2>6, <2>7, <2>9 DEF CommitIsWhole, version
  <2>13. PlansFollow'
    BY <1>2, <2>1, <2>6, <2>7, <2>9 DEF PlansFollow, version, base
  <2>14. VersionsWithoutGap'
    BY <2>1, <2>7 DEF VersionsWithoutGap, RowsAt
  <2>15. DoneIsPublished'
    BY <2>1, <2>6, <2>7, <2>9 DEF DoneIsPublished, RowsAt
  <2>16. Kept
    BY <2>2, <2>5, <2>6, <2>7, <2>9 DEF Kept, NoRecord
  <2>17. QED
    BY <1>1, <2>7, <2>8, <2>10, <2>11, <2>12, <2>13, <2>14, <2>15, <2>16, WorkerStep
    DEF TablesOK
<1>5. QED
  BY <1>3, <1>4

\* A step of the outbox loop that at most changes the status of one record.
LEMMA StatusStep ==
    ASSUME IInv, NEW w \in Worker, NEW label \in PC, NEW j \in Job,
           NEW r \in Run, outbox[r].status # "none",
           NEW status \in {"processing", "failed"},
           outbox' = [outbox EXCEPT ![r].status = status],
           LocalOK(runs, outbox, contexts, label, j),
           pc' = [pc EXCEPT ![w] = label],
           job' = [job EXCEPT ![w] = j],
           UNCHANGED <<runs, bundles, contexts>>, faults' \in Nat
    PROVE  IInv'
<1> DEFINE rec == [outbox[r] EXCEPT !.status = status]
<1>1. /\ TableTypes /\ RowsFilled /\ CommitIsWhole /\ PlansFollow
      /\ VersionsWithoutGap /\ DoneIsPublished
  BY DEF IInv, TablesOK
<1>2. rec \in OutboxRow
  BY <1>1 DEF TableTypes, OutboxRow
<1>3. rec.status = status /\ rec.digest = outbox[r].digest /\ rec.base = outbox[r].base
      /\ rec.version = outbox[r].version
  BY <1>1 DEF TableTypes, OutboxRow
<1>4. outbox' = [outbox EXCEPT ![r] = rec]
  OBVIOUS
<1> HIDE DEF rec
<1>5. \A q \in Run : outbox'[q] = IF q = r THEN rec ELSE outbox[q]
  BY <1>1, <1>4 DEF TableTypes
<1>6. TableTypes'
  BY <1>1, <1>2, <1>4 DEF TableTypes
<1>7. RowsFilled' /\ PlansFollow' /\ VersionsWithoutGap'
  BY <1>1, <1>3, <1>5 DEF RowsFilled, PlansFollow, VersionsWithoutGap, RowsAt
<1>8. CommitIsWhole'
  BY <1>1, <1>3, <1>5 DEF CommitIsWhole, NoRecord
<1>9. DoneIsPublished'
  BY <1>1, <1>3, <1>5 DEF DoneIsPublished, RowsAt
<1>10. Kept
  BY <1>3, <1>5 DEF Kept
<1>11. LocalOK(runs', outbox', contexts', label, j)
  <2>1. j.todo \subseteq Run
    BY DEF Job
  <2>2. QED
    BY <2>1, <1>3, <1>5 DEF LocalOK
<1>12. QED
  BY <1>6, <1>7, <1>8, <1>9, <1>10, <1>11, WorkerStep DEF TablesOK

LEMMA ClaimStep ==
    ASSUME IInv, NEW w \in Worker, NEW r \in Run, Claim(w, r)
    PROVE  IInv'
<1>1. /\ pc[w] = "next" /\ r \in job[w].todo /\ faults' \in Nat
      /\ job[w] \in Job
      /\ LocalOK(runs, outbox, contexts, "next", job[w])
      /\ UNCHANGED <<runs, bundles, contexts>>
  BY Holds DEF Claim
<1>2. \A q \in job[w].todo : outbox[q].status # "none"
  BY <1>1 DEF LocalOK
<1>3. CASE outbox[r].status \in Claimable(job[w].retry)
  <2> DEFINE j == [job[w] EXCEPT !.todo = job[w].todo \ {r}, !.record = r]
  <2>1. j \in Job /\ j.todo = job[w].todo \ {r} /\ j.record = r
    BY <1>1 DEF Job
  <2>2. pc' = [pc EXCEPT ![w] = "lookup"] /\ job' = [job EXCEPT ![w] = j]
        /\ outbox' = [outbox EXCEPT ![r].status = "processing"]
    BY <1>3 DEF Claim, Goto
  <2> HIDE DEF j
  <2>3. LocalOK(runs, outbox, contexts, "lookup", j) /\ "lookup" \in PC
    BY <1>1, <1>2, <2>1 DEF LocalOK, PC
  <2>4. QED
    BY <1>1, <1>2, <2>1, <2>2, <2>3, StatusStep
<1>4. CASE outbox[r].status \notin Claimable(job[w].retry)
  <2> DEFINE j == [job[w] EXCEPT !.todo = job[w].todo \ {r}]
  <2>1. j \in Job /\ j.todo = job[w].todo \ {r}
    BY <1>1 DEF Job
  <2>2. pc' = [pc EXCEPT ![w] = "next"] /\ job' = [job EXCEPT ![w] = j] /\ UNCHANGED Tables
    <3>1. pc' = pc /\ pc = [pc EXCEPT ![w] = "next"]
      BY <1>1, <1>4 DEF Claim, IInv, WorkerTypes
    <3>2. QED
      BY <1>4, <3>1 DEF Claim, Tables
  <2> HIDE DEF j
  <2>3. LocalOK(runs, outbox, contexts, "next", j) /\ "next" \in PC
    BY <1>1, <1>2, <2>1 DEF LocalOK, PC
  <2>4. QED
    BY <1>1, <2>1, <2>2, <2>3, MemoryStep
<1>5. QED
  BY <1>3, <1>4

LEMMA MarkFailedStep ==
    ASSUME IInv, NEW w \in Worker, MarkFailed(w)
    PROVE  IInv'
<1> DEFINE j == [job[w] EXCEPT !.record = Nothing, !.prev = 0]
<1>1. /\ job[w] \in Job /\ faults' \in Nat
      /\ LocalOK(runs, outbox, contexts, "fail", job[w])
  BY Holds DEF MarkFailed
<1>2. /\ pc' = [pc EXCEPT ![w] = "next"] /\ job' = [job EXCEPT ![w] = j]
      /\ outbox' = [outbox EXCEPT ![job[w].record].status = "failed"]
      /\ UNCHANGED <<runs, bundles, contexts>>
  BY DEF MarkFailed, Goto
<1>3. j \in Job /\ j.todo = job[w].todo
  BY <1>1 DEF Job
<1> HIDE DEF j
<1>4. LocalOK(runs, outbox, contexts, "next", j) /\ "next" \in PC
  BY <1>1, <1>3 DEF LocalOK, PC
<1>5. job[w].record \in Run /\ outbox[job[w].record].status # "none"
  BY <1>1 DEF LocalOK
<1>6. QED
  BY <1>1, <1>2, <1>3, <1>4, <1>5, StatusStep

\* The record a process works on is a full one, and its version follows.
LEMMA RecordAtHand ==
    ASSUME IInv, NEW w \in Worker, pc[w] \in {"lookup", "save", "record", "fail"}
    PROVE  /\ job[w].record \in Run
           /\ outbox[job[w].record].status # "none"
           /\ outbox[job[w].record].digest \in File
           /\ outbox[job[w].record].base \in AnyBase
           /\ outbox[job[w].record].version \in Nat \ {0}
           /\ outbox[job[w].record].version > 1 =>
                 HasRow(contexts, outbox[job[w].record].base, outbox[job[w].record].version - 1)
<1>1. job[w].record \in Run /\ outbox[job[w].record].status # "none"
  BY Holds DEF LocalOK
<1>2. QED
  BY <1>1 DEF IInv, TablesOK, TableTypes, RowsFilled, PlansFollow, OutboxRow

LEMMA LookupStep ==
    ASSUME IInv, NEW w \in Worker, Lookup(w)
    PROVE  IInv'
<1> DEFINE o == outbox[job[w].record]
<1>1. /\ pc[w] = "lookup" /\ UNCHANGED Tables /\ faults' \in Nat
      /\ job[w] \in Job
      /\ LocalOK(runs, outbox, contexts, "lookup", job[w])
  BY Holds DEF Lookup
<1>2. /\ o.base \in AnyBase /\ o.version \in Nat \ {0}
      /\ o.version > 1 => HasRow(contexts, o.base, o.version - 1)
  BY <1>1, RecordAtHand
<1>3. CASE Goto(w, "fail") /\ UNCHANGED job
  <2>1. job' = [job EXCEPT ![w] = job[w]] /\ pc' = [pc EXCEPT ![w] = "fail"]
    BY <1>3 DEF Goto, IInv, WorkerTypes
  <2>2. LocalOK(runs, outbox, contexts, "fail", job[w]) /\ "fail" \in PC
    BY <1>1 DEF LocalOK, PC
  <2>3. QED
    BY <1>1, <2>1, <2>2, MemoryStep
<1>4. CASE RowsAt(o.base, o.version) # {} /\ Goto(w, "record") /\ UNCHANGED job
  <2>1. job' = [job EXCEPT ![w] = job[w]] /\ pc' = [pc EXCEPT ![w] = "record"]
    BY <1>4 DEF Goto, IInv, WorkerTypes
  <2>2. HasRow(contexts, o.base, o.version)
    BY <1>4 DEF RowsAt, HasRow
  <2>3. LocalOK(runs, outbox, contexts, "record", job[w]) /\ "record" \in PC
    BY <1>1, <2>2 DEF LocalOK, PC
  <2>4. QED
    BY <1>1, <2>1, <2>3, MemoryStep
<1>5. ASSUME NEW v \in 0..MaxVersion,
             IF o.version > 1 /\ RowsAt(o.base, o.version - 1) # {}
             THEN v = o.version - 1
             ELSE IF o.version > 1 THEN IsLatest(o.base, v) ELSE v = 0,
             job' = [job EXCEPT ![w].prev = v], Goto(w, "save")
      PROVE  IInv'
  <2> DEFINE j == [job[w] EXCEPT !.prev = v]
  <2>1. v = o.version - 1
    BY <1>2, <1>5 DEF HasRow, RowsAt
  <2>2. j \in Job /\ j.prev = v /\ j.todo = job[w].todo /\ j.record = job[w].record
    BY <1>1, <1>2, <2>1 DEF Job
  <2>3. job' = [job EXCEPT ![w] = j] /\ pc' = [pc EXCEPT ![w] = "save"]
    BY <1>5 DEF Goto
  <2> HIDE DEF j
  <2>4. LocalOK(runs, outbox, contexts, "save", j) /\ "save" \in PC
    BY <1>1, <2>1, <2>2 DEF LocalOK, PC
  <2>5. QED
    BY <1>1, <2>2, <2>3, <2>4, MemoryStep
<1>6. QED
  BY <1>3, <1>4, <1>5 DEF Lookup

\* Writing a context keeps every version there was.
LEMMA SaveStep ==
    ASSUME IInv, NEW w \in Worker, Save(w)
    PROVE  IInv'
<1> DEFINE o == outbox[job[w].record]
           row == [base |-> o.base, version |-> o.version, digest |-> o.digest,
                   prev |-> job[w].prev]
<1>1. /\ pc[w] = "save" /\ faults' \in Nat
      /\ job[w] \in Job
      /\ LocalOK(runs, outbox, contexts, "save", job[w])
  BY Holds DEF Save
<1>2. /\ job[w].record \in Run
      /\ o.base \in AnyBase /\ o.version \in Nat \ {0} /\ o.digest \in File
      /\ o.version > 1 => HasRow(contexts, o.base, o.version - 1)
  BY <1>1, RecordAtHand
<1>3. job[w].prev = o.version - 1 /\ job[w].prev \in Nat
  BY <1>1 DEF LocalOK, Job
<1>4. /\ TableTypes /\ RowsFilled /\ CommitIsWhole /\ PlansFollow
      /\ VersionsWithoutGap /\ DoneIsPublished
  BY DEF IInv, TablesOK
<1>5. row \in ContextRow
  BY <1>2, <1>3 DEF ContextRow
<1>6. row.base = o.base /\ row.version = o.version /\ row.prev = o.version - 1
  BY <1>3
<1>7. /\ contexts' = (contexts \ RowsAt(o.base, o.version)) \cup {row}
      /\ UNCHANGED <<runs, bundles, outbox, job>>
      /\ pc' = [pc EXCEPT ![w] = "record"]
      /\ job' = [job EXCEPT ![w] = job[w]]
  BY DEF Save, Goto, IInv, WorkerTypes
<1> HIDE DEF o, row
<1>8. \A b, v : HasRow(contexts, b, v) => HasRow(contexts', b, v)
  <2> SUFFICES ASSUME NEW b, NEW v, NEW c \in contexts, c.base = b, c.version = v
               PROVE  HasRow(contexts', b, v)
    BY DEF HasRow
  <2>1. CASE c.base = o.base /\ c.version = o.version
    BY <1>6, <1>7, <2>1 DEF HasRow
  <2>2. CASE ~(c.base = o.base /\ c.version = o.version)
    BY <1>7, <2>2 DEF HasRow, RowsAt
  <2>3. QED
    BY <2>1, <2>2
<1>9. Kept
  BY <1>7, <1>8 DEF Kept
<1>10. TableTypes'
  BY <1>4, <1>5, <1>7 DEF TableTypes
<1>11. RowsFilled' /\ CommitIsWhole'
  BY <1>4, <1>7 DEF RowsFilled, CommitIsWhole
<1>12. PlansFollow'
  BY <1>4, <1>7, <1>8 DEF PlansFollow
<1>13. VersionsWithoutGap'
  <2> SUFFICES ASSUME NEW c \in contexts'
               PROVE  /\ c.version > 1 => HasRow(contexts', c.base, c.version - 1)
                      /\ c.prev = c.version - 1
    BY DEF VersionsWithoutGap, RowsAt, HasRow
  <2>1. CASE c \in contexts
    <3>1. c.version > 1 => HasRow(contexts, c.base, c.version - 1)
      BY <1>4, <2>1 DEF VersionsWithoutGap, RowsAt, HasRow
    <3>2. QED
      BY <1>4, <1>8, <2>1, <3>1 DEF VersionsWithoutGap
  <2>2. CASE c = row
    BY <1>2, <1>6, <1>8, <2>2
  <2>3. QED
    BY <1>7, <2>1, <2>2
<1>14. DoneIsPublished'
  <2>1. \A r \in Run : outbox[r].status = "done" =>
           HasRow(contexts, outbox[r].base, outbox[r].version)
    BY <1>4 DEF DoneIsPublished, RowsAt, HasRow
  <2>2. \A r \in Run : outbox'[r].status = "done" =>
           HasRow(contexts', outbox'[r].base, outbox'[r].version)
    BY <1>7, <1>8, <2>1
  <2>3. QED
    BY <1>4, <1>7, <2>2 DEF DoneIsPublished, RowsAt, HasRow
<1>15. LocalOK(runs', outbox', contexts', "record", job[w]) /\ "record" \in PC
  <2>1. HasRow(contexts', o.base, o.version)
    BY <1>6, <1>7 DEF HasRow
  <2>2. QED
    BY <1>1, <1>7, <2>1 DEF LocalOK, PC, o
<1>16. QED
  BY <1>1, <1>7, <1>9, <1>10, <1>11, <1>12, <1>13, <1>14, <1>15, WorkerStep DEF TablesOK

LEMMA RecordStep ==
    ASSUME IInv, NEW w \in Worker, Record(w)
    PROVE  IInv'
<1> DEFINE r == job[w].record
           row == [runs[r] EXCEPT !.published = outbox[r].version]
           rec == [outbox[r] EXCEPT !.status = "done"]
           j == [job[w] EXCEPT !.record = Nothing, !.prev = 0]
<1>1. /\ pc[w] = "record" /\ faults' \in Nat
      /\ job[w] \in Job
      /\ LocalOK(runs, outbox, contexts, "record", job[w])
  BY Holds DEF Record
<1>2. r \in Run /\ outbox[r].status # "none" /\ outbox[r].version \in Nat \ {0}
  BY <1>1, RecordAtHand
<1>3. HasRow(contexts, outbox[r].base, outbox[r].version)
  BY <1>1 DEF LocalOK
<1>4. /\ TableTypes /\ RowsFilled /\ CommitIsWhole /\ PlansFollow
      /\ VersionsWithoutGap /\ DoneIsPublished
  BY DEF IInv, TablesOK
<1>5. runs[r] \in RunRow /\ outbox[r] \in OutboxRow
  BY <1>2, <1>4 DEF TableTypes
<1>6. runs[r].status = "committed"
  BY <1>2, <1>4 DEF CommitIsWhole, NoRecord
<1>7. /\ runs' = [runs EXCEPT ![r] = row]
      /\ outbox' = [outbox EXCEPT ![r] = rec]
      /\ UNCHANGED <<bundles, contexts>>
      /\ pc' = [pc EXCEPT ![w] = "next"]
      /\ job' = [job EXCEPT ![w] = j]
  BY DEF Record, Goto
<1>8. row \in RunRow /\ row.status = "committed" /\ row.file = runs[r].file
      /\ row.bundle = runs[r].bundle /\ row.base = runs[r].base
      /\ row.version = runs[r].version /\ row.published = outbox[r].version
  <2>1. outbox[r].version \in Nat
    BY <1>2
  <2> HIDE DEF r
  <2>2. QED
    BY <2>1, <1>5, <1>6 DEF RunRow
<1>9. rec \in OutboxRow /\ rec.status = "done" /\ rec.digest = outbox[r].digest
      /\ rec.base = outbox[r].base /\ rec.version = outbox[r].version
  BY <1>5 DEF OutboxRow
<1>10. j \in Job /\ j.todo = job[w].todo
  BY <1>1 DEF Job
<1> HIDE DEF row, rec, j, r
<1>11. \A q \in Run : /\ runs'[q] = IF q = r THEN row ELSE runs[q]
                      /\ outbox'[q] = IF q = r THEN rec ELSE outbox[q]
  BY <1>4, <1>7 DEF TableTypes
<1>12. TableTypes'
  BY <1>4, <1>7, <1>8, <1>9 DEF TableTypes
<1>13. RowsFilled'
  BY <1>2, <1>4, <1>6, <1>8, <1>9, <1>11 DEF RowsFilled
<1>14. CommitIsWhole'
  BY <1>2, <1>4, <1>6, <1>7, <1>8, <1>9, <1>11 DEF CommitIsWhole
<1>15. PlansFollow' /\ VersionsWithoutGap'
  BY <1>2, <1>4, <1>7, <1>9, <1>11 DEF PlansFollow, VersionsWithoutGap, RowsAt
<1>16. DoneIsPublished'
  BY <1>3, <1>4, <1>7, <1>8, <1>9, <1>11 DEF DoneIsPublished, RowsAt, HasRow
<1>17. Kept
  BY <1>2, <1>7, <1>8, <1>9, <1>11 DEF Kept
<1>18. LocalOK(runs', outbox', contexts', "next", j) /\ "next" \in PC
  <2>1. j.todo \subseteq Run /\ \A q \in j.todo : outbox[q].status # "none"
    BY <1>1, <1>10 DEF Job, LocalOK
  <2>2. QED
    BY <2>1, <1>9, <1>11 DEF LocalOK, PC
<1>19. QED
  BY <1>1, <1>7, <1>10, <1>12, <1>13, <1>14, <1>15, <1>16, <1>17, <1>18, WorkerStep DEF TablesOK

LEMMA StepFailsStep ==
    ASSUME IInv, NEW w \in Worker, StepFails(w)
    PROVE  IInv'
<1>1. /\ job[w] \in Job /\ faults' \in Nat /\ UNCHANGED Tables
      /\ LocalOK(runs, outbox, contexts, pc[w], job[w])
      /\ pc' = [pc EXCEPT ![w] = "fail"]
  BY Holds DEF StepFails, Goto
<1>2. CASE pc[w] \in {"save", "record"} /\ UNCHANGED job
  <2>1. job' = [job EXCEPT ![w] = job[w]]
    BY <1>2 DEF IInv, WorkerTypes
  <2>2. LocalOK(runs, outbox, contexts, "fail", job[w]) /\ "fail" \in PC
    BY <1>1, <1>2 DEF LocalOK, PC
  <2>3. QED
    BY <1>1, <2>1, <2>2, MemoryStep
<1>3. ASSUME pc[w] = "next", NEW r \in job[w].todo,
             job' = [job EXCEPT ![w].todo = job[w].todo \ {r}, ![w].record = r]
      PROVE  IInv'
  <2> DEFINE j == [job[w] EXCEPT !.todo = job[w].todo \ {r}, !.record = r]
  <2>1. j \in Job /\ j.todo = job[w].todo \ {r} /\ j.record = r /\ r \in Run
    BY <1>1 DEF Job
  <2>2. job' = [job EXCEPT ![w] = j]
    BY <1>3
  <2> HIDE DEF j
  <2>3. LocalOK(runs, outbox, contexts, "fail", j) /\ "fail" \in PC
    BY <1>1, <1>3, <2>1 DEF LocalOK, PC
  <2>4. QED
    BY <1>1, <2>1, <2>2, <2>3, MemoryStep
<1>4. QED
  BY <1>2, <1>3 DEF StepFails

LEMMA FinishOrCrashStep ==
    ASSUME IInv, NEW w \in Worker, Finish(w) \/ Crash(w)
    PROVE  IInv'
<1>1. Exit(w) /\ UNCHANGED Tables /\ faults' \in Nat
  BY Holds DEF Finish, Crash
<1>2. QED
  BY <1>1, ExitStep

LEMMA NextIInv == ASSUME IInv, [Next]_vars PROVE IInv'
<1>1. CASE UNCHANGED vars
  <2>1. UNCHANGED Tables /\ UNCHANGED <<pc, job, faults>>
    BY <1>1 DEF vars, Tables
  <2>2. QED
    BY <2>1, TablesUnchanged, KeptWhenUnchanged, CommandStep DEF IInv
<1>2. ASSUME NEW r \in Run, NEW f \in File, Import(r, f) PROVE IInv'
  BY <1>2, ImportStep
<1>3. ASSUME NEW r \in Run, Validate(r) PROVE IInv'
  BY <1>3, ValidateStep
<1>4. ASSUME NEW w \in Worker, Advance(w) PROVE IInv'
  <2>1. CASE PlanVersion(w)
    BY <2>1, PlanVersionStep
  <2>2. CASE CommitRun(w)
    BY <2>2, CommitRunStep
  <2>3. CASE ListCandidates(w)
    BY <2>3, ListCandidatesStep
  <2>4. CASE \E r \in Run : Claim(w, r)
    BY <2>4, ClaimStep
  <2>5. CASE Lookup(w)
    BY <2>5, LookupStep
  <2>6. CASE Save(w)
    BY <2>6, SaveStep
  <2>7. CASE Record(w)
    BY <2>7, RecordStep
  <2>8. CASE MarkFailed(w)
    BY <2>8, MarkFailedStep
  <2>9. CASE Finish(w)
    BY <2>9, FinishOrCrashStep
  <2>10. QED
    BY <1>4, <2>1, <2>2, <2>3, <2>4, <2>5, <2>6, <2>7, <2>8, <2>9 DEF Advance
<1>5. ASSUME NEW w \in Worker, Start(w) PROVE IInv'
  <2>1. CASE \E r \in Run, mode \in PolicyMode :
                \E base \in Base \cup {r} : StartCommit(w, r, mode, base)
    BY <2>1, StartCommitStep
  <2>2. CASE \E r \in Run : ResumeCommit(w, r)
    BY <2>2, ResumeCommitStep
  <2>3. CASE \E retry \in {"yes", "no"} :
                \E scope \in SUBSET Run \ {{}} : StartReconcile(w, scope, retry)
    BY <2>3, StartReconcileStep
  <2>4. QED
    BY <1>5, <2>1, <2>2, <2>3 DEF Start
<1>6. ASSUME NEW w \in Worker, StepFails(w) \/ Crash(w) PROVE IInv'
  BY <1>6, StepFailsStep, FinishOrCrashStep
<1>7. QED
  BY <1>1, <1>2, <1>3, <1>4, <1>5, <1>6 DEF Next

\* The inductive invariant holds throughout.
THEOREM Inductive == Spec => []IInv
<1>1. Init => IInv
  BY InitIInv
<1>2. IInv /\ [Next]_vars => IInv'
  BY NextIInv
<1>3. QED
  BY <1>1, <1>2, PTL DEF Spec

-----------------------------------------------------------------------------
(* The theorems *)

\* Tables and processes only hold values of their types (brownfield.db,
\* contexts.db, commit_import_run and the outbox loop).
THEOREM TypeCorrect == Spec => []TypeOK
<1>1. IInv => TypeOK
  BY IInvImpliesTypeOK
<1>2. QED
  BY <1>1, Inductive, PTL

\* A commit is all or nothing, whatever dies, fails or comes second
\* (UnitOfWork.transaction around commit_import_run).
THEOREM CommitsAreWhole == Spec => []CommitIsWhole
<1>1. IInv => CommitIsWhole
  BY DEF IInv, TablesOK
<1>2. QED
  BY <1>1, Inductive, PTL

\* The versions of a context have no hole and each points to the one before
\* it, although they are planned long before they are written.
THEOREM VersionsHaveNoGap == Spec => []VersionsWithoutGap
<1>1. IInv => VersionsWithoutGap
  BY DEF IInv, TablesOK
<1>2. QED
  BY <1>1, Inductive, PTL

\* What the outbox calls done is in contexts.db and known to the import run.
THEOREM DoneMeansPublished == Spec => []DoneIsPublished
<1>1. IInv => DoneIsPublished
  BY DEF IInv, TablesOK
<1>2. QED
  BY <1>1, Inductive, PTL

\* A committed import stays as it was committed (the rechecks of the status in
\* mark_committed and attach_validation).
THEOREM CommittedStays == Spec => CommittedIsFinal
<1> DEFINE Final == \A r \in Run : runs[r].status = "committed" =>
              runs'[r] = [runs[r] EXCEPT !.published = runs'[r].published]
<1>1. ASSUME IInv, [Next]_vars PROVE Final
  <2> SUFFICES ASSUME NEW r \in Run, runs[r].status = "committed"
               PROVE  runs'[r] = [runs[r] EXCEPT !.published = runs'[r].published]
    OBVIOUS
  <2>1. runs[r] \in RunRow /\ runs \in [Run -> RunRow]
    BY <1>1 DEF IInv, TablesOK, TableTypes
  <2>2. CASE runs'[r] = runs[r]
    BY <2>1, <2>2 DEF RunRow
  <2>3. ASSUME NEW w \in Worker, Record(w)
        PROVE  runs'[r] = [runs[r] EXCEPT !.published = runs'[r].published]
    <3>1. job[w].record \in Run
      BY <1>1, <2>3, RecordAtHand DEF Record
    <3>2. CASE r = job[w].record
      <4>1. runs'[r] = [runs[r] EXCEPT !.published = outbox[r].version]
        BY <2>1, <2>3, <3>1, <3>2 DEF Record
      <4>2. runs'[r].published = outbox[r].version
        BY <4>1, <2>1 DEF RunRow
      <4>3. QED
        BY <4>1, <4>2
    <3>3. CASE r # job[w].record
      BY <2>1, <2>2, <2>3, <3>1, <3>3 DEF Record
    <3>4. QED
      BY <3>2, <3>3
  <2>4. ASSUME NEW q \in Run, NEW f \in File, Import(q, f) PROVE runs'[r] = runs[r]
    BY <2>1, <2>4 DEF Import
  <2>5. ASSUME NEW q \in Run, Validate(q) PROVE runs'[r] = runs[r]
    BY <2>1, <2>5 DEF Validate
  <2>6. ASSUME NEW w \in Worker, CommitRun(w) PROVE runs'[r] = runs[r]
    BY <2>1, <2>6 DEF CommitRun
  <2>7. CASE UNCHANGED runs
    BY <2>2, <2>7
  <2>8. QED
    BY <1>1, <2>2, <2>3, <2>4, <2>5, <2>6, <2>7
    DEF Next, Advance, Start, vars, Tables, PlanVersion, ListCandidates, Claim, Lookup, Save,
        MarkFailed, Finish, StartCommit, ResumeCommit, StartReconcile, StepFails, Crash
<1>2. QED
  BY <1>1, Inductive, PTL DEF Spec, CommittedIsFinal

-----------------------------------------------------------------------------
(* One process at a time *)

\* The hypothesis of this section: no two processes publish at once.  With two
\* of them Save may replace the context another one has just written.
OneWorker == \A v, w \in Worker : v = w

Bundle(rows, b, v, d) == \A c \in rows : c.base = b /\ c.version = v => c.digest = d

\* What process w found about the version it publishes is still so.
FoundStillHolds(w) ==
    LET o == outbox[job[w].record]
    IN  /\ pc[w] = "save" => ~HasRow(contexts, o.base, o.version)
        /\ pc[w] = "record" => Bundle(contexts, o.base, o.version, o.digest)

\* A published run has its context, with its bundle.
HasItsContext(row) ==
    row.published # 0 => /\ HasRow(contexts, row.base, row.published)
                         /\ Bundle(contexts, row.base, row.published, row.bundle)

OneInv ==
    /\ IInv
    /\ \A w \in Worker : FoundStillHolds(w)
    /\ \A r \in Run : HasItsContext(runs[r])

\* A run's row may be filled in as long as it is not published.
LEMMA ContextsKept ==
    ASSUME OneInv, UNCHANGED contexts,
           \A r \in Run : runs'[r].published = 0 \/ runs'[r] = runs[r]
    PROVE  \A r \in Run : HasItsContext(runs[r])'
  BY DEF OneInv, HasItsContext

\* A step of a command that no process of the outbox sees.
LEMMA OneCommandStep ==
    ASSUME OneInv, IInv', UNCHANGED <<outbox, contexts, pc, job>>,
           \A r \in Run : runs'[r].published = 0 \/ runs'[r] = runs[r]
    PROVE  OneInv'
<1>1. \A w \in Worker : FoundStillHolds(w)'
  BY DEF OneInv, FoundStillHolds
<1>2. QED
  BY <1>1, ContextsKept DEF OneInv

\* The only process goes where it need not have found anything.
LEMMA OneWorkerStep ==
    ASSUME OneInv, IInv', OneWorker, NEW w \in Worker, UNCHANGED contexts,
           NEW label \in PC \ {"save", "record"}, pc' = [pc EXCEPT ![w] = label],
           \A r \in Run : runs'[r].published = 0 \/ runs'[r] = runs[r]
    PROVE  OneInv'
<1>1. \A x \in Worker : pc'[x] = label
  BY DEF OneInv, IInv, WorkerTypes, OneWorker
<1>2. \A x \in Worker : FoundStillHolds(x)'
  BY <1>1 DEF FoundStillHolds
<1>3. QED
  BY <1>2, ContextsKept DEF OneInv

\* The commit plans a publication; the run is not published yet.
LEMMA CommitRunOne ==
    ASSUME OneInv, IInv', OneWorker, NEW w \in Worker, CommitRun(w)
    PROVE  OneInv'
<1>1. /\ pc[w] = "commit" /\ job[w].run \in Run
      /\ runs \in [Run -> RunRow] /\ CommitIsWhole
  BY Holds DEF CommitRun, LocalOK, OneInv, IInv, TablesOK, TableTypes
<1>2. ASSUME NEW r \in Run PROVE runs'[r].published = 0 \/ runs'[r] = runs[r]
  <2>1. CASE r = job[w].run /\ runs[r].status = "validated"
    <3>1. runs[r].published = 0
      BY <1>1, <2>1 DEF CommitIsWhole
    <3>2. QED
      BY <1>1, <2>1, <3>1 DEF CommitRun, RunRow
  <2>2. CASE r # job[w].run
    BY <1>1, <2>2 DEF CommitRun
  <2>3. CASE r = job[w].run /\ runs[r].status # "validated"
    BY <1>1, <2>3 DEF CommitRun
  <2>4. QED
    BY <2>1, <2>2, <2>3
<1>3. PICK label \in {"list", "idle"} : pc' = [pc EXCEPT ![w] = label]
  BY DEF CommitRun, Exit, Goto
<1>4. QED
  BY <1>2, <1>3, OneWorkerStep DEF CommitRun, PC

\* The lookup: a version that is there holds our bundle or is left alone.
LEMMA LookupOne ==
    ASSUME OneInv, IInv', OneWorker, NEW w \in Worker, Lookup(w)
    PROVE  OneInv'
<1> DEFINE o == outbox[job[w].record]
<1>1. job[w] \in Job /\ pc \in [Worker -> PC] /\ job \in [Worker -> Job]
      /\ job[w].record \in Run
  BY RecordAtHand, Holds DEF OneInv, IInv, WorkerTypes, Lookup
<1>2. \A x \in Worker : x = w
  BY DEF OneWorker
<1>3. job'[w].record = job[w].record
  BY <1>1 DEF Lookup, Job
<1>4. UNCHANGED <<contexts, outbox, runs>>
  BY DEF Lookup, Tables
<1>5. \A r \in Run : HasItsContext(runs[r])'
  BY <1>4, ContextsKept
<1>6. CASE pc' = [pc EXCEPT ![w] = "fail"]
  BY <1>1, <1>2, <1>5, <1>6 DEF OneInv, FoundStillHolds
<1>7. CASE /\ \A c \in RowsAt(o.base, o.version) : c.digest = o.digest
           /\ pc' = [pc EXCEPT ![w] = "record"]
  <2>1. Bundle(contexts, o.base, o.version, o.digest)
    BY <1>7 DEF Bundle, RowsAt
  <2>2. FoundStillHolds(w)'
    BY <1>1, <1>3, <1>4, <1>7, <2>1 DEF FoundStillHolds
  <2>3. QED
    BY <1>2, <1>5, <2>2 DEF OneInv
<1>8. CASE RowsAt(o.base, o.version) = {} /\ pc' = [pc EXCEPT ![w] = "save"]
  <2>1. ~HasRow(contexts, o.base, o.version)
    BY <1>8 DEF HasRow, RowsAt
  <2>2. FoundStillHolds(w)'
    BY <1>1, <1>3, <1>4, <1>8, <2>1 DEF FoundStillHolds
  <2>3. QED
    BY <1>2, <1>5, <2>2 DEF OneInv
<1>9. QED
  BY <1>6, <1>7, <1>8 DEF Lookup, Goto

\* Nobody wrote the version since it was looked for: the write replaces nothing.
LEMMA SaveOne ==
    ASSUME OneInv, IInv', OneWorker, NEW w \in Worker, Save(w)
    PROVE  OneInv'
<1> DEFINE o == outbox[job[w].record]
           row == [base |-> o.base, version |-> o.version, digest |-> o.digest,
                   prev |-> job[w].prev]
<1>1. row.base = o.base /\ row.version = o.version /\ row.digest = o.digest
  OBVIOUS
<1>2. ~HasRow(contexts, o.base, o.version)
  BY DEF OneInv, FoundStillHolds, Save
<1>3. contexts' = contexts \cup {row} /\ UNCHANGED <<runs, outbox, job>>
  BY <1>2 DEF Save, HasRow, RowsAt
<1>4. pc'[w] = "record"
  BY DEF Save, Goto, OneInv, IInv, WorkerTypes
<1> HIDE DEF row
<1>5. Bundle(contexts', o.base, o.version, o.digest)
  BY <1>1, <1>2, <1>3 DEF Bundle, HasRow
<1>6. FoundStillHolds(w)'
  BY <1>3, <1>4, <1>5 DEF FoundStillHolds
<1>7. \A x \in Worker : FoundStillHolds(x)'
  BY <1>6 DEF OneWorker
<1>8. ASSUME NEW r \in Run, runs[r].published # 0
      PROVE  /\ HasRow(contexts', runs[r].base, runs[r].published)
             /\ Bundle(contexts', runs[r].base, runs[r].published, runs[r].bundle)
  <2>1. /\ HasRow(contexts, runs[r].base, runs[r].published)
        /\ Bundle(contexts, runs[r].base, runs[r].published, runs[r].bundle)
    BY <1>8 DEF OneInv, HasItsContext
  <2>2. ~(runs[r].base = o.base /\ runs[r].published = o.version)
    BY <1>2, <2>1
  <2> HIDE DEF o
  <2>3. HasRow(contexts', runs[r].base, runs[r].published)
    BY <1>3, <2>1 DEF HasRow
  <2>4. Bundle(contexts', runs[r].base, runs[r].published, runs[r].bundle)
    BY <1>1, <1>3, <2>1, <2>2 DEF Bundle
  <2>5. QED
    BY <2>3, <2>4
<1>9. \A r \in Run : HasItsContext(runs[r])'
  BY <1>3, <1>8 DEF HasItsContext
<1>10. QED
  BY <1>7, <1>9 DEF OneInv

\* The run is told of the version its outbox record planned, which is its own.
LEMMA RecordOne ==
    ASSUME OneInv, IInv', OneWorker, NEW w \in Worker, Record(w)
    PROVE  OneInv'
<1> DEFINE r == job[w].record
           o == outbox[r]
<1>1. /\ r \in Run /\ o.status # "none" /\ pc[w] = "record"
      /\ LocalOK(runs, outbox, contexts, "record", job[w])
      /\ runs \in [Run -> RunRow] /\ CommitIsWhole
      /\ pc \in [Worker -> PC]
  BY Holds DEF Record, LocalOK, OneInv, IInv, TablesOK, TableTypes, WorkerTypes
<1>2. /\ runs[r].bundle = o.digest /\ runs[r].base = o.base
  BY <1>1 DEF CommitIsWhole, NoRecord
<1>3. /\ HasRow(contexts, o.base, o.version)
      /\ Bundle(contexts, o.base, o.version, o.digest)
  BY <1>1 DEF LocalOK, OneInv, FoundStillHolds
<1>4. runs' = [runs EXCEPT ![r].published = o.version] /\ contexts' = contexts
  BY DEF Record
<1>5. ASSUME NEW q \in Run PROVE HasItsContext(runs[q])'
  <2>1. CASE q = r
    <3>1. /\ runs'[q].published = o.version
          /\ runs'[q].base = runs[r].base /\ runs'[q].bundle = runs[r].bundle
      BY <1>1, <1>4, <2>1 DEF RunRow
    <3> HIDE DEF o, r
    <3>2. QED
      BY <1>2, <1>3, <1>4, <3>1 DEF HasItsContext
  <2>2. CASE q # r
    <3>1. runs'[q] = runs[q]
      BY <1>1, <1>4, <2>2
    <3>2. QED
      BY <1>4, <3>1 DEF OneInv, HasItsContext
  <2>3. QED
    BY <2>1, <2>2
<1>6. \A x \in Worker : pc'[x] = "next"
  BY <1>1 DEF Record, Goto, OneWorker
<1>7. \A x \in Worker : FoundStillHolds(x)'
  BY <1>6 DEF FoundStillHolds
<1>8. QED
  BY <1>5, <1>7 DEF OneInv

LEMMA NextOneInv == ASSUME OneWorker, OneInv, [Next]_vars PROVE OneInv'
<1>1. IInv /\ IInv'
  BY NextIInv DEF OneInv
<1>2. runs \in [Run -> RunRow] /\ CommitIsWhole /\ pc \in [Worker -> PC]
  BY <1>1 DEF IInv, TablesOK, TableTypes, WorkerTypes
<1>3. ASSUME NEW r \in Run, NEW f \in File, Import(r, f) PROVE OneInv'
  <2>1. runs[r].published = 0
    BY <1>2, <1>3 DEF Import, CommitIsWhole
  <2>2. \A q \in Run : runs'[q].published = 0 \/ runs'[q] = runs[q]
    BY <1>2, <1>3, <2>1 DEF Import, RunRow
  <2>3. QED
    BY <1>1, <1>3, <2>2, OneCommandStep DEF Import
<1>4. ASSUME NEW r \in Run, Validate(r) PROVE OneInv'
  <2>1. runs[r].published = 0
    BY <1>2, <1>4 DEF Validate, CommitIsWhole
  <2>2. \A q \in Run : runs'[q].published = 0 \/ runs'[q] = runs[q]
    BY <1>2, <1>4, <2>1 DEF Validate, RunRow
  <2>3. QED
    BY <1>1, <1>4, <2>2, OneCommandStep DEF Validate
<1>5. ASSUME NEW w \in Worker, UNCHANGED <<runs, contexts>>,
             \E label \in PC \ {"save", "record"} : pc' = [pc EXCEPT ![w] = label]
      PROVE  OneInv'
  BY <1>1, <1>5, OneWorkerStep
<1>6. ASSUME NEW w \in Worker, Advance(w) PROVE OneInv'
  <2>1. ASSUME PlanVersion(w) \/ ListCandidates(w) PROVE OneInv'
    BY <1>5, <2>1 DEF PlanVersion, ListCandidates, Goto, Tables, PC
  <2>2. ASSUME NEW r \in Run, Claim(w, r) PROVE OneInv'
    <3>1. pc' = [pc EXCEPT ![w] = "lookup"] \/ pc' = [pc EXCEPT ![w] = "next"]
      BY <1>2, <2>2 DEF Claim, Goto
    <3>2. QED
      BY <1>5, <2>2, <3>1 DEF Claim, PC
  <2>3. ASSUME MarkFailed(w) \/ Finish(w) PROVE OneInv'
    BY <1>5, <2>3 DEF MarkFailed, Finish, Exit, Goto, Tables, PC
  <2>4. QED
    BY <1>1, <1>6, <2>1, <2>2, <2>3, CommitRunOne, LookupOne, SaveOne, RecordOne DEF Advance
<1>7. ASSUME NEW w \in Worker, Start(w) PROVE OneInv'
  BY <1>5, <1>7 DEF Start, StartCommit, ResumeCommit, StartReconcile, Goto, Tables, PC
<1>8. ASSUME NEW w \in Worker, StepFails(w) \/ Crash(w) PROVE OneInv'
  BY <1>5, <1>8 DEF StepFails, Crash, Exit, Goto, Tables, PC
<1>9. ASSUME UNCHANGED vars PROVE OneInv'
  BY <1>1, <1>9, OneCommandStep DEF vars
<1>10. QED
  BY <1>3, <1>4, <1>6, <1>7, <1>8, <1>9 DEF Next

\* With one process at a time, the context a run is published as holds that
\* run's bundle, whatever else is committed to the context and whenever the
\* process dies (the digest check and the INSERT OR REPLACE in outbox.py and
\* focal_actor_context_store.py).
THEOREM PublishedAsCommitted == ASSUME OneWorker PROVE Spec => []PublishedIsWhatWasCommitted
<1>1. Init => OneInv
  BY InitIInv DEF Init, OneInv, FoundStillHolds, HasItsContext, NoRow
<1>2. OneInv /\ [Next]_vars => OneInv'
  BY NextOneInv
<1>3. OneInv => PublishedIsWhatWasCommitted
  BY DEF OneInv, HasItsContext, HasRow, Bundle, PublishedIsWhatWasCommitted, RowsAt
<1>4. QED
  BY <1>1, <1>2, <1>3, PTL DEF Spec

-----------------------------------------------------------------------------
(* The refinement *)

\* A step that changes one row of import_runs changes one run of the ledger.
LEMMA OneRow ==
    ASSUME TableTypes, NEW r \in Run, NEW row, runs' = [runs EXCEPT ![r] = row]
    PROVE  /\ Phase' = [Phase EXCEPT ![r] = PhaseOf(row)]
           /\ Content' = [Content EXCEPT ![r] = row.file]
<1>1. \A q \in Run : runs'[q] = IF q = r THEN row ELSE runs[q]
  BY DEF TableTypes
<1>2. Phase' = [q \in Run |-> IF q = r THEN PhaseOf(row) ELSE PhaseOf(runs[q])]
  BY <1>1 DEF Phase
<1>3. Content' = [q \in Run |-> IF q = r THEN row.file ELSE runs[q].file]
  BY <1>1 DEF Content
<1>4. QED
  BY <1>2, <1>3 DEF Phase, Content

LEMMA SameLedger == ASSUME UNCHANGED runs PROVE UNCHANGED <<Phase, Content>>
  BY DEF Phase, Content

LEMMA LedgerStep ==
    ASSUME IInv, [Next]_vars
    PROVE  [Ledger!Next]_<<Phase, Content>>
<1>1. TableTypes /\ RowsFilled /\ CommitIsWhole
  BY DEF IInv, TablesOK
<1>2. ASSUME NEW r \in Run, NEW f \in File, Import(r, f) PROVE Ledger!Import(r, f)
  <2> DEFINE row == [runs[r] EXCEPT !.status = "decoded", !.file = f]
  <2>1. row.status = "decoded" /\ row.file = f
    BY <1>1 DEF TableTypes, RunRow
  <2>2. runs' = [runs EXCEPT ![r] = row]
    BY <1>2 DEF Import
  <2>3. Phase[r] = "none"
    BY <1>2 DEF Import, Phase, PhaseOf
  <2> HIDE DEF row
  <2>4. PhaseOf(row) = "imported"
    BY <2>1 DEF PhaseOf
  <2>5. QED
    BY <1>1, <2>1, <2>2, <2>3, <2>4, OneRow DEF Ledger!Import
<1>3. ASSUME NEW r \in Run, Validate(r) PROVE Ledger!Validate(r)
  <2> DEFINE d == Quality[runs[r].file]
             status == IF d = "fail" THEN "rejected" ELSE "validated"
             row == [runs[r] EXCEPT !.decision = d, !.status = status]
  <2>1. runs[r] \in RunRow /\ runs[r].status \in {"decoded", "validated", "rejected"}
    BY <1>1, <1>3 DEF TableTypes, Validate
  <2>2. row.status = status /\ row.file = runs[r].file
    BY <2>1 DEF RunRow
  <2>3. runs' = [runs EXCEPT ![r] = row]
    BY <1>3 DEF Validate
  <2>4. Phase[r] \in {"imported", "accepted", "refused"} /\ Content[r] = runs[r].file
    BY <2>1 DEF Phase, PhaseOf, Content
  <2> HIDE DEF row
  <2>5. PhaseOf(row) = IF d = "fail" THEN "refused" ELSE "accepted"
    BY <2>2 DEF PhaseOf
  <2>6. Content' = Content
    BY <1>1, <2>2, <2>3, <2>4, OneRow DEF Content
  <2>7. Phase' = [Phase EXCEPT ![r] = IF d = "fail" THEN "refused" ELSE "accepted"]
    BY <1>1, <2>3, <2>5, OneRow
  <2>8. QED
    BY <2>4, <2>6, <2>7 DEF Ledger!Validate
<1>4. ASSUME NEW w \in Worker, CommitRun(w)
      PROVE  (\E r \in Run : Ledger!Commit(r)) \/ UNCHANGED <<Phase, Content>>
  <2> DEFINE r == job[w].run
             row == [runs[r] EXCEPT !.status = "committed", !.bundle = runs[r].file,
                                    !.base = job[w].base, !.version = job[w].version]
  <2>1. CASE runs[r].status # "validated"
    BY <1>4, <2>1, SameLedger DEF CommitRun
  <2>2. CASE runs[r].status = "validated"
    <3>1. r \in Run
      BY <1>4, Holds DEF CommitRun, LocalOK
    <3>2. runs[r] \in RunRow /\ runs[r].published = 0
      BY <1>1, <2>2, <3>1 DEF TableTypes, CommitIsWhole
    <3>3. row.status = "committed" /\ row.file = runs[r].file /\ row.published = 0
      BY <3>2 DEF RunRow
    <3>4. runs' = [runs EXCEPT ![r] = row]
      BY <1>4, <2>2 DEF CommitRun
    <3>5. Phase[r] = "accepted" /\ Content[r] = runs[r].file
      BY <2>2, <3>1 DEF Phase, PhaseOf, Content
    <3> HIDE DEF row
    <3>6. PhaseOf(row) = "committed"
      BY <3>3 DEF PhaseOf
    <3>7. Content' = Content
      BY <1>1, <3>1, <3>3, <3>4, <3>5, OneRow DEF Content
    <3>8. Phase' = [Phase EXCEPT ![r] = "committed"]
      BY <1>1, <3>1, <3>4, <3>6, OneRow
    <3>9. Ledger!Commit(r)
      BY <3>5, <3>7, <3>8 DEF Ledger!Commit
    <3>10. QED
      BY <3>1, <3>9
  <2>3. QED
    BY <2>1, <2>2
<1>5. ASSUME NEW w \in Worker, Record(w)
      PROVE  (\E r \in Run : Ledger!Publish(r)) \/ UNCHANGED <<Phase, Content>>
  <2> DEFINE r == job[w].record
             row == [runs[r] EXCEPT !.published = outbox[r].version]
  <2>1. r \in Run /\ outbox[r].status # "none" /\ outbox[r].version \in Nat \ {0}
    BY <1>5, RecordAtHand DEF Record
  <2>2. runs[r] \in RunRow /\ runs[r].status = "committed"
    BY <1>1, <2>1 DEF TableTypes, CommitIsWhole, NoRecord
  <2>3. row.status = "committed" /\ row.file = runs[r].file /\ row.published = outbox[r].version
    BY <2>2 DEF RunRow
  <2>4. runs' = [runs EXCEPT ![r] = row]
    BY <1>5 DEF Record
  <2>5. /\ Phase[r] = IF runs[r].published = 0 THEN "committed" ELSE "published"
        /\ Content[r] = runs[r].file
    BY <2>1, <2>2 DEF Phase, PhaseOf, Content
  <2> HIDE DEF row
  <2>6. PhaseOf(row) = "published"
    BY <2>1, <2>3 DEF PhaseOf
  <2>7. Content' = Content
    BY <1>1, <2>1, <2>3, <2>4, <2>5, OneRow DEF Content
  <2>8. Phase' = [Phase EXCEPT ![r] = "published"]
    BY <1>1, <2>1, <2>4, <2>6, OneRow
  <2>9. CASE runs[r].published = 0
    <3>1. Ledger!Publish(r)
      BY <2>5, <2>7, <2>8, <2>9 DEF Ledger!Publish
    <3>2. QED
      BY <2>1, <3>1
  <2>10. CASE runs[r].published # 0
    BY <2>5, <2>7, <2>8, <2>10 DEF Phase
  <2>11. QED
    BY <2>9, <2>10
<1>6. CASE UNCHANGED runs
  BY <1>6, SameLedger
<1>7. QED
  BY <1>2, <1>3, <1>4, <1>5, <1>6
  DEF Ledger!Next, Next, Advance, Start, vars, Tables, PlanVersion, ListCandidates, Claim,
      Lookup, Save, MarkFailed, Finish, StartCommit, ResumeCommit, StartReconcile, StepFails, Crash

\* Processes, crashes, retries and the outbox together behave like ImportLedger:
\* each run is imported, judged, committed once and only if accepted, and then
\* published, in this order and for good.
THEOREM Refinement == Spec => ImplementsLedger
<1>1. Init => Ledger!Init
  BY DEF Init, Ledger!Init, Phase, PhaseOf, Content, NoRow
<1>2. IInv /\ [Next]_vars => [Ledger!Next]_<<Phase, Content>>
  BY LedgerStep
<1>3. QED
  BY <1>1, <1>2, Inductive, PTL DEF Spec, ImplementsLedger, Ledger!Spec, Ledger!ledgerVars
=============================================================================
