-------------------------- MODULE LifecycleProofs --------------------------
(***************************************************************************)
(* StageBacked for every number of projects and sessions, however they     *)
(* interleave and crash.  The invariant on the files is not inductive: a   *)
(* session writes what it computed from a manifest that may be long gone,  *)
(* so the copies in memory have to be backed as well, and since the engine *)
(* store only grows a copy that was backed when it was made still is.      *)
(*                                                                         *)
(* With one process, more: the log agrees with the manifest, because       *)
(* OneInv says of every place how far file, log and the copy in memory are *)
(* apart.  With one project besides,  *)
(* only the user leaves a gate: TurnInv says whose turn it is.             *)
(***************************************************************************)
EXTENDS Lifecycle, TLAPS

\* Where a session is tells which of its locals are set.
JobOK ==
    \A s \in Session :
       /\ pc[s] # "idle" => job[s].own \in Project
       /\ pc[s] \in {"load", "open", "dump", "created", "emit", "emitTrigger"} =>
             job[s].tgt \in Project
       /\ pc[s] \in {"open", "dump", "emit"} => job[s].copy.state \in State

\* A manifest waiting in memory to be written is as backed as one on disk.
CopiesBacked ==
    \A s \in Session : Writing(s) => Backed(job[s].copy, job[s].tgt)

IInv == TypeOK /\ JobOK /\ StageBacked /\ CopiesBacked

-----------------------------------------------------------------------------
(* What a state change in memory preserves *)

LEMMA ConstantManifests ==
    /\ Absent \in Manifest /\ Torn \in Manifest /\ Fresh \in Manifest
    /\ NoJob \in Job
  BY DEF Absent, Torn, Fresh, Manifest, State, NoJob, Job

\* The transition table leads out of a state only to states whose demands the
\* source state or the precondition of the trigger already met.
LEMMA TransitionBacked ==
    ASSUME NEW p \in Project, manifest \in [Project -> Manifest],
           Backed(manifest[p], p),
           NEW latest \in LatestPolicy(p),
           NEW t \in Transitions,
           t[1] = manifest[p].state,
           PreconditionHolds(p, t[2], latest)
    PROVE  /\ [manifest[p] EXCEPT !.state = t[3]] \in Manifest
           /\ Backed([manifest[p] EXCEPT !.state = t[3]], p)
<1> DEFINE m == manifest[p]
<1>1. m \in Manifest /\ t[3] \in State /\ t[2] \in Trigger
  BY DEF Transitions, State, Trigger
<1>2. latest = "passed" => "passed" \in policy[p]
  BY DEF LatestPolicy
<1>3. [m EXCEPT !.state = t[3]] \in Manifest
  BY <1>1 DEF Manifest
<1>4. /\ [m EXCEPT !.state = t[3]].state = t[3]
      /\ [m EXCEPT !.state = t[3]].scope = m.scope
  BY <1>1 DEF Manifest
<1>5. t[3] \in AfterScope => m.scope
  BY DEF Transitions, PreconditionHolds, Backed, AfterScope, AfterEvidence, AfterWorld, AfterPolicy
<1>6. t[3] \in AfterEvidence => evidence[p] # "none"
  BY DEF Transitions, PreconditionHolds, Backed, AfterEvidence, AfterWorld, AfterPolicy
<1>7. t[3] \in AfterWorld => world[p]
  BY DEF Transitions, PreconditionHolds, Backed, AfterWorld, AfterPolicy
<1>8. t[3] \in AfterPolicy => "passed" \in policy[p]
  BY <1>2 DEF Transitions, PreconditionHolds, Backed, AfterPolicy
<1>9. QED
  BY <1>3, <1>4, <1>5, <1>6, <1>7, <1>8 DEF Backed

-----------------------------------------------------------------------------
(* Steps of one session that leave every manifest backed *)

\* The step leaves the engine store alone and writes only backed manifests.
FilesOK ==
    /\ manifest' \in [Project -> Manifest]
    /\ \A p \in Project : Backed(manifest'[p], p)
    /\ UNCHANGED <<evidence, world, policy>>

AuditTypes ==
    /\ audit \in [Project -> [at : State \cup {"absent"}, by : Trigger \cup {"none"}]]
    /\ gatesPassed \in [Project -> BOOLEAN]
    /\ lost \in [Project -> SUBSET {"file", "audit"}]

OperationPC == {"load", "open", "dump", "created", "emit", "emitTrigger"}

\* What the new locals of a session have to satisfy.
LocalOK(label, j) ==
    /\ label \in PC
    /\ j \in Job
    /\ label # "idle" => j.own \in Project
    /\ label \in OperationPC => j.tgt \in Project
    /\ label \in {"open", "dump", "emit"} => j.copy.state \in State
    /\ label \in {"open", "dump"} => Backed(j.copy, j.tgt)

LEMMA SessionStep ==
    ASSUME IInv, NEW s \in Session, NEW label, NEW j,
           LocalOK(label, j),
           pc' = [pc EXCEPT ![s] = label],
           job' = [job EXCEPT ![s] = j],
           FilesOK, AuditTypes'
    PROVE  IInv'
<1>1. pc \in [Session -> PC] /\ job \in [Session -> Job]
  BY DEF IInv, TypeOK
<1>2. \A t \in Session : /\ pc'[t] = IF t = s THEN label ELSE pc[t]
                         /\ job'[t] = IF t = s THEN j ELSE job[t]
  BY <1>1
<1>3. TypeOK'
  BY DEF IInv, TypeOK, LocalOK, AuditTypes, FilesOK
<1>4. JobOK'
  BY <1>2 DEF IInv, JobOK, LocalOK, OperationPC
<1>5. StageBacked'
  BY DEF StageBacked, Backed, FilesOK
<1>6. CopiesBacked'
  BY <1>2 DEF IInv, CopiesBacked, Writing, LocalOK, Backed, FilesOK
<1>7. QED
  BY <1>3, <1>4, <1>5, <1>6 DEF IInv

LEMMA AuditTypesNow == ASSUME IInv PROVE AuditTypes
  BY DEF IInv, TypeOK, AuditTypes

LEMMA AuditTypesKept ==
    ASSUME IInv, UNCHANGED <<audit, gatesPassed, lost>> PROVE AuditTypes'
  BY DEF IInv, TypeOK, AuditTypes

\* Leaving an operation keeps a running session on its project.
LEMMA LeaveStep ==
    ASSUME IInv, NEW s \in Session, pc[s] # "idle",
           NEW label \in {"idle", "auto", "segment", "llm"},
           Leave(s, label),
           FilesOK, AuditTypes'
    PROVE  IInv'
<1>1. job \in [Session -> Job] /\ job[s] \in Job /\ job[s].own \in Project
  BY DEF IInv, TypeOK, JobOK
<1>2. Rest(job[s]) \in Job /\ Rest(job[s]).own = job[s].own
  BY <1>1, ConstantManifests DEF Rest, NoJob, Job
<1>3. LocalOK("idle", NoJob)
  BY ConstantManifests DEF LocalOK, PC, OperationPC
<1>4. CASE label = "idle"
  BY <1>3, <1>4, SessionStep DEF Leave, Exit, Goto
<1>5. CASE label # "idle"
  <2>1. LocalOK(label, Rest(job[s]))
    BY <1>1, <1>2 DEF LocalOK, PC, OperationPC
  <2>2. /\ pc' = [pc EXCEPT ![s] = label]
        /\ job' = [job EXCEPT ![s] = Rest(job[s])]
    BY <1>5, <1>1 DEF Leave, Goto
  <2>3. QED
    BY <2>1, <2>2, SessionStep
<1>6. QED
  BY <1>4, <1>5

LEMMA ExitStep ==
    ASSUME IInv, NEW s \in Session, Exit(s),
           FilesOK, AuditTypes'
    PROVE  IInv'
<1>1. LocalOK("idle", NoJob)
  BY ConstantManifests DEF LocalOK, PC, OperationPC
<1>2. QED
  BY <1>1, SessionStep DEF Exit, Goto

LEMMA FilesUntouched ==
    ASSUME IInv, UNCHANGED <<manifest, evidence, world, policy>> PROVE FilesOK
  BY DEF IInv, TypeOK, StageBacked, FilesOK

LEMMA OneFileWritten ==
    ASSUME IInv, NEW p \in Project, NEW m \in Manifest, Backed(m, p),
           manifest' = [manifest EXCEPT ![p] = m],
           UNCHANGED <<evidence, world, policy>>
    PROVE  FilesOK
  BY DEF IInv, TypeOK, StageBacked, FilesOK

-----------------------------------------------------------------------------
(* The actions *)

LEMMA LocalType ==
    ASSUME IInv, NEW s \in Session
    PROVE  /\ job[s] \in Job
           /\ pc[s] \in PC
           /\ pc[s] # "idle" => job[s].own \in Project
           /\ pc[s] \in OperationPC => job[s].tgt \in Project
  BY DEF IInv, TypeOK, JobOK, OperationPC

LEMMA UserStepInv ==
    ASSUME IInv, NEW s \in Session, UserStep(s) PROVE IInv'
<1>1. AuditTypes' /\ FilesOK
  <2>1. UNCHANGED <<Files, Stores>>
    BY DEF UserStep, RunNew, Confirm, ResumeAtOnce, ResumeConfirmed, Resume, Decline
  <2>2. QED
    BY <2>1, AuditTypesKept, FilesUntouched DEF Files, Stores
<1>2. ASSUME NEW p \in Project, RunNew(s, p) PROVE IInv'
  <2> DEFINE j == [NoJob EXCEPT !.cmd = "new", !.own = p, !.tgt = p, !.op = "create",
                                !.caller = "start", !.copy = Fresh]
  <2>1. LocalOK("open", j)
    BY ConstantManifests DEF LocalOK, PC, NoJob, Job, Backed, Fresh, State, AfterScope,
       AfterEvidence, AfterWorld, AfterPolicy
  <2>2. QED
    BY <1>1, <1>2, <2>1, SessionStep DEF RunNew, Goto
<1>3. ASSUME NEW p \in Project, NEW action \in Answer \cap ConfirmedActions, Confirm(s, p, action)
      PROVE  IInv'
  <2> DEFINE j == [NoJob EXCEPT !.cmd = "resume", !.own = p, !.tgt = p,
                                !.answer = action]
  <2>1. LocalOK("confirm", j)
    BY <1>3, ConstantManifests, InputAssumption
    DEF LocalOK, PC, OperationPC, NoJob, Job, Confirm, Loadable
  <2>2. QED
    BY <1>1, <1>3, <2>1, SessionStep DEF Confirm, Goto
<1>4. ASSUME NEW p \in Project, NEW action, Resume(s, p, action)
      PROVE  IInv'
  <2>1. CASE Exit(s)
    BY <1>1, <2>1, ExitStep
  <2>2. CASE ~Exit(s)
    <3>1. PICK a \in GateActions :
            /\ Goto(s, "load")
            /\ job' = [job EXCEPT ![s] = [NoJob EXCEPT
                          !.cmd = "resume", !.own = p, !.tgt = p,
                          !.op = "transition", !.trigger = a[3],
                          !.actor = "user", !.caller = "start"]]
      BY <1>4, <2>2 DEF Resume
    <3>2. a[3] \in Trigger
      BY DEF GateActions, Trigger, Transitions
    <3>3. LocalOK("load", [NoJob EXCEPT
                          !.cmd = "resume", !.own = p, !.tgt = p,
                          !.op = "transition", !.trigger = a[3],
                          !.actor = "user", !.caller = "start"])
      BY <3>2, ConstantManifests DEF LocalOK, PC, NoJob, Job
    <3>4. QED
      BY <1>1, <3>1, <3>3, SessionStep DEF Goto
  <2>3. QED
    BY <2>1, <2>2
<1>5. ASSUME NEW p \in Project, NEW action \in Answer, ResumeAtOnce(s, p, action) PROVE IInv'
  BY <1>4, <1>5 DEF ResumeAtOnce
<1>6. ASSUME ResumeConfirmed(s) PROVE IInv'
  <2>1. job[s] \in Job /\ job[s].own \in Project
    BY <1>6, LocalType DEF ResumeConfirmed
  <2>2. QED
    BY <1>4, <1>6, <2>1 DEF ResumeConfirmed, Job
<1>7. ASSUME Decline(s) PROVE IInv'
  BY <1>1, <1>7, ExitStep DEF Decline
<1>8. QED
  BY <1>2, <1>3, <1>5, <1>6, <1>7 DEF UserStep

LEMMA AfterLabels ==
    ASSUME NEW j
    PROVE  /\ AfterSuccess(j) \in {"llm", "auto", "segment"}
           /\ AfterError(j) \in {"idle", "auto", "segment", "llm"}
           /\ AfterException(j) \in {"idle", "llm"}
  BY DEF AfterSuccess, AfterError, AfterException

\* The manifest an operation computes from a loaded one.
LEMMA LoadManifestInv ==
    ASSUME IInv, NEW s \in Session, LoadManifest(s) PROVE IInv'
<1> DEFINE j == job[s]
           m == manifest[j.tgt]
           Labels == {"idle", "auto", "segment", "llm"}
<1>1. AuditTypes' /\ FilesOK
  BY AuditTypesKept, FilesUntouched DEF LoadManifest, Files, Stores
<1>2. /\ j \in Job /\ j.tgt \in Project /\ j.own \in Project
      /\ m \in Manifest /\ Backed(m, j.tgt) /\ pc[s] # "idle"
  BY LocalType DEF LoadManifest, OperationPC, IInv, TypeOK, StageBacked
<1>3. ASSUME NEW label \in Labels, Leave(s, label) PROVE IInv'
  BY <1>1, <1>2, <1>3, LeaveStep
<1>4. ASSUME NEW c \in Manifest, c.state \in State, Backed(c, j.tgt), Goto(s, "open"),
             job' = [job EXCEPT ![s].copy = c]
      PROVE  IInv'
  <2>1. job' = [job EXCEPT ![s] = [j EXCEPT !.copy = c]]
    BY <1>4
  <2>2. LocalOK("open", [j EXCEPT !.copy = c])
    BY <1>2, <1>4 DEF LocalOK, PC, Job
  <2>3. QED
    BY <1>1, <1>4, <2>1, <2>2, SessionStep DEF Goto
<1>5. ASSUME m.state \in State, j.op = "transition",
             NEW latest \in LatestPolicy(j.tgt),
             CanTransition(m.state, j.trigger),
             PreconditionHolds(j.tgt, j.trigger, latest),
             Goto(s, "open"),
             NEW t \in Transitions, t[1] = m.state, t[2] = j.trigger,
             job' = [job EXCEPT ![s].copy = [m EXCEPT !.state = t[3]]]
      PROVE  IInv'
  <2>1. [m EXCEPT !.state = t[3]] \in Manifest /\ Backed([m EXCEPT !.state = t[3]], j.tgt)
    BY <1>2, <1>5, TransitionBacked DEF IInv, TypeOK
  <2>2. t[3] \in State
    BY DEF Transitions, State
  <2>3. [m EXCEPT !.state = t[3]].state \in State
    BY <1>2, <2>2 DEF Manifest
  <2>4. QED
    BY <1>4, <1>5, <2>1, <2>3
<1>6. ASSUME m.state \in State, Goto(s, "open"), job' = [job EXCEPT ![s].copy = LockScope(m)]
      PROVE  IInv'
  <2>1. LockScope(m) \in Manifest /\ LockScope(m).state \in State /\ Backed(LockScope(m), j.tgt)
    BY <1>2, <1>6 DEF LockScope, Manifest, Backed
  <2>2. QED
    BY <1>4, <1>6, <2>1
<1>7. ASSUME NEW r \in Run, m.state \in State, Goto(s, "open"),
             job' = [job EXCEPT ![s].copy = AddRun(m, r)]
      PROVE  IInv'
  <2>1. AddRun(m, r) \in Manifest /\ AddRun(m, r).state \in State /\ Backed(AddRun(m, r), j.tgt)
    BY <1>2, <1>7 DEF AddRun, Manifest, Backed
  <2>2. QED
    BY <1>4, <1>7, <2>1
<1>8. QED
  BY <1>3, <1>5, <1>6, <1>7, AfterLabels DEF LoadManifest

LEMMA WriteInv ==
    ASSUME IInv, NEW s \in Session,
           OpenManifest(s) \/ DumpManifest(s) \/ DumpRaises(s)
    PROVE  IInv'
<1> DEFINE j == job[s]
           p == j.tgt
<1>1. /\ j \in Job /\ p \in Project /\ j.own \in Project /\ pc[s] # "idle"
      /\ pc[s] \in {"open", "dump"} /\ Backed(j.copy, p) /\ j.copy \in Manifest
      /\ j.copy.state \in State
      /\ pc \in [Session -> PC] /\ job \in [Session -> Job]
  BY LocalType DEF OpenManifest, DumpManifest, DumpRaises, OperationPC, IInv, CopiesBacked,
     JobOK, Writing, Job, TypeOK
<1>2. Backed(Torn, p)
  BY DEF Backed, Torn, AfterScope, AfterEvidence, AfterWorld, AfterPolicy
<1>3. FilesOK
  <2>1. UNCHANGED <<evidence, world, policy>>
    BY DEF OpenManifest, DumpManifest, DumpRaises, Stores
  <2>2. CASE manifest' = [manifest EXCEPT ![p] = Torn]
    BY <1>1, <1>2, <2>1, <2>2, OneFileWritten, ConstantManifests
  <2>3. CASE manifest' = [manifest EXCEPT ![p] = j.copy]
    BY <1>1, <2>1, <2>3, OneFileWritten
  <2>4. CASE UNCHANGED manifest
    BY <2>1, <2>4, FilesUntouched
  <2>5. QED
    BY <2>2, <2>3, <2>4 DEF OpenManifest, DumpManifest, DumpRaises, Files
<1>4. AuditTypes'
  <2>1. UNCHANGED <<audit, gatesPassed>>
    BY DEF OpenManifest, DumpManifest, DumpRaises, Stores, Files
  <2>2. lost' \in [Project -> SUBSET {"file", "audit"}]
    BY DEF IInv, TypeOK, OpenManifest, DumpManifest, DumpRaises, Files
  <2>3. QED
    BY <2>1, <2>2 DEF IInv, TypeOK, AuditTypes
<1>5. ASSUME NEW label \in PC \ {"idle", "open"}, Goto(s, label), UNCHANGED job
      PROVE  IInv'
  <2>1. LocalOK(label, j)
    BY <1>1, <1>5 DEF LocalOK
  <2>2. job' = [job EXCEPT ![s] = j]
    BY <1>1, <1>5
  <2>3. QED
    BY <1>3, <1>4, <1>5, <2>1, <2>2, SessionStep DEF Goto
<1>6. ASSUME NEW label \in {"idle", "auto", "segment", "llm"}, Leave(s, label) PROVE IInv'
  BY <1>1, <1>3, <1>4, <1>6, LeaveStep
<1>7. CASE OpenManifest(s)
  BY <1>5, <1>7 DEF OpenManifest, PC
<1>8. CASE DumpManifest(s)
  <2> DEFINE next == CASE j.op = "create" -> "created"
                       [] j.op = "transition" -> "emit"
                       [] OTHER -> AfterSuccess(j)
  <2>1. next \in {"created", "emit", "llm", "auto", "segment"}
    BY AfterLabels
  <2>2. IF next \in {"created", "emit"} THEN Goto(s, next) /\ UNCHANGED job ELSE Leave(s, next)
    BY <1>8 DEF DumpManifest
  <2> HIDE DEF next
  <2>3. QED
    BY <1>5, <1>6, <2>1, <2>2 DEF PC
<1>9. CASE DumpRaises(s)
  BY <1>6, <1>9, AfterLabels DEF DumpRaises
<1>10. QED
  BY <1>7, <1>8, <1>9

LEMMA EmitInv ==
    ASSUME IInv, NEW s \in Session,
           EmitCreated(s) \/ EmitTransitioned(s) \/ EmitRaises(s) \/ EmitTrigger(s)
    PROVE  IInv'
<1> DEFINE j == job[s]
<1>1. /\ j \in Job /\ j.tgt \in Project /\ j.own \in Project /\ pc[s] # "idle"
      /\ pc \in [Session -> PC] /\ job \in [Session -> Job]
  BY LocalType DEF EmitCreated, EmitTransitioned, EmitRaises, EmitTrigger, OperationPC, IInv, TypeOK
<1>2. FilesOK
  BY FilesUntouched DEF EmitCreated, EmitTransitioned, EmitRaises, EmitTrigger, Stores, Files
<1>3. CASE EmitCreated(s)
  <2>1. AuditTypes'
    BY <1>3 DEF EmitCreated, IInv, TypeOK, AuditTypes, State, Stores
  <2> DEFINE k == [j EXCEPT !.op = "transition", !.trigger = "project_created", !.actor = "system"]
  <2>2. "project_created" \in Trigger
    BY DEF Trigger, Transitions
  <2>3. LocalOK("load", k)
    BY <1>1, <2>2 DEF LocalOK, PC, Job
  <2>4. job' = [job EXCEPT ![s] = k]
    BY <1>1, <1>3 DEF EmitCreated
  <2>5. QED
    BY <1>2, <1>3, <2>1, <2>3, <2>4, SessionStep DEF EmitCreated, Goto
<1>4. CASE EmitTransitioned(s)
  <2>1. AuditTypes'
    <3>1. j.copy.state \in State
      BY <1>4 DEF EmitTransitioned, IInv, JobOK
    <3>2. QED
      BY <1>4, <3>1 DEF EmitTransitioned, IInv, TypeOK, AuditTypes, Stores
  <2>2. LocalOK("emitTrigger", j)
    BY <1>1 DEF LocalOK, PC
  <2>3. job' = [job EXCEPT ![s] = j]
    BY <1>1, <1>4 DEF EmitTransitioned
  <2>4. QED
    BY <1>2, <1>4, <2>1, <2>2, <2>3, SessionStep DEF EmitTransitioned, Goto
<1>5. CASE EmitRaises(s)
  <2>1. AuditTypes'
    BY <1>1, <1>5 DEF EmitRaises, IInv, TypeOK, AuditTypes, Stores
  <2>2. QED
    BY <1>1, <1>2, <1>5, <2>1, LeaveStep, AfterLabels DEF EmitRaises
<1>6. CASE EmitTrigger(s)
  <2>1. AuditTypes'
    <3>1. j.trigger \in Trigger \cup {"none"}
      BY <1>1 DEF Job
    <3>2. audit' = [audit EXCEPT ![j.tgt].by = j.trigger]
      BY <1>6 DEF EmitTrigger
    <3>3. UNCHANGED gatesPassed /\ lost' = [lost EXCEPT ![j.tgt] = @ \ {"audit"}]
      BY <1>6 DEF EmitTrigger, Stores
    <3>4. lost' \in [Project -> SUBSET {"file", "audit"}]
      BY <3>3, AuditTypesNow DEF AuditTypes
    <3>5. QED
      BY <3>1, <3>2, <3>3, <3>4, AuditTypesNow DEF AuditTypes
  <2>2. QED
    BY <1>1, <1>2, <1>6, <2>1, LeaveStep, AfterLabels DEF EmitTrigger
<1>7. QED
  BY <1>3, <1>4, <1>5, <1>6

LEMMA SegmentInv ==
    ASSUME IInv, NEW s \in Session, AutoAdvance(s) \/ EnterSegment(s) PROVE IInv'
<1> DEFINE j == job[s]
<1>1. /\ j \in Job /\ j.own \in Project /\ pc[s] # "idle"
      /\ pc \in [Session -> PC] /\ job \in [Session -> Job]
  BY LocalType DEF AutoAdvance, EnterSegment, IInv, TypeOK
<1>2. FilesOK /\ AuditTypes'
  BY FilesUntouched, AuditTypesKept DEF AutoAdvance, EnterSegment, Stores, Files
<1>3. ASSUME NEW label \in {"segment", "llm"}, Goto(s, label), UNCHANGED job PROVE IInv'
  <2>1. LocalOK(label, j)
    BY <1>1, <1>3 DEF LocalOK, PC, OperationPC
  <2>2. job' = [job EXCEPT ![s] = j]
    BY <1>1, <1>3
  <2>3. QED
    BY <1>2, <1>3, <2>1, <2>2, SessionStep DEF Goto
<1>4. ASSUME Goto(s, "load"),
             job' = [job EXCEPT ![s].tgt = job[s].own, ![s].op = "transition",
                       ![s].trigger = "auto", ![s].actor = "system", ![s].caller = "auto"]
      PROVE  IInv'
  <2> DEFINE k == [j EXCEPT !.tgt = j.own, !.op = "transition", !.trigger = "auto",
                            !.actor = "system", !.caller = "auto"]
  <2>1. "auto" \in Trigger
    BY DEF Trigger, Transitions
  <2>2. LocalOK("load", k)
    BY <1>1, <2>1 DEF LocalOK, PC, Job
  <2>3. job' = [job EXCEPT ![s] = k]
    BY <1>1, <1>4
  <2>4. QED
    BY <1>2, <1>4, <2>2, <2>3, SessionStep DEF Goto
<1>5. CASE Exit(s)
  BY <1>2, <1>5, ExitStep
<1>6. QED
  BY <1>3, <1>4, <1>5 DEF AutoAdvance, EnterSegment

\* The engine store only grows, so what was backed stays backed.
LEMMA StoreInv ==
    ASSUME IInv, UNCHANGED <<manifest, pc, job, audit, lost>>,
           evidence' \in [Project -> {"none", "empty", "records"}],
           world' \in [Project -> BOOLEAN],
           policy' \in [Project -> SUBSET PolicyResult],
           gatesPassed' \in [Project -> BOOLEAN],
           \A p \in Project : /\ evidence[p] # "none" => evidence'[p] # "none"
                              /\ world[p] => world'[p]
                              /\ policy[p] \subseteq policy'[p]
    PROVE  IInv'
<1>1. TypeOK'
  BY DEF IInv, TypeOK
<1>2. JobOK'
  BY DEF IInv, JobOK
<1>3. StageBacked'
  BY DEF IInv, StageBacked, Backed
<1>4. CopiesBacked'
  BY DEF IInv, CopiesBacked, Backed, Writing, JobOK
<1>5. QED
  BY <1>1, <1>2, <1>3, <1>4 DEF IInv

\* What the session holds when the model's tool call has been admitted.
LEMMA ToolJobType ==
    ASSUME NEW j \in Job, NEW p \in Project, NEW trigger \in Trigger \cup {"none"},
           NEW tool \in {"transition", "lock_scope", "add_run"}
    PROVE  LET k == ToolJob(j, tool, p, trigger)
           IN  k \in Job /\ k.own = j.own /\ k.tgt = p
<1>1. j.cmd \in {"none", "new", "resume"} /\ j.own \in Project \cup {NoProject}
  BY DEF Job
<1>2. QED
  BY <1>1, ConstantManifests DEF ToolJob, Job

LEMMA ModelStepInv ==
    ASSUME IInv, NEW s \in Session, ModelStep(s) PROVE IInv'
<1>1. /\ job[s] \in Job /\ pc[s] = "llm" /\ job[s].own \in Project
      /\ pc \in [Session -> PC] /\ job \in [Session -> Job]
  BY LocalType DEF ModelStep, CallManifestTool, CollectEvidence, BuildSnapshot, CheckGates,
     EndSegment, IInv, TypeOK
<1>2. ASSUME NEW tool \in {"transition", "lock_scope", "add_run"}, NEW p \in Project,
             NEW trigger \in Trigger \cup {"none"}, CallManifestTool(s, tool, p, trigger)
      PROVE  IInv'
  <2> DEFINE k == ToolJob(job[s], tool, p, trigger)
  <2>1. k \in Job /\ k.own = job[s].own /\ k.tgt = p
    BY <1>1, ToolJobType
  <2>2. LocalOK("load", k)
    BY <1>1, <2>1 DEF LocalOK, PC
  <2>3. job' = [job EXCEPT ![s] = k]
    BY <1>1, <1>2 DEF CallManifestTool
  <2>4. FilesOK /\ AuditTypes'
    BY <1>2, FilesUntouched, AuditTypesKept DEF CallManifestTool, Stores, Files
  <2> HIDE DEF k
  <2>5. QED
    BY <1>2, <2>2, <2>3, <2>4, SessionStep DEF CallManifestTool, Goto
<1>3. ASSUME NEW found \in BOOLEAN, CollectEvidence(s, found) PROVE IInv'
  BY <1>3, StoreInv DEF CollectEvidence, Files, IInv, TypeOK
<1>4. ASSUME BuildSnapshot(s) PROVE IInv'
  BY <1>4, StoreInv DEF BuildSnapshot, Files, IInv, TypeOK
<1>5. ASSUME CheckGates(s) PROVE IInv'
  BY <1>5, StoreInv DEF CheckGates, Files, IInv, TypeOK
<1>6. ASSUME EndSegment(s) PROVE IInv'
  BY <1>6, ExitStep, FilesUntouched, AuditTypesKept DEF EndSegment, Files, Stores
<1>7. QED
  BY <1>2, <1>3, <1>4, <1>5, <1>6, InputAssumption DEF ModelStep

LEMMA CrashInv ==
    ASSUME IInv, NEW s \in Session, Crash(s) PROVE IInv'
<1>1. FilesOK
  BY FilesUntouched DEF Crash, Stores
<1>2. AuditTypes'
  BY DEF Crash, Stores, IInv, TypeOK, AuditTypes
<1>3. QED
  BY <1>1, <1>2, ExitStep DEF Crash

-----------------------------------------------------------------------------
(* The theorems *)

LEMMA InitInv == Init => IInv
<1> SUFFICES ASSUME Init PROVE IInv
  OBVIOUS
<1>1. TypeOK
  BY ConstantManifests DEF Init, TypeOK, PC
<1>2. JobOK /\ CopiesBacked
  BY DEF Init, JobOK, CopiesBacked, Writing
<1>3. StageBacked
  BY DEF Init, StageBacked, Backed, Absent, AfterScope, AfterEvidence, AfterWorld, AfterPolicy
<1>4. QED
  BY <1>1, <1>2, <1>3 DEF IInv

LEMMA NextInv == IInv /\ [Next]_vars => IInv'
<1> SUFFICES ASSUME IInv, [Next]_vars PROVE IInv'
  OBVIOUS
<1>1. ASSUME NEW s \in Session, Advance(s) PROVE IInv'
  BY <1>1, LoadManifestInv, WriteInv, EmitInv, SegmentInv DEF Advance
<1>2. ASSUME NEW p \in Project, NEW result \in PolicyResult, RecordPolicy(p, result) PROVE IInv'
  BY <1>2, StoreInv DEF RecordPolicy, Files, IInv, TypeOK
<1>3. CASE UNCHANGED vars
  BY <1>3 DEF vars, IInv, TypeOK, JobOK, StageBacked, CopiesBacked, Backed, Writing
<1>4. QED
  BY <1>1, <1>2, <1>3, UserStepInv, ModelStepInv, CrashInv DEF Next

\* Every reachable state is well typed, for any projects, sessions and runs.
THEOREM TypeCorrect == Spec => []TypeOK
<1>1. IInv => TypeOK
  BY DEF IInv
<1>2. QED
  BY InitInv, NextInv, <1>1, PTL DEF Spec

\* No interleaving of sessions, lost update or crash puts a project into a
\* stage whose scope, evidence, snapshot or policy record is missing.
THEOREM StagesAreBacked == Spec => []StageBacked
<1>1. IInv => StageBacked
  BY DEF IInv
<1>2. QED
  BY InitInv, NextInv, <1>1, PTL DEF Spec

-----------------------------------------------------------------------------
(* One process at a time.  Several lose each other's updates: what a session *)
(* computed is written whatever is on disk by then.                          *)

OneSession == \A s, t \in Session : s = t

\* An entry of the audit says that its project has come to this state.
Matches(a, state) ==
    /\ a.at = state
    /\ a.by # "none" => Target(a.by) = state
    /\ a.by = "none" => state = "requested"

\* The place a session has reached tells how far files and audit have followed its call.
Fits(label, j, m, a, l) ==
    /\ label = "open" /\ j.op \notin {"create", "transition"} => m.state = j.copy.state
    /\ label \in {"open", "dump"} /\ j.op = "create" => j.copy = Fresh
    /\ label \in {"open", "dump"} /\ j.op = "transition" =>
          j.trigger \in Trigger /\ j.copy.state = Target(j.trigger)
    /\ label = "dump" => m = Torn
    /\ label = "dump" /\ j.op \notin {"create", "transition"} /\ l = {} => Matches(a, j.copy.state)
    /\ label = "created" => m.state = "requested"
    /\ label \in {"emit", "emitTrigger"} =>
          j.trigger \in Trigger /\ j.copy.state = Target(j.trigger) /\ m.state = j.copy.state
    /\ label = "emitTrigger" => a.at = j.copy.state

JobsFit ==
    \A s \in Session :
       Fits(pc[s], job[s], manifest[job[s].tgt], audit[job[s].tgt], lost[job[s].tgt])

OneInv == IInv /\ JobsFit /\ AuditMatchesManifest

Busy == {"dump", "created", "emit", "emitTrigger"}

LEMMA Triggers ==
    ASSUME NEW t \in Transitions
    PROVE  /\ t[2] \in Trigger /\ t[1] \in State /\ t[3] \in State
           /\ Source(t[2]) = t[1] /\ Target(t[2]) = t[3]
<1>1. t[2] \in Trigger /\ t[1] \in State /\ t[3] \in State
  BY DEF Trigger, Transitions, State
<1>2. \A u \in Transitions : u[2] = t[2] => u[1] = t[1] /\ u[3] = t[3]
  BY DEF Transitions
<1>3. Source(t[2]) = t[1]
  BY <1>1, <1>2 DEF Source
<1>4. Target(t[2]) = t[3]
  BY <1>1, <1>2 DEF Target
<1>5. QED
  BY <1>1, <1>3, <1>4

LEMMA QuietStep ==
    ASSUME OneSession, OneInv, IInv', NEW s \in Session, UNCHANGED Files,
           pc[s] \notin Busy, NEW label, NEW j,
           pc' = [pc EXCEPT ![s] = label],
           job' = [job EXCEPT ![s] = j],
           Fits(label, j, manifest[j.tgt], audit[j.tgt], lost[j.tgt])
    PROVE  OneInv'
<1>1. pc \in [Session -> PC] /\ job \in [Session -> Job] /\ Session = {s}
  BY DEF OneInv, IInv, TypeOK, OneSession
<1>2. pc'[s] = label /\ job'[s] = j /\ UNCHANGED <<manifest, audit, lost>>
  BY <1>1 DEF Files
<1>3. JobsFit'
  BY <1>1, <1>2 DEF JobsFit
<1>4. \A p \in Project : Quiet(p)
  BY <1>1 DEF Quiet, Busy
<1>5. AuditMatchesManifest'
  BY <1>2, <1>4 DEF OneInv, AuditMatchesManifest
<1>6. QED
  BY <1>3, <1>5 DEF OneInv

LEMMA FileStep ==
    ASSUME OneSession, OneInv, IInv', NEW s \in Session,
           NEW p \in Project, p = job[s].tgt,
           \A q \in Project \ {p} : /\ manifest'[q] = manifest[q]
                                    /\ audit'[q] = audit[q] /\ lost'[q] = lost[q],
           NEW label, NEW j,
           pc' = [pc EXCEPT ![s] = label],
           job' = [job EXCEPT ![s] = j],
           label \in OperationPC => j.tgt = p,
           Fits(label, j, manifest'[p], audit'[p], lost'[p]),
           manifest'[p].state # "absent",
           label \notin Busy /\ lost'[p] = {} => Matches(audit'[p], manifest'[p].state)
    PROVE  OneInv'
<1>1. pc \in [Session -> PC] /\ job \in [Session -> Job] /\ Session = {s}
  BY DEF OneInv, IInv, TypeOK, OneSession
<1>2. pc'[s] = label /\ job'[s] = j
  BY <1>1
<1>3. JobsFit'
  BY <1>1, <1>2 DEF JobsFit, Fits, OperationPC
<1>4. \A q \in Project \ {p} : Quiet(q)
  BY <1>1 DEF Quiet
<1>5. AuditMatchesManifest'
  <2> SUFFICES ASSUME NEW q \in Project, Quiet(q)', lost'[q] = {}, manifest'[q].state # "absent"
               PROVE  Matches(audit'[q], manifest'[q].state)
    BY DEF AuditMatchesManifest, Matches
  <2>1. CASE q = p
    BY <1>1, <1>2, <2>1 DEF Quiet, Busy, OperationPC
  <2>2. CASE q # p
    BY <1>4, <2>2 DEF OneInv, AuditMatchesManifest, Matches
  <2>3. QED
    BY <2>1, <2>2
<1>6. QED
  BY <1>3, <1>5 DEF OneInv

LEMMA ElseFits ==
    ASSUME NEW label, label \notin Busy \cup {"open"}, NEW j, NEW m, NEW a, NEW l
    PROVE  Fits(label, j, m, a, l)
  BY DEF Fits, Busy

LEMMA TargetState == ASSUME NEW trigger \in Trigger
                     PROVE  Target(trigger) \in State /\ trigger # "none"
  BY Triggers DEF Trigger, Transitions

\* Where a session stays where it is and no file of a project changes.
LEMMA RestStep == ASSUME OneInv, IInv', UNCHANGED <<Files, pc, job>> PROVE OneInv'
<1>1. JobsFit'
  BY DEF OneInv, JobsFit, Files
<1>2. AuditMatchesManifest'
  BY DEF OneInv, AuditMatchesManifest, Quiet, Files
<1>3. QED
  BY <1>1, <1>2 DEF OneInv

\* A session that is in no call goes on, or an operation is given up before it has written.
LEMMA QuietLeave ==
    ASSUME OneSession, OneInv, IInv', NEW s \in Session, UNCHANGED Files, pc[s] \notin Busy,
           NEW label \in {"idle", "auto", "segment", "llm"}, Leave(s, label)
    PROVE  OneInv'
<1>1. label \notin Busy \cup {"open"} /\ "idle" \notin Busy \cup {"open"}
  BY DEF Busy
<1>2. CASE label = "idle"
  BY <1>1, <1>2, ElseFits, QuietStep DEF Leave, Exit, Goto
<1>3. CASE label # "idle"
  <2>1. pc' = [pc EXCEPT ![s] = label] /\ job' = [job EXCEPT ![s] = Rest(job[s])]
    BY <1>3 DEF Leave, Goto
  <2>2. QED
    BY <1>1, <2>1, ElseFits, QuietStep
<1>4. QED
  BY <1>2, <1>3

LEMMA QuietGoto ==
    ASSUME OneSession, OneInv, IInv', NEW s \in Session, UNCHANGED Files, pc[s] \notin Busy,
           NEW label \in {"idle", "confirm", "load", "segment", "llm"}, Goto(s, label),
           NEW j, job' = [job EXCEPT ![s] = j]
    PROVE  OneInv'
<1>1. label \notin Busy \cup {"open"}
  BY DEF Busy
<1>2. QED
  BY <1>1, ElseFits, QuietStep DEF Goto

LEMMA UserStepOne ==
    ASSUME OneSession, OneInv, IInv', NEW s \in Session, UserStep(s) PROVE OneInv'
<1>1. UNCHANGED Files /\ pc[s] \notin Busy
  BY DEF UserStep, RunNew, Confirm, ResumeAtOnce, ResumeConfirmed, Resume, Decline, Busy
<1>2. ASSUME NEW p \in Project, RunNew(s, p) PROVE OneInv'
  <2> DEFINE j == [NoJob EXCEPT !.cmd = "new", !.own = p, !.tgt = p, !.op = "create",
                                !.caller = "start", !.copy = Fresh]
  <2>1. j.tgt = p /\ j.op = "create" /\ j.copy = Fresh
    BY DEF NoJob
  <2>2. Fits("open", j, manifest[p], audit[p], lost[p])
    BY <2>1 DEF Fits
  <2>3. pc' = [pc EXCEPT ![s] = "open"] /\ job' = [job EXCEPT ![s] = j]
    BY <1>2 DEF RunNew, Goto
  <2> HIDE DEF j
  <2>4. QED
    BY <1>1, <2>1, <2>2, <2>3, QuietStep
<1>3. CASE Exit(s)
  BY <1>1, <1>3, QuietGoto DEF Exit
<1>4. ASSUME NEW p, NEW action, Resume(s, p, action) PROVE OneInv'
  BY <1>1, <1>3, <1>4, QuietGoto DEF Resume
<1>5. ASSUME NEW p \in Project, NEW action, Confirm(s, p, action) PROVE OneInv'
  BY <1>1, <1>5, QuietGoto DEF Confirm
<1>6. QED
  BY <1>2, <1>3, <1>4, <1>5 DEF UserStep, ResumeAtOnce, ResumeConfirmed, Decline

LEMMA LoadOne ==
    ASSUME OneSession, OneInv, IInv', NEW s \in Session, LoadManifest(s) PROVE OneInv'
<1> DEFINE j == job[s]
           m == manifest[j.tgt]
<1>1. /\ UNCHANGED Files /\ pc[s] \notin Busy
      /\ j \in Job /\ j.tgt \in Project /\ m \in Manifest /\ job \in [Session -> Job]
  BY LocalType DEF LoadManifest, Busy, OneInv, IInv, TypeOK, OperationPC
<1>2. ASSUME NEW label \in {"idle", "auto", "segment", "llm"}, Leave(s, label) PROVE OneInv'
  BY <1>1, <1>2, QuietLeave
<1>3. ASSUME NEW c \in Manifest, j.op \in {"transition", "lock_scope", "add_run"},
             Goto(s, "open"), job' = [job EXCEPT ![s].copy = c],
             j.op # "transition" => m.state = c.state,
             j.op = "transition" => j.trigger \in Trigger /\ c.state = Target(j.trigger)
      PROVE  OneInv'
  <2> DEFINE k == [j EXCEPT !.copy = c]
  <2>1. k.copy = c /\ k.op = j.op /\ k.trigger = j.trigger /\ k.tgt = j.tgt
    BY <1>1 DEF Job
  <2>2. Fits("open", k, m, audit[j.tgt], lost[j.tgt])
    BY <1>3, <2>1 DEF Fits
  <2>3. pc' = [pc EXCEPT ![s] = "open"] /\ job' = [job EXCEPT ![s] = k]
    BY <1>1, <1>3 DEF Goto
  <2> HIDE DEF k
  <2>4. QED
    BY <1>1, <2>1, <2>2, <2>3, QuietStep
<1>4. ASSUME j.op = "transition", Goto(s, "open"),
             NEW t \in Transitions, t[1] = m.state, t[2] = j.trigger,
             job' = [job EXCEPT ![s].copy = [m EXCEPT !.state = t[3]]]
      PROVE  OneInv'
  <2> DEFINE c == [m EXCEPT !.state = t[3]]
  <2>1. Source(j.trigger) = m.state /\ Target(j.trigger) = t[3] /\ t[3] \in State /\ j.trigger \in Trigger
    BY <1>4, Triggers
  <2>2. c \in Manifest /\ c.state = t[3]
    BY <1>1, <2>1 DEF Manifest
  <2>3. QED
    BY <1>3, <1>4, <2>1, <2>2
<1>5. ASSUME j.op = "lock_scope", Goto(s, "open"), job' = [job EXCEPT ![s].copy = LockScope(m)]
      PROVE  OneInv'
  <2>1. LockScope(m) \in Manifest /\ m.state = LockScope(m).state
    BY <1>1 DEF LockScope, Manifest
  <2>2. QED
    BY <1>3, <1>5, <2>1
<1>6. ASSUME NEW r \in Run, j.op = "add_run", Goto(s, "open"), job' = [job EXCEPT ![s].copy = AddRun(m, r)]
      PROVE  OneInv'
  <2>1. AddRun(m, r) \in Manifest /\ m.state = AddRun(m, r).state
    BY <1>1 DEF AddRun, Manifest
  <2>2. QED
    BY <1>3, <1>6, <2>1
<1>7. QED
  BY <1>2, <1>4, <1>5, <1>6, AfterLabels DEF LoadManifest

\* What is known of a session within a call.
LEMMA Within ==
    ASSUME OneInv, NEW s \in Session, pc[s] \in OperationPC
    PROVE  LET j == job[s]
               p == j.tgt
           IN  /\ j \in Job /\ p \in Project /\ p # NoProject /\ job \in [Session -> Job]
               /\ manifest \in [Project -> Manifest]
               /\ audit \in [Project -> [at : State \cup {"absent"}, by : Trigger \cup {"none"}]]
               /\ lost \in [Project -> SUBSET {"file", "audit"}]
               /\ j.copy \in Manifest
               /\ pc[s] \in {"open", "dump", "emit"} => j.copy.state \in State
               /\ Fits(pc[s], j, manifest[p], audit[p], lost[p])
<1>1. pc[s] # "idle"
  BY DEF OperationPC
<1>2. job[s] \in Job /\ job[s].tgt \in Project
  BY LocalType DEF OneInv
<1>3. QED
  BY <1>1, <1>2, NoProjectAssumption DEF OneInv, IInv, TypeOK, JobOK, JobsFit, Job

\* Leaving a call whose last step was about the files of its project.
LEMMA FileLeave ==
    ASSUME OneSession, OneInv, IInv', NEW s \in Session, NEW p \in Project, p = job[s].tgt,
           \A q \in Project \ {p} : /\ manifest'[q] = manifest[q]
                                    /\ audit'[q] = audit[q] /\ lost'[q] = lost[q],
           NEW label \in {"idle", "auto", "segment", "llm"}, Leave(s, label),
           manifest'[p].state # "absent",
           lost'[p] = {} => Matches(audit'[p], manifest'[p].state)
    PROVE  OneInv'
<1>1. label \notin Busy \cup {"open"} \cup OperationPC
  BY DEF Busy, OperationPC
<1>2. PICK j : job' = [job EXCEPT ![s] = j] /\ pc' = [pc EXCEPT ![s] = label]
  BY DEF Leave, Exit, Goto
<1>3. Fits(label, j, manifest'[p], audit'[p], lost'[p])
  BY <1>1, ElseFits
<1>4. QED
  BY <1>1, <1>2, <1>3, FileStep

LEMMA OpenOne ==
    ASSUME OneSession, OneInv, IInv', NEW s \in Session, OpenManifest(s) PROVE OneInv'
<1> DEFINE j == job[s]
           p == j.tgt
<1>1. pc[s] = "open" /\ pc[s] \in OperationPC
  BY DEF OpenManifest, OperationPC
<1>2. /\ j \in Job /\ p \in Project /\ j.copy \in Manifest /\ j.copy.state \in State
      /\ manifest \in [Project -> Manifest] /\ job \in [Session -> Job]
      /\ Fits("open", j, manifest[p], audit[p], lost[p])
  BY <1>1, Within
<1>3. /\ manifest' = [manifest EXCEPT ![p] = Torn] /\ pc' = [pc EXCEPT ![s] = "dump"]
      /\ job' = [job EXCEPT ![s] = j] /\ UNCHANGED <<audit, lost>>
  BY <1>2 DEF OpenManifest, Goto
<1>4. ASSUME j.op \notin {"create", "transition"}, lost[p] = {}
      PROVE  Matches(audit[p], j.copy.state)
  <2>1. manifest[p].state = j.copy.state
    BY <1>2, <1>4 DEF Fits
  <2>2. Quiet(p)
    BY <1>1 DEF Quiet, OneSession
  <2>3. manifest[p].state # "absent"
    BY <1>2, <2>1 DEF State
  <2>4. QED
    BY <1>2, <1>4, <2>1, <2>2, <2>3 DEF OneInv, AuditMatchesManifest, Matches
<1>5. Fits("dump", j, Torn, audit[p], lost[p])
  BY <1>2, <1>4 DEF Fits
<1>6. /\ manifest'[p] = Torn /\ Torn.state # "absent" /\ "dump" \in Busy
      /\ \A q \in Project \ {p} : manifest'[q] = manifest[q]
  BY <1>2, <1>3 DEF Torn, Busy
<1>7. QED
  BY <1>2, <1>3, <1>5, <1>6, FileStep

LEMMA DumpOne ==
    ASSUME OneSession, OneInv, IInv', NEW s \in Session, DumpManifest(s) PROVE OneInv'
<1> DEFINE j == job[s]
           p == j.tgt
<1>1. pc[s] = "dump" /\ pc[s] \in OperationPC
  BY DEF DumpManifest, OperationPC
<1>2. /\ j \in Job /\ p \in Project /\ j.copy \in Manifest /\ j.copy.state \in State
      /\ manifest \in [Project -> Manifest] /\ job \in [Session -> Job]
      /\ Fits("dump", j, manifest[p], audit[p], lost[p])
  BY <1>1, Within
<1>3. ~Loadable(p)
  BY <1>2 DEF Fits, Loadable, Torn, State
<1>4. manifest' = [manifest EXCEPT ![p] = j.copy] /\ UNCHANGED <<lost, audit>>
  BY <1>3 DEF DumpManifest
<1>5. /\ manifest'[p] = j.copy /\ j.copy.state # "absent"
      /\ \A q \in Project \ {p} : manifest'[q] = manifest[q]
  BY <1>2, <1>4 DEF State
<1>6. ASSUME NEW label \in {"created", "emit"}, Goto(s, label), UNCHANGED job,
             Fits(label, j, j.copy, audit[p], lost[p])
      PROVE  OneInv'
  <2>1. label \in Busy /\ job' = [job EXCEPT ![s] = j]
    BY <1>2, <1>6 DEF Busy
  <2>2. QED
    BY <1>2, <1>4, <1>5, <1>6, <2>1, FileStep DEF Goto
<1>7. CASE j.op = "create"
  <2>1. Fits("created", j, j.copy, audit[p], lost[p])
    BY <1>2, <1>7 DEF Fits, Fresh
  <2>2. QED
    BY <1>6, <1>7, <2>1 DEF DumpManifest
<1>8. CASE j.op = "transition"
  <2>1. Fits("emit", j, j.copy, audit[p], lost[p])
    BY <1>2, <1>8 DEF Fits
  <2>2. QED
    BY <1>6, <1>8, <2>1 DEF DumpManifest
<1>9. CASE j.op \notin {"create", "transition"}
  <2>1. Leave(s, AfterSuccess(j)) /\ AfterSuccess(j) \in {"idle", "auto", "segment", "llm"}
    BY <1>9, AfterLabels DEF DumpManifest
  <2>2. lost[p] = {} => Matches(audit[p], j.copy.state)
    BY <1>2, <1>9 DEF Fits
  <2>3. QED
    BY <1>2, <1>4, <1>5, <2>1, <2>2, FileLeave
<1>10. QED
  BY <1>7, <1>8, <1>9

LEMMA EmitOne ==
    ASSUME OneSession, OneInv, IInv', NEW s \in Session,
           EmitCreated(s) \/ EmitTransitioned(s) \/ EmitTrigger(s)
    PROVE  OneInv'
<1> DEFINE j == job[s]
           p == j.tgt
<1>1. pc[s] \in {"created", "emit", "emitTrigger"} /\ pc[s] \in OperationPC
  BY DEF EmitCreated, EmitTransitioned, EmitTrigger, OperationPC
<1>2. /\ j \in Job /\ p \in Project /\ j.copy \in Manifest /\ job \in [Session -> Job]
      /\ audit \in [Project -> [at : State \cup {"absent"}, by : Trigger \cup {"none"}]]
      /\ lost \in [Project -> SUBSET {"file", "audit"}]
      /\ Fits(pc[s], j, manifest[p], audit[p], lost[p])
  BY <1>1, Within
<1>3. manifest[p].state # "absent"
  BY <1>1, <1>2, TargetState DEF Fits, State
<1>4. UNCHANGED manifest /\ \A q \in Project \ {p} : lost'[q] = lost[q]
  BY <1>2 DEF EmitCreated, EmitTransitioned, EmitTrigger
<1>5. CASE EmitCreated(s)
  <2> DEFINE k == [j EXCEPT !.op = "transition", !.trigger = "project_created", !.actor = "system"]
             a == [at |-> "requested", by |-> "none"]
  <2>1. /\ k.tgt = p /\ pc' = [pc EXCEPT ![s] = "load"] /\ job' = [job EXCEPT ![s] = k]
        /\ audit' = [audit EXCEPT ![p] = a]
    BY <1>2, <1>5 DEF EmitCreated, Goto, Job
  <2>2. Fits("load", k, manifest[p], a, lost'[p])
    BY ElseFits DEF Busy
  <2>3. Matches(a, manifest[p].state)
    BY <1>2, <1>5 DEF Fits, Matches, EmitCreated
  <2>4. audit'[p] = a /\ \A q \in Project \ {p} : audit'[q] = audit[q]
    BY <1>2, <2>1
  <2> HIDE DEF k, a
  <2>5. QED
    BY <1>2, <1>3, <1>4, <2>1, <2>2, <2>3, <2>4, FileStep
<1>6. CASE EmitTransitioned(s)
  <2>1. /\ pc' = [pc EXCEPT ![s] = "emitTrigger"] /\ job' = [job EXCEPT ![s] = j]
        /\ audit' = [audit EXCEPT ![p].at = j.copy.state]
    BY <1>2, <1>6 DEF EmitTransitioned, Goto
  <2>2. audit'[p].at = j.copy.state /\ \A q \in Project \ {p} : audit'[q] = audit[q]
    BY <1>2, <2>1
  <2>3. Fits("emitTrigger", j, manifest[p], audit'[p], lost'[p])
    BY <1>2, <1>6, <2>2 DEF Fits, EmitTransitioned
  <2>4. "emitTrigger" \in Busy
    BY DEF Busy
  <2>5. QED
    BY <1>2, <1>3, <1>4, <2>1, <2>2, <2>3, <2>4, FileStep
<1>7. CASE EmitTrigger(s)
  <2>1. /\ audit' = [audit EXCEPT ![p].by = j.trigger] /\ Leave(s, AfterSuccess(j))
        /\ AfterSuccess(j) \in {"idle", "auto", "segment", "llm"}
    BY <1>7, AfterLabels DEF EmitTrigger
  <2>2. /\ audit'[p].at = audit[p].at /\ audit'[p].by = j.trigger
        /\ \A q \in Project \ {p} : audit'[q] = audit[q]
    BY <1>2, <2>1
  <2>3. Matches(audit'[p], manifest[p].state)
    BY <1>2, <1>7, <2>2, TargetState DEF Fits, EmitTrigger, Matches
  <2>4. QED
    BY <1>2, <1>3, <1>4, <2>1, <2>2, <2>3, FileLeave
<1>8. QED
  BY <1>5, <1>6, <1>7

\* A raise or a crash in the middle of a call is noted in lost.
LEMMA LossOne ==
    ASSUME OneSession, OneInv, IInv', NEW s \in Session, pc[s] \in Busy,
           NEW what \in {"file", "audit"},
           lost' = [lost EXCEPT ![job[s].tgt] = @ \cup {what}], UNCHANGED <<manifest, audit>>,
           NEW label \in {"idle", "auto", "segment", "llm"}, Leave(s, label)
    PROVE  OneInv'
<1> DEFINE j == job[s]
           p == j.tgt
<1>1. pc[s] \in OperationPC
  BY DEF Busy, OperationPC
<1>2. /\ j \in Job /\ p \in Project /\ lost \in [Project -> SUBSET {"file", "audit"}]
      /\ Fits(pc[s], j, manifest[p], audit[p], lost[p])
  BY <1>1, Within
<1>3. manifest[p].state # "absent"
  BY <1>2, TargetState DEF Fits, State, Busy, Torn
<1>4. lost'[p] # {} /\ \A q \in Project \ {p} : lost'[q] = lost[q]
  BY <1>2
<1>5. QED
  BY <1>2, <1>3, <1>4, FileLeave

LEMMA RaiseOne ==
    ASSUME OneSession, OneInv, IInv', NEW s \in Session, DumpRaises(s) \/ EmitRaises(s) \/ Crash(s)
    PROVE  OneInv'
<1>1. CASE DumpRaises(s)
  BY <1>1, LossOne, AfterLabels DEF DumpRaises, Busy
<1>2. CASE EmitRaises(s)
  BY <1>2, LossOne, AfterLabels DEF EmitRaises, Busy
<1>3. CASE Crash(s)
  <2>1. Leave(s, "idle") /\ UNCHANGED <<manifest, audit>>
    BY <1>3 DEF Crash, Leave
  <2>2. CASE pc[s] = "dump"
    <3>1. lost' = [lost EXCEPT ![job[s].tgt] = @ \cup {"file"}]
      BY <1>3, <2>2 DEF Crash
    <3>2. QED
      BY <2>1, <2>2, <3>1, LossOne DEF Busy
  <2>3. CASE pc[s] \in {"created", "emit", "emitTrigger"}
    <3>1. lost' = [lost EXCEPT ![job[s].tgt] = @ \cup {"audit"}]
      BY <1>3, <2>3 DEF Crash
    <3>2. QED
      BY <2>1, <2>3, <3>1, LossOne DEF Busy
  <2>4. CASE pc[s] \notin Busy
    <3>1. UNCHANGED Files
      BY <1>3, <2>1, <2>4 DEF Crash, Busy, Files
    <3>2. QED
      BY <2>1, <2>4, <3>1, QuietLeave
  <2>5. QED
    BY <2>2, <2>3, <2>4 DEF Busy
<1>4. QED
  BY <1>1, <1>2, <1>3

LEMMA TurnOne ==
    ASSUME OneSession, OneInv, IInv', NEW s \in Session,
           AutoAdvance(s) \/ EnterSegment(s) \/ ModelStep(s)
    PROVE  OneInv'
<1>1. job \in [Session -> Job] /\ pc[s] \notin Busy /\ UNCHANGED Files
  BY DEF AutoAdvance, EnterSegment, ModelStep, CallManifestTool, CollectEvidence, BuildSnapshot, CheckGates,
     EndSegment, OneInv, IInv, TypeOK, Busy
<1>2. CASE Exit(s)
  BY <1>1, <1>2, QuietGoto DEF Exit
<1>3. ASSUME NEW label \in {"segment", "llm"}, Goto(s, label), UNCHANGED job PROVE OneInv'
  <2>1. job' = [job EXCEPT ![s] = job[s]]
    BY <1>1, <1>3
  <2>2. QED
    BY <1>1, <1>3, <2>1, QuietGoto
<1>4. CASE AutoAdvance(s)
  <2>1. ASSUME Goto(s, "load"),
               job' = [job EXCEPT ![s].tgt = job[s].own, ![s].op = "transition",
                         ![s].trigger = "auto", ![s].actor = "system", ![s].caller = "auto"]
        PROVE  OneInv'
    <3>1. PICK j : job' = [job EXCEPT ![s] = j]
      BY <1>1, <2>1
    <3>2. QED
      BY <1>1, <2>1, <3>1, QuietGoto
  <2>2. QED
    BY <1>2, <1>3, <1>4, <2>1 DEF AutoAdvance
<1>5. CASE EnterSegment(s)
  BY <1>2, <1>3, <1>5 DEF EnterSegment
<1>6. ASSUME NEW tool, NEW p, NEW trigger, CallManifestTool(s, tool, p, trigger) PROVE OneInv'
  BY <1>1, <1>6, QuietGoto DEF CallManifestTool
<1>7. CASE UNCHANGED <<pc, job>>
  BY <1>1, <1>7, RestStep
<1>8. QED
  BY <1>2, <1>4, <1>5, <1>6, <1>7 DEF ModelStep, CollectEvidence, BuildSnapshot, CheckGates, EndSegment

LEMMA OneInit == Init => OneInv
<1> SUFFICES ASSUME Init PROVE OneInv
  OBVIOUS
<1>1. JobsFit /\ AuditMatchesManifest
  BY ElseFits DEF Init, JobsFit, AuditMatchesManifest, Busy, Absent
<1>2. QED
  BY <1>1, InitInv DEF OneInv

LEMMA OneNext == ASSUME OneSession PROVE OneInv /\ [Next]_vars => OneInv'
<1> SUFFICES ASSUME OneInv, [Next]_vars PROVE OneInv'
  OBVIOUS
<1>1. IInv'
  BY NextInv DEF OneInv
<1>2. ASSUME NEW s \in Session, Advance(s) PROVE OneInv'
  BY <1>1, <1>2, LoadOne, OpenOne, DumpOne, EmitOne, RaiseOne, TurnOne DEF Advance
<1>3. ASSUME NEW p, NEW result, RecordPolicy(p, result) PROVE OneInv'
  BY <1>1, <1>3, RestStep DEF RecordPolicy
<1>4. CASE UNCHANGED vars
  BY <1>1, <1>4, RestStep DEF vars, Files
<1>5. QED
  BY <1>1, <1>2, <1>3, <1>4, UserStepOne, TurnOne, RaiseOne DEF Next

\* Where processes run one after the other, the audit ends where the manifest is whenever no call
\* is under way, but between a call that died or raised after its rewrite and the next transition
\* that is recorded in full.
THEOREM AuditAgrees == ASSUME OneSession PROVE Spec => []AuditMatchesManifest
<1>1. OneInv => AuditMatchesManifest
  BY DEF OneInv
<1>2. QED
  BY OneInit, OneNext, <1>1, PTL DEF Spec

-----------------------------------------------------------------------------
(* One process on one project: the model gets its turn nowhere in            *)
(* finding_locked, the only user gate at which the tool table would let it   *)
(* go on, since only the user's answer leads there and the process that      *)
(* brings it stops.                                                          *)

OneProject == \A p, q \in Project : p = q

\* What a session that is not idle may be about, m being the manifest of its project.
Turn(label, j, m) ==
    label # "idle" =>
    /\ j.cmd # "none"
    /\ j.actor = "user" => j.caller = "start" /\ j.cmd = "resume"
    /\ label = "llm" \/ j.caller = "llm" \/ j.cmd = "new" =>
          m.state # "finding_locked" /\ (label \in {"open", "dump"} => j.copy.state # "finding_locked")
    /\ label = "load" /\ j.op = "transition" /\ j.actor # "user" =>
          m.state \notin UserGateStates \/ Source(j.trigger) \notin UserGateStates
    /\ label \in {"open", "dump"} /\ j.op = "transition" /\ Source(j.trigger) \in UserGateStates =>
          j.actor = "user"

Turns == \A s \in Session : Turn(pc[s], job[s], manifest[job[s].own])

TurnInv == IInv /\ Turns

LEMMA TurnStep ==
    ASSUME OneSession, TurnInv, IInv', NEW s \in Session, NEW label, NEW j,
           pc' = [pc EXCEPT ![s] = label], job' = [job EXCEPT ![s] = j],
           Turn(label, j, manifest'[j.own])
    PROVE  TurnInv'
<1>1. pc \in [Session -> PC] /\ job \in [Session -> Job] /\ Session = {s}
  BY DEF TurnInv, IInv, TypeOK, OneSession
<1>2. pc'[s] = label /\ job'[s] = j
  BY <1>1
<1>3. QED
  BY <1>1, <1>2 DEF TurnInv, Turns

LEMMA TurnNow ==
    ASSUME TurnInv, NEW s \in Session
    PROVE  /\ Turn(pc[s], job[s], manifest[job[s].own])
           /\ job[s] \in Job /\ job \in [Session -> Job] /\ manifest \in [Project -> Manifest]
  BY DEF TurnInv, Turns, IInv, TypeOK

\* A session that leaves a call enters the model's turn only if the model had it before.
LEMMA TurnLeave ==
    ASSUME OneSession, TurnInv, IInv', NEW s \in Session, pc[s] # "idle",
           NEW label \in {"idle", "auto", "segment", "llm"}, Leave(s, label),
           label = "llm" => job[s].caller = "llm",
           job[s].caller = "llm" \/ job[s].cmd = "new" => manifest'[job[s].own].state # "finding_locked"
    PROVE  TurnInv'
<1> DEFINE j == job[s]
<1>1. Turn(pc[s], j, manifest[j.own]) /\ j \in Job
  BY TurnNow
<1>2. CASE label = "idle"
  <2>1. Turn("idle", NoJob, manifest'[NoJob.own])
    BY DEF Turn
  <2>2. QED
    BY <1>2, <2>1, TurnStep DEF Leave, Exit, Goto
<1>3. CASE label # "idle"
  <2> DEFINE k == Rest(j)
  <2>1. k.cmd = j.cmd /\ k.own = j.own /\ k.caller = "none" /\ k.actor = "none"
    BY <1>1 DEF Rest, NoJob, Job
  <2>2. Turn(label, k, manifest'[k.own])
    BY <1>1, <1>3, <2>1 DEF Turn
  <2>3. pc' = [pc EXCEPT ![s] = label] /\ job' = [job EXCEPT ![s] = k]
    BY <1>3 DEF Leave, Goto
  <2> HIDE DEF k
  <2>4. QED
    BY <2>2, <2>3, TurnStep
<1>4. QED
  BY <1>2, <1>3

LEMMA AfterLlm ==
    ASSUME NEW j
    PROVE  /\ AfterSuccess(j) = "llm" => j.caller = "llm"
           /\ AfterError(j) = "llm" => j.caller = "llm"
           /\ AfterException(j) = "llm" => j.caller = "llm"
  BY DEF AfterSuccess, AfterError, AfterException

LEMMA TurnUser ==
    ASSUME OneSession, TurnInv, IInv', NEW s \in Session, UserStep(s) PROVE TurnInv'
<1>1. UNCHANGED manifest
  BY DEF UserStep, RunNew, Confirm, ResumeAtOnce, ResumeConfirmed, Resume, Decline, Files
<1>2. CASE Exit(s)
  BY <1>2, TurnStep DEF Exit, Goto, Turn
<1>3. ASSUME NEW p \in Project, RunNew(s, p) PROVE TurnInv'
  <2> DEFINE j == [NoJob EXCEPT !.cmd = "new", !.own = p, !.tgt = p, !.op = "create",
                                !.caller = "start", !.copy = Fresh]
  <2>1. /\ j.cmd = "new" /\ j.own = p /\ j.op = "create" /\ j.copy.state = "requested"
        /\ j.actor = "none"
    BY DEF NoJob, Fresh
  <2>2. Turn("open", j, manifest'[j.own])
    BY <1>1, <1>3, <2>1 DEF Turn, RunNew
  <2>3. pc' = [pc EXCEPT ![s] = "open"] /\ job' = [job EXCEPT ![s] = j]
    BY <1>3 DEF RunNew, Goto
  <2> HIDE DEF j
  <2>4. QED
    BY <2>2, <2>3, TurnStep
<1>4. ASSUME NEW p, NEW action, Resume(s, p, action) PROVE TurnInv'
  <2>1. CASE ~Exit(s)
    <3>1. PICK a \in GateActions :
            /\ Goto(s, "load")
            /\ job' = [job EXCEPT ![s] = [NoJob EXCEPT
                          !.cmd = "resume", !.own = p, !.tgt = p,
                          !.op = "transition", !.trigger = a[3],
                          !.actor = "user", !.caller = "start"]]
      BY <1>4, <2>1 DEF Resume
    <3> DEFINE j == [NoJob EXCEPT !.cmd = "resume", !.own = p, !.tgt = p, !.op = "transition",
                                  !.trigger = a[3], !.actor = "user", !.caller = "start"]
    <3>2. j.cmd = "resume" /\ j.actor = "user" /\ j.caller = "start"
      BY DEF NoJob
    <3>3. Turn("load", j, manifest'[j.own])
      BY <3>2 DEF Turn
    <3> HIDE DEF j
    <3>4. QED
      BY <3>1, <3>3, TurnStep DEF Goto, j
  <2>2. QED
    BY <1>2, <2>1
<1>5. ASSUME NEW p \in Project, NEW action, Confirm(s, p, action) PROVE TurnInv'
  <2> DEFINE j == [NoJob EXCEPT !.cmd = "resume", !.own = p, !.tgt = p, !.answer = action]
  <2>1. j.cmd = "resume" /\ j.actor = "none" /\ j.caller = "none"
    BY DEF NoJob
  <2>2. Turn("confirm", j, manifest'[j.own])
    BY <2>1 DEF Turn
  <2>3. QED
    BY <1>5, <2>2, TurnStep DEF Confirm, Goto
<1>6. QED
  BY <1>2, <1>3, <1>4, <1>5 DEF UserStep, ResumeAtOnce, ResumeConfirmed, Decline

\* Only finding_approved leads to finding_locked, and it leaves a user gate.
LEMMA TurnLoad ==
    ASSUME OneSession, OneProject, TurnInv, IInv', NEW s \in Session, LoadManifest(s) PROVE TurnInv'
<1> DEFINE j == job[s]
           m == manifest[j.own]
<1>1. /\ Turn("load", j, m) /\ j \in Job /\ job \in [Session -> Job] /\ m \in Manifest
      /\ j.tgt = j.own /\ pc[s] = "load" /\ UNCHANGED manifest
  BY TurnNow, LocalType DEF LoadManifest, OneProject, OperationPC, TurnInv, Files
<1>2. ASSUME NEW label \in {"idle", "auto", "segment", "llm"}, Leave(s, label),
             label = "llm" => j.caller = "llm"
      PROVE  TurnInv'
  BY <1>1, <1>2, TurnLeave DEF Turn
<1>3. ASSUME NEW c, Goto(s, "open"), job' = [job EXCEPT ![s].copy = c],
             j.caller = "llm" \/ j.cmd = "new" => c.state # "finding_locked",
             j.op = "transition" /\ Source(j.trigger) \in UserGateStates => j.actor = "user"
      PROVE  TurnInv'
  <2> DEFINE k == [j EXCEPT !.copy = c]
  <2>1. /\ k.copy = c /\ k.op = j.op /\ k.trigger = j.trigger /\ k.own = j.own
        /\ k.cmd = j.cmd /\ k.actor = j.actor /\ k.caller = j.caller
    BY <1>1 DEF Job
  <2>2. Turn("open", k, m)
    BY <1>1, <1>3, <2>1 DEF Turn
  <2>3. pc' = [pc EXCEPT ![s] = "open"] /\ job' = [job EXCEPT ![s] = k]
    BY <1>1, <1>3 DEF Goto
  <2> HIDE DEF k
  <2>4. QED
    BY <1>1, <2>1, <2>2, <2>3, TurnStep
<1>4. ASSUME j.op = "transition", Goto(s, "open"),
             NEW t \in Transitions, t[1] = m.state, t[2] = j.trigger,
             job' = [job EXCEPT ![s].copy = [m EXCEPT !.state = t[3]]]
      PROVE  TurnInv'
  <2>1. Source(j.trigger) = m.state
    BY <1>4, Triggers
  <2>2. t[3] = "finding_locked" => m.state \in UserGateStates
    BY <1>4 DEF Transitions, UserGateStates
  <2>3. m.state \in UserGateStates => j.actor = "user"
    BY <1>1, <1>4, <2>1 DEF Turn
  <2>4. [m EXCEPT !.state = t[3]].state = t[3]
    BY <1>1 DEF Manifest
  <2>5. t[3] = "finding_locked" => j.caller = "start" /\ j.cmd = "resume"
    BY <1>1, <2>2, <2>3 DEF Turn
  <2>6. QED
    BY <1>3, <1>4, <2>1, <2>3, <2>4, <2>5
<1>5. ASSUME NEW c, Goto(s, "open"), job' = [job EXCEPT ![s].copy = c], c.state = m.state,
             j.op # "transition"
      PROVE  TurnInv'
  BY <1>1, <1>3, <1>5 DEF Turn
<1>6. LockScope(m).state = m.state /\ \A r \in Run : AddRun(m, r).state = m.state
  BY <1>1 DEF LockScope, AddRun, Manifest
<1>7. QED
  BY <1>1, <1>2, <1>4, <1>5, <1>6, AfterLabels, AfterLlm DEF LoadManifest

LEMMA TurnWrite ==
    ASSUME OneSession, OneProject, TurnInv, IInv', NEW s \in Session,
           OpenManifest(s) \/ DumpManifest(s) \/ DumpRaises(s)
    PROVE  TurnInv'
<1> DEFINE j == job[s]
           p == j.tgt
<1>1. /\ pc[s] \in {"open", "dump"} /\ Turn(pc[s], j, manifest[j.own]) /\ j \in Job
      /\ job \in [Session -> Job] /\ manifest \in [Project -> Manifest]
      /\ j.own = p /\ p \in Project
  BY TurnNow, LocalType DEF OpenManifest, DumpManifest, DumpRaises, OneProject, OperationPC, TurnInv
<1>2. Torn.state # "finding_locked"
  BY DEF Torn
<1>3. manifest' \in {manifest, [manifest EXCEPT ![p] = Torn], [manifest EXCEPT ![p] = j.copy]}
  BY DEF OpenManifest, DumpManifest, DumpRaises
<1>4. j.caller = "llm" \/ j.cmd = "new" => manifest'[j.own].state # "finding_locked"
  BY <1>1, <1>2, <1>3 DEF Turn
<1>5. ASSUME NEW label \in {"dump", "created", "emit"}, Goto(s, label), UNCHANGED job
      PROVE  TurnInv'
  <2>1. Turn(label, j, manifest'[j.own])
    BY <1>1, <1>4, <1>5 DEF Turn
  <2>2. pc' = [pc EXCEPT ![s] = label] /\ job' = [job EXCEPT ![s] = j]
    BY <1>1, <1>5 DEF Goto
  <2>3. QED
    BY <2>1, <2>2, TurnStep
<1>6. ASSUME NEW label \in {"idle", "auto", "segment", "llm"}, Leave(s, label),
             label = "llm" => j.caller = "llm"
      PROVE  TurnInv'
  BY <1>1, <1>4, <1>6, TurnLeave
<1>7. CASE OpenManifest(s)
  BY <1>5, <1>7 DEF OpenManifest
<1>8. CASE DumpManifest(s)
  <2> DEFINE next == CASE j.op = "create" -> "created"
                       [] j.op = "transition" -> "emit"
                       [] OTHER -> AfterSuccess(j)
  <2>1. next \in {"created", "emit"} \/ next = AfterSuccess(j)
    OBVIOUS
  <2>2. IF next \in {"created", "emit"} THEN Goto(s, next) /\ UNCHANGED job ELSE Leave(s, next)
    BY <1>8 DEF DumpManifest
  <2> HIDE DEF next
  <2>3. QED
    BY <1>5, <1>6, <2>1, <2>2, AfterLabels, AfterLlm
<1>9. CASE DumpRaises(s)
  BY <1>6, <1>9, AfterLabels, AfterLlm DEF DumpRaises
<1>10. QED
  BY <1>7, <1>8, <1>9

LEMMA TurnEmit ==
    ASSUME OneSession, TurnInv, IInv', NEW s \in Session,
           EmitCreated(s) \/ EmitTransitioned(s) \/ EmitRaises(s) \/ EmitTrigger(s) \/ Crash(s)
    PROVE  TurnInv'
<1> DEFINE j == job[s]
<1>1. /\ Turn(pc[s], j, manifest[j.own]) /\ j \in Job /\ job \in [Session -> Job]
      /\ pc[s] # "idle" /\ UNCHANGED manifest
  BY TurnNow DEF EmitCreated, EmitTransitioned, EmitRaises, EmitTrigger, Crash
<1>2. ASSUME NEW label \in {"idle", "auto", "segment", "llm"}, Leave(s, label),
             label = "llm" => j.caller = "llm"
      PROVE  TurnInv'
  BY <1>1, <1>2, TurnLeave DEF Turn
<1>3. CASE EmitCreated(s)
  <2> DEFINE k == [j EXCEPT !.op = "transition", !.trigger = "project_created", !.actor = "system"]
  <2>1. /\ k.cmd = j.cmd /\ k.own = j.own /\ k.caller = j.caller
        /\ k.actor = "system" /\ k.trigger = "project_created"
    BY <1>1 DEF Job
  <2>2. <<"requested", "project_created", "discovery">> \in Transitions
    BY DEF Transitions
  <2>3. Source("project_created") \notin UserGateStates
    BY <2>2, Triggers DEF UserGateStates
  <2>4. Turn("load", k, manifest[k.own])
    BY <1>1, <2>1, <2>3 DEF Turn
  <2>5. pc' = [pc EXCEPT ![s] = "load"] /\ job' = [job EXCEPT ![s] = k]
    BY <1>1, <1>3 DEF EmitCreated, Goto
  <2> HIDE DEF k
  <2>6. QED
    BY <1>1, <2>4, <2>5, TurnStep
<1>4. CASE EmitTransitioned(s)
  <2>1. Turn("emitTrigger", j, manifest[j.own])
    BY <1>1 DEF Turn
  <2>2. pc' = [pc EXCEPT ![s] = "emitTrigger"] /\ job' = [job EXCEPT ![s] = j]
    BY <1>1, <1>4 DEF EmitTransitioned, Goto
  <2>3. QED
    BY <1>1, <2>1, <2>2, TurnStep
<1>5. CASE EmitRaises(s)
  BY <1>2, <1>5, AfterLabels, AfterLlm DEF EmitRaises
<1>6. CASE EmitTrigger(s)
  BY <1>2, <1>6, AfterLabels, AfterLlm DEF EmitTrigger
<1>7. CASE Crash(s)
  BY <1>2, <1>7 DEF Crash, Leave
<1>8. QED
  BY <1>3, <1>4, <1>5, <1>6, <1>7

LEMMA TurnSegment ==
    ASSUME OneSession, TurnInv, IInv', NEW s \in Session, AutoAdvance(s) \/ EnterSegment(s)
    PROVE  TurnInv'
<1> DEFINE j == job[s]
           m == manifest[j.own]
<1>1. /\ Turn(pc[s], j, m) /\ j \in Job /\ job \in [Session -> Job]
      /\ pc[s] \in {"auto", "segment"} /\ UNCHANGED manifest
  BY TurnNow DEF AutoAdvance, EnterSegment, Files
<1>2. CASE Exit(s)
  BY <1>2, TurnStep DEF Exit, Goto, Turn
<1>3. ASSUME NEW label \in {"segment", "llm"}, Goto(s, label), UNCHANGED job,
             label = "llm" => m.state # "finding_locked"
      PROVE  TurnInv'
  <2>1. Turn(label, j, m)
    BY <1>1, <1>3 DEF Turn
  <2>2. pc' = [pc EXCEPT ![s] = label] /\ job' = [job EXCEPT ![s] = j]
    BY <1>1, <1>3 DEF Goto
  <2>3. QED
    BY <1>1, <2>1, <2>2, TurnStep
<1>4. CASE AutoAdvance(s)
  <2>1. ASSUME Goto(s, "load"),
               job' = [job EXCEPT ![s].tgt = job[s].own, ![s].op = "transition",
                         ![s].trigger = "auto", ![s].actor = "system", ![s].caller = "auto"]
        PROVE  TurnInv'
    <3> DEFINE k == [j EXCEPT !.tgt = j.own, !.op = "transition", !.trigger = "auto",
                              !.actor = "system", !.caller = "auto"]
    <3>1. /\ k.cmd = j.cmd /\ k.own = j.own /\ k.caller = "auto" /\ k.actor = "system"
          /\ k.trigger = "auto"
      BY <1>1 DEF Job
    <3>2. <<"scope_locked", "auto", "data_collection">> \in Transitions
      BY DEF Transitions
    <3>3. Source("auto") \notin UserGateStates
      BY <3>2, Triggers DEF UserGateStates
    <3>4. Turn("load", k, m)
      BY <1>1, <3>1, <3>3 DEF Turn
    <3>5. pc' = [pc EXCEPT ![s] = "load"] /\ job' = [job EXCEPT ![s] = k]
      BY <1>1, <2>1 DEF Goto
    <3> HIDE DEF k
    <3>6. QED
      BY <1>1, <3>1, <3>4, <3>5, TurnStep
  <2>2. QED
    BY <1>2, <1>3, <1>4, <2>1 DEF AutoAdvance
<1>5. CASE EnterSegment(s)
  <2>1. j.cmd \in {"new", "resume"}
    BY <1>1 DEF Turn, Job
  <2>2. j.cmd = "resume" \/ m.state # "finding_locked"
    BY <1>1, <2>1 DEF Turn
  <2>3. QED
    BY <1>2, <1>3, <1>5, <2>2 DEF EnterSegment, UserGateStates
<1>6. QED
  BY <1>4, <1>5

LEMMA TurnModel ==
    ASSUME OneSession, OneProject, TurnInv, IInv', NEW s \in Session, ModelStep(s) PROVE TurnInv'
<1> DEFINE j == job[s]
           m == manifest[j.own]
<1>1. /\ Turn("llm", j, m) /\ j \in Job /\ job \in [Session -> Job]
      /\ pc[s] = "llm" /\ UNCHANGED manifest
  BY TurnNow DEF ModelStep, CallManifestTool, CollectEvidence, BuildSnapshot, CheckGates, EndSegment, Files
<1>2. ASSUME NEW tool, NEW p, NEW trigger, CallManifestTool(s, tool, p, trigger) PROVE TurnInv'
  <2> DEFINE k == ToolJob(j, tool, p, trigger)
  <2>1. /\ k.cmd = j.cmd /\ k.own = j.own /\ k.actor = "rlm" /\ k.op = tool /\ k.trigger = trigger
    BY DEF ToolJob
  <2>2. m.state # "finding_locked"
    BY <1>1 DEF Turn
  <2>3. m.state \notin UserGateStates
    BY <1>2, <2>2 DEF CallManifestTool, ToolAllowed, ToolsAllowedIn, UserGateStates
  <2>4. Turn("load", k, m)
    BY <1>1, <2>1, <2>2, <2>3 DEF Turn
  <2>5. pc' = [pc EXCEPT ![s] = "load"] /\ job' = [job EXCEPT ![s] = k]
    BY <1>2 DEF CallManifestTool, Goto
  <2> HIDE DEF k
  <2>6. QED
    BY <1>1, <2>1, <2>4, <2>5, TurnStep
<1>3. CASE Exit(s)
  BY <1>3, TurnStep DEF Exit, Goto, Turn
<1>4. CASE UNCHANGED <<pc, job>>
  BY <1>1, <1>4 DEF TurnInv, Turns
<1>5. QED
  BY <1>2, <1>3, <1>4 DEF ModelStep, CollectEvidence, BuildSnapshot, CheckGates, EndSegment

LEMMA TurnNext == ASSUME OneSession, OneProject PROVE TurnInv /\ [Next]_vars => TurnInv'
<1> SUFFICES ASSUME TurnInv, [Next]_vars PROVE TurnInv'
  OBVIOUS
<1>1. IInv'
  BY NextInv DEF TurnInv
<1>2. ASSUME NEW s \in Session, Advance(s) PROVE TurnInv'
  BY <1>1, <1>2, TurnLoad, TurnWrite, TurnEmit, TurnSegment DEF Advance
<1>3. CASE UNCHANGED <<manifest, pc, job>>
  BY <1>1, <1>3 DEF TurnInv, Turns
<1>4. ASSUME NEW p, NEW result, RecordPolicy(p, result) PROVE TurnInv'
  BY <1>3, <1>4 DEF RecordPolicy, Files
<1>5. QED
  BY <1>1, <1>2, <1>3, <1>4, TurnUser, TurnModel, TurnEmit DEF Next, vars

\* A process that works on its own project only, after the others: every transition out of a
\* user gate is one the user asked for, at the gate where the project is.
THEOREM GatesAreTheUsers == ASSUME OneSession, OneProject PROVE Spec => []UserGateNeedsUser
<1>1. Init => TurnInv
  BY InitInv DEF Init, TurnInv, Turns, Turn
<1>2. TurnInv => UserGateNeedsUser
  <2> SUFFICES ASSUME TurnInv, NEW s \in Session, Writing(s), job[s].op = "transition",
                      Source(job[s].trigger) \in UserGateStates
               PROVE  job[s].actor = "user"
    BY DEF UserGateNeedsUser
  <2>1. QED
    BY TurnNow DEF Turn, Writing
<1>3. QED
  BY <1>1, <1>2, TurnNext, PTL DEF Spec

=============================================================================
