----------------------------- MODULE Artifacts -----------------------------
(***************************************************************************)
(* The artifacts of the runtime storage: ArtifactStore writes a file and   *)
(* then its row, brownfield.db refers to the row, the storage doctor       *)
(* compares the three, and reset_runtime_storage moves the parts of the    *)
(* storage one by one to a backup named by the second.  Processes end      *)
(* between any two steps, and a user may delete files.  No caller in the   *)
(* code names an artifact's id, so a put makes a new one; the storage is   *)
(* reset when nobody writes to it.                                         *)
(***************************************************************************)
EXTENDS Integers, Sequences, FiniteSets, FiniteSetsExt, SequencesExt, Functions

CONSTANTS Client,       \* processes that put artifacts
          Bytes,        \* contents
          Damage,       \* whether a user deletes artifact files or artifacts.db
          MaxArtifacts, MaxClock, MaxResets,
          None

\* The numbers of artifacts do not include None.
ArtifactAssumption ==
    MaxArtifacts \in Nat /\ MaxClock \in Nat \ {0} /\ MaxResets \in Nat /\ None \notin Nat

VARIABLES place,        \* the parts of the storage: the items that each holds
          sha,          \* the contents of the artifacts, in the order of their creation
          has,          \* where each client stands: at rest, with a file written, with an id returned
          answer,       \* the artifact that the last put returned
          backups,      \* the parts that each second's backup holds
          left,         \* the parts that the reset under way has still to move
          withBackup, now,
          resets, gone, \* history: when resets began; the items that were removed on purpose
          damaged       \* history: whether a user has deleted something

vars == <<place, sha, has, answer, backups, left, withBackup, now, resets, gone, damaged>>

\* The artifacts table and brownfield.db lie in one directory, the artifacts' files in another.
Row(id) == <<"row", id>>
Ref(id) == <<"ref", id>>
File(id) == <<"file", id>>
View(id) == <<"view", id>>

Rows == {i[2] : i \in {j \in place["db"] : j[1] = "row"}}
Refs == {i[2] : i \in {j \in place["db"] : j[1] = "ref"}}
FileExists(id) == File(id) \in place["artifacts"]

Init ==
    /\ place = [p \in {"db", "runs", "artifacts"} |-> {}]
    /\ sha = <<>> /\ has = [c \in Client |-> [at |-> "rest"]] /\ answer = None
    /\ backups = <<>> /\ left = <<>> /\ withBackup = TRUE /\ now = 1
    /\ resets = <<>> /\ gone = {} /\ damaged = FALSE

\* Mutant: the newest row with these bytes is taken whether or not its file is there.
FindExistingByRow(b) ==
    LET same == {id \in Rows : sha[id] = b} IN IF same = {} THEN None ELSE Max(same)

\* _find_existing_by_sha256: the newest row with these bytes, if its file is there.
FindExisting(b) ==
    LET same == {id \in Rows : sha[id] = b}
    IN  IF same # {} /\ FileExists(Max(same)) THEN Max(same) ELSE None

\* put_bytes with dedupe: a file that is there already is returned.
PutSame(c, b) ==
    /\ has[c].at = "rest" /\ left = <<>> /\ FindExisting(b) # None
    /\ answer' = FindExisting(b)
    /\ has' = [has EXCEPT ![c] = [at |-> "id", id |-> FindExisting(b)]]
    /\ UNCHANGED <<place, sha, backups, left, withBackup, now, resets, gone, damaged>>

\* Mutant: the row is written first.
FirstWriteRow(id) == [part |-> "db", item |-> Row(id)]

\* put_bytes, put_json, put_text: what is written first and then, the file and its row.
FirstWrite(id) == [part |-> "artifacts", item |-> File(id)]
SecondWrite(id) ==
    IF FirstWrite(id).part = "db" THEN [part |-> "artifacts", item |-> File(id)]
                                  ELSE [part |-> "db", item |-> Row(id)]

PutFirst(c, b, dedupe) ==
    /\ has[c].at = "rest" /\ left = <<>> /\ Len(sha) < MaxArtifacts
    /\ dedupe => FindExisting(b) = None
    /\ LET id == Len(sha) + 1
           w == FirstWrite(id)
       IN  /\ sha' = Append(sha, b)
           /\ place' = [place EXCEPT ![w.part] = @ \cup {w.item}]
           /\ has' = [has EXCEPT ![c] = [at |-> "half", id |-> id]]
    /\ UNCHANGED <<answer, backups, left, withBackup, now, resets, gone, damaged>>

PutSecond(c) ==
    /\ has[c].at = "half"
    /\ LET w == SecondWrite(has[c].id) IN place' = [place EXCEPT ![w.part] = @ \cup {w.item}]
    /\ has' = [has EXCEPT ![c].at = "id"]
    /\ answer' = has[c].id
    /\ UNCHANGED <<sha, backups, left, withBackup, now, resets, gone, damaged>>

\* The caller writes the id into brownfield.db, or exports a view of its run.
Refer(c) ==
    /\ has[c].at = "id"
    /\ place' = [place EXCEPT !["db"] = @ \cup {Ref(has[c].id)}, !["runs"] = @ \cup {View(has[c].id)}]
    /\ has' = [has EXCEPT ![c] = [at |-> "rest"]]
    /\ UNCHANGED <<sha, answer, backups, left, withBackup, now, resets, gone, damaged>>

\* The process ends between two writes.
Crash(c) ==
    /\ has[c].at # "rest"
    /\ has' = [has EXCEPT ![c] = [at |-> "rest"]]
    /\ UNCHANGED <<place, sha, answer, backups, left, withBackup, now, resets, gone, damaged>>

\* A user deletes a file, or artifacts.db, while no put is under way.
Delete ==
    /\ Damage /\ left = <<>> /\ \A c \in Client : has[c].at # "half"
    /\ \E lost \in {{File(id)} : id \in DOMAIN sha} \cup {{Row(id) : id \in Rows}} :
         /\ lost # {} /\ lost \cap UNION Range(place) # {}
         /\ place' = [p \in DOMAIN place |-> place[p] \ lost]
         /\ gone' = gone \cup lost
    /\ damaged' = TRUE /\ answer' = None
    /\ UNCHANGED <<sha, has, backups, left, withBackup, now, resets>>

\* Mutant: the artifacts are moved first.
PartsFilesFirst(runs, extras) ==
    (IF extras THEN <<"artifacts">> ELSE <<>>) \o <<"db">> \o (IF runs THEN <<"runs">> ELSE <<>>)

\* The order in which reset_runtime_storage moves what it is asked to move.
Parts(runs, extras) ==
    <<"db">> \o (IF runs THEN <<"runs">> ELSE <<>>) \o (IF extras THEN <<"artifacts">> ELSE <<>>)

StartReset ==
    /\ left = <<>> /\ Len(resets) < MaxResets /\ \A c \in Client : has[c].at = "rest"
    /\ \E runs, extras, b \in BOOLEAN : left' = Parts(runs, extras) /\ withBackup' = b
    /\ resets' = Append(resets, now) /\ answer' = None
    /\ UNCHANGED <<place, sha, has, backups, now, gone, damaged>>

\* One part is moved under the second in which the reset began; what the backup of that second
\* holds of this part is removed first.  Without a backup the part is removed.
BackedUp(p) ==
    LET t == Last(resets)
        of == IF t \in DOMAIN backups THEN backups[t] ELSE <<>>
        parts == [q \in DOMAIN of \cup {p} |-> IF q = p THEN place[p] ELSE of[q]]
    IN  [u \in DOMAIN backups \cup {t} |-> IF u = t THEN parts ELSE backups[u]]

MovePart ==
    /\ left # <<>>
    /\ LET p == Head(left)
       IN  /\ place' = [place EXCEPT ![p] = {}]
           /\ IF withBackup THEN backups' = BackedUp(p) /\ gone' = gone
                            ELSE gone' = gone \cup place[p] /\ backups' = backups
    /\ left' = Tail(left)
    /\ UNCHANGED <<sha, has, answer, withBackup, now, resets, damaged>>

\* The process that resets ends; nobody takes the reset up again.
CrashReset ==
    /\ left # <<>> /\ left' = <<>>
    /\ UNCHANGED <<place, sha, has, answer, backups, withBackup, now, resets, gone, damaged>>

Tick == now < MaxClock /\ now' = now + 1
        /\ UNCHANGED <<place, sha, has, answer, backups, left, withBackup, resets, gone, damaged>>

Next ==
    \/ \E c \in Client : \/ \E b \in Bytes : PutSame(c, b) \/ \E d \in BOOLEAN : PutFirst(c, b, d)
                         \/ PutSecond(c) \/ Refer(c) \/ Crash(c)
    \/ Delete \/ StartReset \/ MovePart \/ CrashReset \/ Tick

Spec == Init /\ [][Next]_vars

\* run_storage_doctor: a row without a file and a reference without a row are issues; the
\* references are looked at when there is a row at all.
Issues ==
    {Row(id) : id \in {r \in Rows : ~FileExists(r)}}
    \cup (IF Rows = {} THEN {} ELSE {Ref(id) : id \in Refs \ Rows})
DoctorOk == Issues = {}
----------------------------------------------------------------------------
TypeOK ==
    /\ \A p \in DOMAIN place : place[p] \subseteq {"row", "ref", "file", "view"} \X (1..MaxArtifacts)
    /\ sha \in Seq(Bytes) /\ answer \in DOMAIN sha \cup {None}
    /\ now \in 1..MaxClock /\ DOMAIN backups \subseteq 1..MaxClock

\* What a put returned is readable and holds the bytes; and, unless a user deleted something, so
\* does every row, and every reference has its row, wherever a put or a reset was cut short: the
\* doctor never has an issue that the code made.
ArtifactsAreBacked ==
    /\ answer # None => answer \in Rows /\ FileExists(answer)
    /\ ~damaged => DoctorOk /\ Refs \subseteq Rows

Kept == (UNION Range(place)) \cup (UNION {UNION Range(backups[t]) : t \in DOMAIN backups})
Begun == {File(id) : id \in DOMAIN sha}

\* Whatever was written is in place or in a backup, unless it was removed on purpose, also when
\* resets are cut short; but not when two of them began in the same second: the second one
\* replaces the backup of the first.
BackupsKeepAll ==
    (\A i, j \in DOMAIN resets : i # j => resets[i] # resets[j]) => Begun \subseteq Kept \cup gone
============================================================================
