------------------------------- MODULE Legacy -------------------------------
(***************************************************************************)
(* What older versions of cmis_core left in the runtime storage under the  *)
(* key project_context_id, and the two places that rename it:              *)
(* OutcomeStore when it is opened, and migrate_runtime_storage, which      *)
(* takes one database after the other, one transaction each, and then the  *)
(* files of the value store one by one.  Both may be cut short anywhere,   *)
(* the migration may be run again, and outcomes are saved meanwhile.       *)
(***************************************************************************)
EXTENDS Integers, Sequences, FiniteSets, FiniteSetsExt, SequencesExt, Functions

CONSTANTS Column,       \* the JSON columns and value files looked at, members of AllColumns
          Outcome,      \* identifiers of outcomes
          Context,      \* identifiers of focal actor contexts
          MaxRuns,      \* runs of the migration and openings of the store, together
          MaxSaves,
          Absent, Torn  \* no such key, row or column; a file cut short

VARIABLES doc,          \* the document of each column
          table,        \* the outcomes table: which of the two columns it has
          row,          \* its rows: the column's value, and the record
          store,        \* OutcomeStore: closed, or how far opening it has come
          stage,        \* the step of the migration, 0 when none is under way
          read,         \* the rows that the migration or the opening store has read
          runs, saves,
          said,         \* history: the context that each document and each outcome names
          raced,        \* history: the outcomes saved between such a read and its write
          finished      \* history: whether a migration has come to its end

vars == <<doc, table, row, store, stage, read, runs, saves, said, raced, finished>>

Databases == <<"contexts", "runs", "ledgers", "outcomes", "artifacts", "evidence_cache", "value_store">>

\* Mutant: only the first JSON column of a table is migrated.
ColumnsOfFirst(db) ==
    CASE db = "contexts" -> {"contexts.record"} [] db = "runs" -> {"runs.context", "events.payload"}
      [] db = "ledgers" -> {"ledgers.project"} [] db = "value_store" -> {"value_store"} [] OTHER -> {}

ColumnsOf(db) ==
    CASE db = "contexts" -> {"contexts.record"}
      [] db = "runs" -> {"runs.context", "runs.summary", "events.payload", "decisions.payload"}
      [] db = "ledgers" -> {"ledgers.project", "ledgers.progress"}
      [] db = "outcomes" -> {}              \* its records are the rows below
      [] db = "artifacts" -> {"artifacts.meta"}
      [] db = "evidence_cache" -> {"evidence_cache.value"}
      [] db = "value_store" -> {"value_store"}
AllColumns == UNION {ColumnsOf(d) : d \in Range(Databases)}

\* A document names a context under the old key, the new one, or both, one of which comes last.
Doc(legacy, focal, last) == [legacy |-> legacy, focal |-> focal, last |-> last]
Given == {Doc(c, Absent, "legacy") : c \in Context} \cup {Doc(Absent, c, "focal") : c \in Context}
         \cup {Doc(c, d, l) : c, d \in Context, l \in {"legacy", "focal"}}
Names(d) == {d.legacy, d.focal} \ {Absent}

Document == [legacy : Context \cup {Absent}, focal : Context \cup {Absent}, last : {"legacy", "focal"}]
Filed == [column : Context \cup {Absent}, record : Document]

\* Nothing that is there is Absent, and a document is not cut short.
LegacyAssumption ==
    /\ Column \subseteq AllColumns /\ Column \cap Outcome = {}
    /\ Absent \notin Context \cup Filed /\ Torn \notin Document

\* _rename_keys_deep: of two keys that become one, the later one's value stays.
Renamed(d) ==
    IF d = Torn \/ d.legacy = Absent THEN d
    ELSE Doc(Absent, IF d.focal = Absent \/ d.last = "legacy" THEN d.legacy ELSE d.focal, "focal")

\* OutcomeStore._init_schema: the new key's value stays if there is one.
Opened(d) ==
    IF d.legacy = Absent THEN d ELSE Doc(Absent, IF d.focal = Absent THEN d.legacy ELSE d.focal, "focal")

Init ==
    /\ doc \in [Column -> Given]
    /\ table \in {"old", "new", "other", Absent}
    /\ \E d \in Given :
         row \in [Outcome -> IF table = Absent THEN {Absent}
                             ELSE {[column |-> IF table = "other" THEN Absent ELSE c, record |-> d] :
                                      c \in Names(d) \cup (IF table = "new" THEN {Absent} ELSE {})}]
    /\ store = "closed" /\ stage = 0 /\ read = <<>> /\ runs = 0 /\ saves = 0
    /\ said = [x \in Column \cup Outcome |->
                  IF x \in Column THEN Names(doc[x]) ELSE IF row[x] = Absent THEN {} ELSE Names(row[x].record)]
    /\ raced = {} /\ finished = FALSE

RowsNow == [o \in {p \in Outcome : row[p] # Absent} |-> row[o]]

\* The statements from INSERT to ALTER TABLE are one transaction: the old column's values are
\* copied under the new name.  A table with neither column is dropped, by the store only.
OpenTable ==
    /\ store = "closed" /\ runs < MaxRuns
    /\ runs' = runs + 1 /\ store' = "table" /\ table' = "new"
    /\ row' = IF table = "other" THEN [o \in Outcome |-> Absent] ELSE row
    /\ said' = IF table = "other" THEN [x \in DOMAIN said |-> IF x \in Outcome THEN {} ELSE said[x]] ELSE said
    /\ UNCHANGED <<doc, stage, read, saves, raced, finished>>

OpenRead ==
    /\ store = "table" /\ read = <<>>
    /\ store' = "read" /\ read' = RowsNow
    /\ UNCHANGED <<doc, table, row, stage, runs, saves, said, raced, finished>>

\* Mutant: the column is not brought in line with the record.
SyncedRecordOnly(r) == [r EXCEPT !.record = Opened(@)]

\* The record's key is renamed, and a column without a value is given the record's.
Synced(r) ==
    LET d == Opened(r.record) IN [column |-> IF r.column = Absent THEN d.focal ELSE r.column, record |-> d]

\* Rows that change are written over, whatever they hold by now.
Written(new) ==
    [o \in Outcome |-> IF o \in DOMAIN read /\ new[o] # read[o] THEN new[o] ELSE row[o]]

OpenWrite ==
    /\ store = "read"
    /\ store' = "open" /\ read' = <<>>
    /\ row' = Written([o \in DOMAIN read |-> Synced(read[o])])
    /\ UNCHANGED <<doc, table, stage, runs, saves, said, raced, finished>>

\* OutcomeStore.save, by a process that has opened the store before: both names are written.
Save(o, c) ==
    /\ table = "new" /\ saves < MaxSaves
    /\ row' = [row EXCEPT ![o] = [column |-> c, record |-> Doc(Absent, c, "focal")]]
    /\ saves' = saves + 1
    /\ said' = [said EXCEPT ![o] = {c}]
    /\ raced' = IF o \in DOMAIN read THEN raced \cup {o} ELSE raced
    /\ UNCHANGED <<doc, table, store, stage, read, runs, finished>>

\* OutcomeStore.get gives the whole record to Outcome, which knows no old key.
Readable(o) == row[o] = Absent \/ row[o].record.legacy = Absent
\* list_by_focal_actor_context.
Listed(c) == {o \in Outcome : row[o] # Absent /\ row[o].column = c}

StartMigration ==
    /\ stage = 0 /\ runs < MaxRuns /\ read = <<>>
    /\ stage' = 1 /\ runs' = runs + 1
    /\ UNCHANGED <<doc, table, row, store, read, saves, said, raced, finished>>

Advance ==
    /\ stage' = IF stage = Len(Databases) THEN 0 ELSE stage + 1
    /\ finished' = (finished \/ stage = Len(Databases))

MigrateDatabase ==
    /\ stage > 0 /\ Databases[stage] \notin {"outcomes", "value_store"}
    /\ doc' = [c \in Column |-> IF c \in ColumnsOf(Databases[stage]) THEN Renamed(doc[c]) ELSE doc[c]]
    /\ Advance
    /\ UNCHANGED <<table, row, store, read, runs, saves, said, raced>>

\* The table is rebuilt in the transaction; without that the records are read outside of it.
OnOutcomes == stage > 0 /\ Databases[stage] = "outcomes"

RebuildOutcomes ==
    /\ OnOutcomes /\ store # "read"
    /\ table = "old"
    /\ table' = "new"
    /\ row' = [o \in Outcome |-> IF row[o] = Absent THEN Absent ELSE [row[o] EXCEPT !.record = Renamed(@)]]
    /\ Advance
    /\ UNCHANGED <<doc, store, read, runs, saves, said, raced>>

ReadOutcomes ==
    /\ OnOutcomes /\ table \in {"new", "other"} /\ read = <<>> /\ store # "read"
    /\ DOMAIN RowsNow # {} /\ read' = RowsNow
    /\ UNCHANGED <<doc, table, row, store, stage, runs, saves, said, raced, finished>>

\* UPDATE outcomes SET record_json: the column stays.
WriteOutcomes ==
    /\ OnOutcomes /\ read # <<>> /\ store # "read"
    /\ row' = [o \in Outcome |->
                  IF o \in DOMAIN read /\ row[o] # Absent /\ Renamed(read[o].record) # read[o].record
                  THEN [row[o] EXCEPT !.record = Renamed(read[o].record)] ELSE row[o]]
    /\ read' = <<>>
    /\ Advance
    /\ UNCHANGED <<doc, table, store, runs, saves, said, raced>>

NoOutcomes ==
    /\ OnOutcomes /\ table # "old" /\ DOMAIN RowsNow = {} /\ read = <<>>
    /\ Advance
    /\ UNCHANGED <<doc, table, row, store, read, runs, saves, said, raced>>

\* write_text empties the file before it writes it; a file that is cut short is left alone later.
OnValues == stage > 0 /\ Databases[stage] = "value_store"

MigrateValues ==
    /\ OnValues
    /\ doc' = [c \in Column |-> IF c \in ColumnsOf("value_store") THEN Renamed(doc[c]) ELSE doc[c]]
    /\ Advance
    /\ UNCHANGED <<table, row, store, read, runs, saves, said, raced>>

CutShort ==
    /\ OnValues
    /\ \E c \in Column \cap ColumnsOf("value_store") : doc[c] # Renamed(doc[c]) /\ doc' = [doc EXCEPT ![c] = Torn]
    /\ stage' = 0
    /\ UNCHANGED <<table, row, store, read, runs, saves, said, raced, finished>>

\* The process that migrates, or the one that opens the store, ends.
CrashMigration ==
    /\ stage > 0
    /\ stage' = 0 /\ read' = IF store = "read" THEN read ELSE <<>>
    /\ UNCHANGED <<doc, table, row, store, runs, saves, said, raced, finished>>

CrashStore ==
    /\ store # "closed"
    /\ store' = "closed" /\ read' = IF store = "read" THEN <<>> ELSE read
    /\ UNCHANGED <<doc, table, row, stage, runs, saves, said, raced, finished>>

Next ==
    \/ OpenTable \/ OpenRead \/ OpenWrite \/ \E o \in Outcome, c \in Context : Save(o, c)
    \/ StartMigration \/ MigrateDatabase \/ RebuildOutcomes \/ ReadOutcomes \/ WriteOutcomes \/ NoOutcomes
    \/ MigrateValues \/ CutShort \/ CrashMigration \/ CrashStore

Spec == Init /\ [][Next]_vars
----------------------------------------------------------------------------
TypeOK ==
    /\ \A c \in Column : doc[c] = Torn \/ Names(doc[c]) \subseteq Context
    /\ \A o \in Outcome : row[o] # Absent => row[o].column \in Context \cup {Absent}
    /\ stage \in 0..Len(Databases) /\ DOMAIN read \subseteq Outcome

\* Once a migration has come to its end no document has the old key, however often migrations
\* were cut short before and in whatever order they and the store renamed it; a document names
\* a context that it named before, and the same one when it named only one.
MigrationLosesNothing ==
    /\ finished => \A c \in Column : doc[c] # Torn => doc[c].legacy = Absent
    /\ \A c \in Column : doc[c] # Torn => Names(doc[c]) # {} /\ Names(doc[c]) \subseteq said[c]
    /\ \A o \in Outcome \ raced : row[o] # Absent => Names(row[o].record) # {} /\ Names(row[o].record) \subseteq said[o]

\* An open store can read every outcome, and lists an outcome under the one context it names,
\* whichever of the two renamed it; except that a save between another process's read and
\* write of the row is written over.
OpenStoreIsReadable ==
    store = "open" =>
       /\ \A o \in Outcome : Readable(o)
       /\ \A o \in Outcome \ raced, c \in Context : said[o] = {c} => o \in Listed(c)
=============================================================================
