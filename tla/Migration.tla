----------------------------- MODULE Migration -----------------------------
(***************************************************************************)
(* The migration of a project of cmis_v2 to a new version of the ontology  *)
(* (ontology_migration.py): the map of renamed and removed identifiers,    *)
(* the manifest's version, and the files of engine_data one after the      *)
(* other.  The engines' memory is left alone, and a process may end        *)
(* between any two files.                                                  *)
(***************************************************************************)
EXTENDS Naturals, Sequences

CONSTANTS Key,        \* the files of the project's engine data
          Field,
          Id,         \* identifiers of metrics and traits, old and new
          Given,      \* contents that engines write: [Field -> Id]
          Map,        \* migration maps: [renames, removals], renames a sequence of pairs
          None        \* no map, no copy in the memory, or an entry that is gone

\* A map gives each identifier at most one new name.
MigrationAssumption ==
    /\ None \notin Id /\ None \notin Map /\ Given \subseteq [Field -> Id]
    /\ \A m \in Map :
         /\ m.renames \in Seq(Id \X Id) /\ m.removals \subseteq Id
         /\ \A i, j \in DOMAIN m.renames : m.renames[i][1] = m.renames[j][1] => i = j

VARIABLES version,    \* of the manifest: "old" or "current"
          map,        \* the map from the old to the current version, if there is one
          file, copy, \* engine_data and the engines' memory
          left,       \* the files that a migration under way has not come to
          said,       \* what each file was last given to say by an engine
          lagging     \* the files that a migration did not reach, or that were written after it
                      \* from a copy made before it

vars == <<version, map, file, copy, left, said, lagging>>

Init ==
    /\ version = "old" /\ map = None /\ left = {} /\ lagging = {}
    /\ said \in [Key -> Given] /\ file = said
    /\ copy = [k \in Key |-> None]

\* check_compatibility: whether the versions agree; a rename or a removal in the map breaks.
Compatible == version = "current"

\* create_migration_map, before the project is migrated.
CreateMigrationMap ==
    /\ ~Compatible
    /\ map' \in Map
    /\ UNCHANGED <<version, file, copy, left, said, lagging>>

\* The renames one after the other, over the text of the whole file.
Renamed(id, m) ==
    LET after[i \in 0 .. Len(m.renames)] ==
            IF i = 0 THEN id
            ELSE IF after[i - 1] = m.renames[i][1] THEN m.renames[i][2] ELSE after[i - 1]
    IN  after[Len(m.renames)]

Replaced(content, m) == [f \in Field |-> Renamed(content[f], m)]

\* _remove_keys_recursive: entries that hold a removed identifier are dropped.
WithoutRemoved(content, m) ==
    [f \in Field |-> IF content[f] \in m.removals THEN None ELSE content[f]]

\* Mutant: a file in which nothing is renamed is left alone.
MigratedIfRenamed(content, m) ==
    IF Replaced(content, m) = content THEN content ELSE WithoutRemoved(Replaced(content, m), m)

Migrated(content, m) == WithoutRemoved(Replaced(content, m), m)

\* migrate_project: the manifest is written first.
StartMigration ==
    /\ ~Compatible /\ map # None /\ left = {}
    /\ version' = "current" /\ left' = Key
    /\ UNCHANGED <<map, file, copy, said, lagging>>

MigrateFile(k) ==
    /\ k \in left
    /\ file' = [file EXCEPT ![k] = Migrated(@, map)]
    /\ left' = left \ {k}
    /\ UNCHANGED <<version, map, copy, said, lagging>>

\* The process ends: what the migration has not come to stays old, and the next one finds the
\* version current.
End ==
    /\ left' = {} /\ lagging' = lagging \union left
    /\ copy' = [k \in Key |-> None]
    /\ UNCHANGED <<version, map, file, said>>

\* An engine loads a file, and writes back what it holds with one more change.
Load(k) ==
    /\ left = {} /\ copy[k] = None
    /\ copy' = [copy EXCEPT ![k] = file[k]]
    /\ UNCHANGED <<version, map, file, left, said, lagging>>

Save(k) ==
    /\ left = {} /\ copy[k] # None
    /\ file' = [file EXCEPT ![k] = copy[k]]
    /\ lagging' = IF copy[k] = file[k] THEN lagging ELSE lagging \union {k}
    /\ UNCHANGED <<version, map, copy, left, said>>

Next ==
    \/ CreateMigrationMap \/ StartMigration \/ End
    \/ \E k \in Key : MigrateFile(k) \/ Load(k) \/ Save(k)

Spec == Init /\ [][Next]_vars

-----------------------------------------------------------------------------
TypeOK ==
    /\ version \in {"old", "current"} /\ map \in Map \union {None}
    /\ file \in [Key -> [Field -> Id \union {None}]]
    /\ copy \in [Key -> [Field -> Id \union {None}] \union {None}]
    /\ left \subseteq Key /\ lagging \subseteq Key /\ said \in [Key -> Given]

\* A map in which no new name is itself renamed later, and none that is renamed is removed.
Plain(m) ==
    /\ \A i, j \in DOMAIN m.renames : i < j => m.renames[i][2] # m.renames[j][1]
    /\ \A i \in DOMAIN m.renames : {m.renames[i][1], m.renames[i][2]} \intersect m.removals = {}

NewName(id, m) ==
    IF id \in m.removals THEN None
    ELSE IF \E i \in DOMAIN m.renames : m.renames[i][1] = id
    THEN LET r == CHOOSE i \in DOMAIN m.renames : m.renames[i][1] = id IN m.renames[r][2]
    ELSE id

\* A file says in the new terms what it said in the old ones, each identifier by its own new name,
\* as soon as the migration has come to it, unless the process ended before that, an engine wrote
\* an older copy over it, or the map renames an identifier twice.
MigratedMeansTheSame ==
    (version = "current" /\ Plain(map)) =>
        \A k \in Key \ (left \union lagging) :
            file[k] = [f \in Field |-> NewName(said[k][f], map)]
=============================================================================
