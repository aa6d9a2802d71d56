------------------------------- MODULE Stores -------------------------------
(***************************************************************************)
(* The stores of what a project knows: its engine data under a migration   *)
(* to a new ontology (Migration), artifacts (Artifacts), documents under   *)
(* the keys of older versions (Legacy), beliefs (Beliefs), packs of curated *)
(* bundles (Packs) and the contexts that outcomes update (Feedback).  They *)
(* share no state: the initial state chooses a component, which may be one *)
(* of these or another, and only that one moves.  What is proved of each   *)
(* is instantiated with it.                                                *)
(***************************************************************************)
EXTENDS Integers, Sequences, FiniteSets

CONSTANTS
    Component,  \* the components that are looked at
    Absent, None, Torn,
    \* of Migration
    DataKey, Field, Id, Contents, Map,
    \* of Artifacts and Packs: processes that write
    Client,
    \* of Artifacts
    Bytes, Damage, MaxArtifacts, MaxClock, MaxResets,
    \* of Legacy
    Column, OutcomeId, Context, MaxRuns, MaxSaves,
    \* of Beliefs
    Process, Lifetime, MaxHour, MaxFiles, MaxObservations,
    \* of Packs
    Pack, Base, Bundle, PackSpec, Lineage, Question, MaxVersions, MaxContexts,
    \* of Feedback
    Engine, Registered, Observation, About, MaxUpdates, MaxNotes

VARIABLES which,
    version, map, dataFile, copy, lagging, meant, waiting,
    place, sha, has, put, backups, toMove, withBackup, second, resets, gone, damaged,
    doc, table, row, store, stage, read, runs, saves, named, raced, finished,
    files, torn, cache, hour, observed, reply,
    tables, saved, writer, held, contexts, asked, answer, verified, served,
    toldStrategies, inMemory, lists, margins, rows, outcomeRows, notes, updates, applied, straight

ontology == <<version, map, dataFile, copy, lagging, meant, waiting>>
artifacts == <<place, sha, has, put, backups, toMove, withBackup, second, resets, gone, damaged>>
legacy == <<doc, table, row, store, stage, read, runs, saves, named, raced, finished>>
beliefs == <<files, torn, cache, hour, observed, reply>>
packStore == <<tables, saved, writer, held, contexts, asked, answer, verified, served>>
feedback == <<toldStrategies, inMemory, lists, margins, rows, outcomeRows, notes, updates, applied,
              straight>>
storeVars == <<which, ontology, artifacts, legacy, beliefs, packStore, feedback>>

O == INSTANCE Migration WITH Key <- DataKey, Given <- Contents, file <- dataFile, said <- meant, left <- waiting
A == INSTANCE Artifacts WITH answer <- put, left <- toMove, now <- second
L == INSTANCE Legacy WITH Outcome <- OutcomeId, said <- named
B == INSTANCE Beliefs WITH MaxClock <- MaxHour, now <- hour, given <- observed, answer <- reply
P == INSTANCE Packs
F == INSTANCE Feedback WITH Given <- Registered, Outcome <- Observation, strategies <- toldStrategies

ASSUME OntologyAssumption == O!MigrationAssumption
ASSUME StorageAssumption == A!ArtifactAssumption
ASSUME KeysAssumption == L!LegacyAssumption
ASSUME PriorsAssumption == B!BeliefAssumption
ASSUME PackingAssumption == P!PackAssumption
ASSUME VersionsAssumption == F!FeedbackAssumption

Stored == {"ontology", "storage", "keys", "belief", "packing", "versions"}

StoresInit ==
    /\ which \in Component
    /\ which = "ontology" => O!Init
    /\ which = "storage" => A!Init
    /\ which = "keys" => L!Init
    /\ which = "belief" => B!Init
    /\ which = "packing" => P!Init
    /\ which = "versions" => F!Init

StoresNext ==
    \/ which = "ontology" /\ O!Next /\ UNCHANGED <<which, artifacts, legacy, beliefs, packStore, feedback>>
    \/ which = "storage" /\ A!Next /\ UNCHANGED <<which, ontology, legacy, beliefs, packStore, feedback>>
    \/ which = "keys" /\ L!Next /\ UNCHANGED <<which, ontology, artifacts, beliefs, packStore, feedback>>
    \/ which = "belief" /\ B!Next /\ UNCHANGED <<which, ontology, artifacts, legacy, packStore, feedback>>
    \/ which = "packing" /\ P!Next /\ UNCHANGED <<which, ontology, artifacts, legacy, beliefs, feedback>>
    \/ which = "versions" /\ F!Next /\ UNCHANGED <<which, ontology, artifacts, legacy, beliefs, packStore>>

\* Another component may use the variables of these as its own.
OthersNext == which \notin Stored /\ UNCHANGED which

StoresSpec == StoresInit /\ [][StoresNext \/ OthersNext]_storeVars

-----------------------------------------------------------------------------
(* The properties of the components, for the one that was chosen           *)

\* Every store stays within its types.
StoresTypeOK ==
    /\ which = "ontology" => O!TypeOK
    /\ which = "storage" => A!TypeOK
    /\ which = "keys" => L!TypeOK
    /\ which = "belief" => B!TypeOK
    /\ which = "packing" => P!TypeOK
    /\ which = "versions" => F!TypeOK

\* What was stored keeps its meaning under its new names, and can be found, wherever a put, a reset
\* or a migration was cut short (stores/artifact_store.py, outcome_store.py, storage_migration.py,
\* cmis_v2/ontology_migration.py); and the versions of packs and contexts hold all that was put into
\* them (pack_store.py, context_learner.py).
StorageIsBacked ==
    /\ which = "ontology" => O!MigratedMeansTheSame
    /\ which = "storage" => A!ArtifactsAreBacked /\ A!BackupsKeepAll
    /\ which = "keys" => L!MigrationLosesNothing /\ L!OpenStoreIsReadable
    /\ which = "packing" => P!VersionsAreDense
    /\ which = "versions" => F!NothingLearnedIsLost

\* A prior that is returned is the newest a process can know of, and a posterior counts the
\* observations it was made of (prior_manager.py, belief_engine.py, belief_updater.py).
PriorsAreBacked == which = "belief" => B!PriorIsCurrent /\ B!CountsAreBacked
=============================================================================
