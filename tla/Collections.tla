---------------------------- MODULE Collections ----------------------------
(***************************************************************************)
(* What an analysis of cmis_v2 gathers: the collections of evidence of     *)
(* engines/evidence.py and the snapshots of engines/world.py, each in the  *)
(* memory of the process and, written whole after every change, in a file  *)
(* of the project (engine_store.py).  A miss in the memory loads the file. *)
(* A process that ends while it writes a file leaves it torn.              *)
(***************************************************************************)
EXTENDS Integers, Sequences, FiniteSets, SequencesExt

CONSTANTS Project, Metric,
          TierOf,          \* [source |-> the tier of its records]
          MaxFound,        \* records that a source answers with, at most
          Node,            \* [type, traits]: what a node may be
          MaxCollections, MaxRecords, MaxSnapshots, MaxNodes, MaxEdges,
          Absent, Torn

VARIABLES evidence, evidenceFile, snapshots, snapshotFile

stores == <<evidence, evidenceFile, snapshots, snapshotFile>>

Tier == {"official", "curated", "commercial", "web"}
RecordTier == Tier \union {"estimation_output"}
Source == DOMAIN TierOf
Collection == 1 .. MaxCollections
Snapshot == 1 .. MaxSnapshots
NodeType == {n.type : n \in Node}

\* The adapters of _SOURCE_ADAPTERS and the tiers they know.
SourceAssumption ==
    /\ Source \subseteq {"web_search", "kosis", "dart"}
    /\ TierOf \in [Source -> Tier]
    /\ {MaxFound, MaxCollections, MaxRecords, MaxSnapshots, MaxNodes, MaxEdges} \subseteq Nat

Blank(Id) == [i \in Id |-> Absent]

StoresInit ==
    /\ evidence = Blank(Collection) /\ snapshots = Blank(Snapshot)
    /\ evidenceFile = [p \in Project |-> Blank(Collection)]
    /\ snapshotFile = [p \in Project |-> Blank(Snapshot)]

\* An identifier drawn by uuid4 is a new one.
Fresh(memory, file, i) == memory[i] = Absent /\ \A p \in Project : file[p][i] = Absent
Newest(memory, file, i) == Fresh(memory, file, i) /\ \A j \in 1 .. i - 1 : ~Fresh(memory, file, j)

\* What a process finds under an identifier: its memory, else the file; json.loads raises on a
\* torn one.
Loaded(memory, file, i) == IF memory[i] # Absent THEN memory[i] ELSE file[i]
Found(memory, file, i) == Loaded(memory, file, i) \notin {Absent, Torn}

-----------------------------------------------------------------------------
(***************************************************************************)
(* Evidence.                                                               *)
(***************************************************************************)
CountTier(records, t) == Cardinality({i \in DOMAIN records : records[i].tier = t})

\* What an adapter answers: up to MaxFound records of its tier; no key, an answer that does not
\* come and one that cannot be read are all answers without records.
WebFound(now) == {[j \in 1 .. n |-> [tier |-> TierOf["web_search"], at |-> now]] : n \in 0 .. MaxFound}
KosisFound(now) == {[j \in 1 .. n |-> [tier |-> TierOf["kosis"], at |-> now]] : n \in 0 .. MaxFound}
DartFound(now) == {[j \in 1 .. n |-> [tier |-> TierOf["dart"], at |-> now]] : n \in 0 .. MaxFound}
AdapterFound(src, now) ==
    CASE src = "web_search" -> WebFound(now) [] src = "kosis" -> KosisFound(now)
      [] OTHER -> DartFound(now)

\* A new collection of these records, asked for these metrics.
Collected(records, metrics) ==
    [records |-> records, total |-> Len(records),
     byTier |-> [t \in Tier |-> CountTier(records, t)],
     covered |-> [m \in metrics |-> FALSE]]

\* Mutant: a record of a tier that is not counted is not counted in the total either.
WithRecordCounted(c, tier, now, metrics) ==
    [c EXCEPT !.records = Append(@, [tier |-> tier, at |-> now]),
              !.total = IF tier \in Tier THEN @ + 1 ELSE @,
              !.byTier = [t \in Tier |-> IF t = tier THEN @[t] + 1 ELSE @[t]],
              !.covered = [m \in DOMAIN @ |-> @[m] \/ m \in metrics]]

WithRecord(c, tier, now, metrics) ==
    [c EXCEPT !.records = Append(@, [tier |-> tier, at |-> now]),
              !.total = Len(c.records) + 1,
              !.byTier = [t \in Tier |-> IF t = tier THEN @[t] + 1 ELSE @[t]],
              !.covered = [m \in DOMAIN @ |-> @[m] \/ m \in metrics]]

KeepEvidence(p, i, c) ==
    /\ evidence' = [evidence EXCEPT ![i] = c]
    /\ evidenceFile' = [evidenceFile EXCEPT ![p][i] = c]
    /\ UNCHANGED <<snapshots, snapshotFile>>

\* collect_evidence, from these sources one after the other.
CollectEvidence(p, sources, metrics, now) ==
    \E i \in Collection : \E found \in [DOMAIN sources -> UNION {AdapterFound(s, now) : s \in Source}] :
        /\ Newest(evidence, evidenceFile, i)
        /\ \A k \in DOMAIN sources : found[k] \in AdapterFound(sources[k], now)
        /\ Len(FlattenSeq(found)) <= MaxRecords
        /\ KeepEvidence(p, i, Collected(FlattenSeq(found), metrics))

AddRecord(p, i, tier, metrics, now) ==
    /\ Found(evidence, evidenceFile[p], i)
    /\ LET c == Loaded(evidence, evidenceFile[p], i)
       IN  Len(c.records) < MaxRecords /\ KeepEvidence(p, i, WithRecord(c, tier, now, metrics))

GetEvidence(p, i) ==
    /\ Found(evidence, evidenceFile[p], i)
    /\ evidence' = [evidence EXCEPT ![i] = Loaded(evidence, evidenceFile[p], i)]
    /\ UNCHANGED <<evidenceFile, snapshots, snapshotFile>>

-----------------------------------------------------------------------------
(***************************************************************************)
(* The graph.                                                              *)
(***************************************************************************)
EmptySnapshot == [nodes |-> <<>>, edges |-> 0, counts |-> [t \in NodeType |-> 0], edgeCount |-> 0]

WithNode(s, n) == [s EXCEPT !.nodes = Append(@, n), !.counts[n.type] = @ + 1]

WithEdge(s) == [s EXCEPT !.edges = @ + 1, !.edgeCount = @ + 1]

KeepSnapshot(p, i, s) ==
    /\ snapshots' = [snapshots EXCEPT ![i] = s]
    /\ snapshotFile' = [snapshotFile EXCEPT ![p][i] = s]
    /\ UNCHANGED <<evidence, evidenceFile>>

BuildSnapshot(p) ==
    \E i \in Snapshot : Newest(snapshots, snapshotFile, i) /\ KeepSnapshot(p, i, EmptySnapshot)

\* Mutant: a snapshot that the memory misses is started anew.
AddNodeAnew(p, i, n) ==
    /\ Found(snapshots, snapshotFile[p], i)
    /\ LET s == IF snapshots[i] = Absent THEN EmptySnapshot ELSE snapshots[i]
       IN  Len(s.nodes) < MaxNodes /\ KeepSnapshot(p, i, WithNode(s, n))

AddNode(p, i, n) ==
    /\ Found(snapshots, snapshotFile[p], i)
    /\ LET s == Loaded(snapshots, snapshotFile[p], i)
       IN  Len(s.nodes) < MaxNodes /\ KeepSnapshot(p, i, WithNode(s, n))

\* Neither end of an edge has to be a node of the snapshot.
AddEdge(p, i) ==
    /\ Found(snapshots, snapshotFile[p], i)
    /\ LET s == Loaded(snapshots, snapshotFile[p], i)
       IN  s.edges < MaxEdges /\ KeepSnapshot(p, i, WithEdge(s))

GetSnapshot(p, i) ==
    /\ Found(snapshots, snapshotFile[p], i)
    /\ snapshots' = [snapshots EXCEPT ![i] = Loaded(snapshots, snapshotFile[p], i)]
    /\ UNCHANGED <<evidence, evidenceFile, snapshotFile>>

-----------------------------------------------------------------------------
\* The process ends, perhaps while it writes the file of an object it has in its memory.
StoresEnd(torn) ==
    /\ evidence' = Blank(Collection) /\ snapshots' = Blank(Snapshot)
    /\ evidenceFile' = [p \in Project |-> [i \in Collection |->
                          IF <<"evidence", p, i>> = torn THEN Torn ELSE evidenceFile[p][i]]]
    /\ snapshotFile' = [p \in Project |-> [i \in Snapshot |->
                          IF <<"snapshot", p, i>> = torn THEN Torn ELSE snapshotFile[p][i]]]

MayTear ==
    {<<"evidence", p, i>> : p \in Project, i \in {j \in Collection : evidence[j] # Absent}}
    \union {<<"snapshot", p, i>> : p \in Project, i \in {j \in Snapshot : snapshots[j] # Absent}}
    \union {<<"none">>}

-----------------------------------------------------------------------------
(***************************************************************************)
(* Properties.                                                             *)
(***************************************************************************)
Kept(memory, file, Id) == {memory[i] : i \in Id} \union {file[p][i] : p \in Project, i \in Id}
KeptEvidence == Kept(evidence, evidenceFile, Collection) \ {Absent, Torn}
KeptSnapshots == Kept(snapshots, snapshotFile, Snapshot) \ {Absent, Torn}

EvidenceTypeOK ==
    \A c \in KeptEvidence :
        /\ c.records \in Seq([tier : RecordTier, at : Nat]) /\ c.total \in Nat
        /\ c.byTier \in [Tier -> Nat] /\ DOMAIN c.covered \subseteq Metric

SnapshotTypeOK ==
    \A s \in KeptSnapshots :
        /\ s.nodes \in Seq(Node) /\ {s.edges, s.edgeCount} \subseteq Nat /\ s.counts \in [NodeType -> Nat]

\* The figures that the gates and the model read are those of the records, of the nodes and of the
\* edges, in the memory and in the files, whatever was loaded, changed and saved in between.
CountersAreTrue ==
    /\ \A c \in KeptEvidence :
        c.total = Len(c.records) /\ \A t \in Tier : c.byTier[t] = CountTier(c.records, t)
    /\ \A s \in KeptSnapshots :
        /\ s.edgeCount = s.edges
        /\ \A t \in NodeType : s.counts[t] = Cardinality({i \in DOMAIN s.nodes : s.nodes[i].type = t})

\* Nothing that was gathered is lost but by a process that ended while it wrote the file: a file
\* only grows, because what the memory misses is loaded before it is changed.
NothingGatheredIsLost ==
    [][\A p \in Project :
        /\ \A i \in Collection :
            evidenceFile[p][i] \in {Absent, Torn} \/ evidenceFile'[p][i] = Torn
            \/ IsPrefix(evidenceFile[p][i].records, evidenceFile'[p][i].records)
        /\ \A i \in Snapshot :
            snapshotFile[p][i] \in {Absent, Torn} \/ snapshotFile'[p][i] = Torn
            \/ IsPrefix(snapshotFile[p][i].nodes, snapshotFile'[p][i].nodes)]_stores
=============================================================================
