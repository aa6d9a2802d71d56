--------------------------- MODULE SessionProofs ---------------------------
(***************************************************************************)
(* Theorems about a session of the tools of cmis_v2, for any projects,     *)
(* metrics, sources, nodes, modes and tools, any number of calls and       *)
(* restarts: the figures of evidence and graph are true, a value that is   *)
(* "ok" and gates that passed are backed, and what locked findings rest on *)
(* is frozen.  For one project nothing that was gathered is lost.          *)
(*                                                                         *)
(* A file is loaded into the memory, changed there and written back, so    *)
(* IInv says of every object in the memory and in the files what the       *)
(* properties say of those that are kept: Gathered, Drawn and Worth are    *)
(* the collections, snapshots and values a tool may have made.             *)
(*                                                                         *)
(* The last parts are about the estimates of cmis_v2 and what is learned     *)
(* from outcomes, for any estimates, outcomes, projects and restarts: what *)
(* a fusion of estimates claims, and what is lost and kept in the files;   *)
(* and about the ranges that declared relations narrow.                    *)
(***************************************************************************)
EXTENDS Session, FiniteSetTheorems, WellFoundedInduction, TLAPS

\* The assumptions of the modules of a session about their constants.
Assumptions == SourceAssumption /\ ModeAssumption /\ ValueAssumption /\ BoundAssumption

Record == [tier : RecordTier, at : Nat]

Gathered ==
    {c \in [records : Seq(Record), total : Nat, byTier : [Tier -> Nat],
            covered : UNION {[S -> BOOLEAN] : S \in SUBSET Metric}] :
        c.total = Len(c.records) /\ \A t \in Tier : c.byTier[t] = CountTier(c.records, t)}

CountType(nodes, t) == Cardinality({i \in DOMAIN nodes : nodes[i].type = t})

Drawn ==
    {s \in [nodes : Seq(Node), edges : Nat, counts : [NodeType -> Nat], edgeCount : Nat] :
        s.edgeCount = s.edges /\ \A t \in NodeType : s.counts[t] = CountType(s.nodes, t)}

Worth ==
    {v \in [set : BOOLEAN, confidence : 0 .. 10, method : Method,
            status : {"insufficient", "force_unverified", "unverified", "ok", "low_confidence"},
            evidence : Evidence \union {Absent}, given : Evidence \union {Absent}] :
        v.status = "ok" => v.set /\ v.given # Absent /\ v.evidence = v.given /\ v.confidence >= Sure}

SessionOK == state \in [Project -> ProjectState] /\ year \in 0 .. MaxYear /\ calls \in 0 .. MaxCalls

StoresOK ==
    /\ evidence \in [Collection -> Gathered \union {Absent}]
    /\ evidenceFile \in [Project -> [Collection -> Gathered \union {Absent, Torn}]]
    /\ snapshots \in [Snapshot -> Drawn \union {Absent}]
    /\ snapshotFile \in [Project -> [Snapshot -> Drawn \union {Absent, Torn}]]

LedgerOK ==
    /\ values \in [Metric -> Worth \union {Absent}]
    /\ valueFile \in [Project -> [Metric -> Worth \union {Absent}]]

IInv == SessionOK /\ StoresOK /\ LedgerOK /\ PassedMeansAll

-----------------------------------------------------------------------------
(* Counting *)

OfKind(seq, Kind) == Cardinality({i \in DOMAIN seq : seq[i] \in Kind})

\* A sequence that grows by one element has one more, or as many, of a kind.
LEMMA CountGrows ==
    ASSUME NEW S, NEW seq \in Seq(S), NEW x \in S, NEW Kind
    PROVE  /\ OfKind(seq, Kind) \in Nat
           /\ OfKind(Append(seq, x), Kind) =
                IF x \in Kind THEN OfKind(seq, Kind) + 1 ELSE OfKind(seq, Kind)
<1> DEFINE longer == Append(seq, x)
           n == Len(seq) + 1
           old == {i \in DOMAIN seq : seq[i] \in Kind}
           new == {i \in DOMAIN longer : longer[i] \in Kind}
<1>1. /\ DOMAIN seq = 1 .. Len(seq) /\ Len(seq) \in Nat
      /\ DOMAIN longer = 1 .. n
      /\ \A i \in DOMAIN seq : longer[i] = seq[i]
      /\ longer[n] = x
  OBVIOUS
<1>2. IsFiniteSet(old)
  <2>1. IsFiniteSet(1 .. Len(seq))
    BY <1>1, FS_Interval
  <2> QED BY <1>1, <2>1, FS_Subset
<1>3. new = IF x \in Kind THEN old \cup {n} ELSE old
  BY <1>1
<1>4. n \notin old
  BY <1>1
<1>5. Cardinality(old) \in Nat
  BY <1>2, FS_CardinalityType
<1>6. Cardinality(old \cup {n}) = Cardinality(old) + 1
  BY <1>2, <1>4, FS_AddElement
<1> QED BY <1>3, <1>5, <1>6 DEF OfKind

\* A set that holds 0, and with a number the next, holds every natural number.
LEMMA CountingUp ==
    ASSUME NEW S, 0 \in S, \A n \in Nat : n \in S => n + 1 \in S
    PROVE  Nat \subseteq S
<1> DEFINE out == Nat \ S
<1>1. SUFFICES ASSUME out # {} PROVE FALSE
  OBVIOUS
<1>2. IsWellFoundedOn(OpToRel(<, Nat), Nat)
  BY NatLessThanWellFounded, Zenon
<1>3. PICK least \in out : \A y \in out : ~ (<<y, least>> \in OpToRel(<, Nat))
  <2>1. out \subseteq Nat
    OBVIOUS
  <2> HIDE DEF out
  <2> QED BY <1>1, <1>2, <2>1, WFMin, Zenon
<1>4. least # 0 /\ least - 1 \in Nat
  OBVIOUS
<1>5. least - 1 \in S
  <2>1. \A y \in out : ~ (y < least)
    BY <1>3 DEF OpToRel
  <2> QED BY <1>4, <2>1
<1>6. (least - 1) + 1 \in S
  BY <1>4, <1>5
<1> QED BY <1>4, <1>6

\* The records of several answers in a row are a sequence of records: the recursive function of
\* FlattenSeq exists, because the one for a beginning of the answers can be extended by one.
LEMMA FlatIsSequence ==
    ASSUME NEW S, NEW seqs \in Seq(Seq(S))
    PROVE  FlattenSeq(seqs) \in Seq(S)
<1> DEFINE Flat(g, k) == g = [i \in 1 .. k |-> IF i = 1 THEN seqs[i] ELSE g[i - 1] \o seqs[i]]
           flatten == CHOOSE g : Flat(g, Len(seqs))
           done == {k \in Nat : k <= Len(seqs) => \E g : Flat(g, k)}
<1>1. FlattenSeq(seqs) = IF Len(seqs) = 0 THEN seqs ELSE flatten[Len(seqs)]
  BY Zenon DEF FlattenSeq
<1>2. Len(seqs) \in Nat /\ \A i \in 1 .. Len(seqs) : seqs[i] \in Seq(S)
  OBVIOUS
<1>3. ASSUME NEW k \in Nat, k < Len(seqs), NEW g, Flat(g, k)
      PROVE  \E h : Flat(h, k + 1)
  <2> DEFINE next == IF k = 0 THEN seqs[1] ELSE g[k] \o seqs[k + 1]
             h == [i \in 1 .. k + 1 |-> IF i <= k THEN g[i] ELSE next]
             again == [i \in 1 .. k + 1 |-> IF i = 1 THEN seqs[i] ELSE h[i - 1] \o seqs[i]]
  <2>1. ASSUME NEW i \in 1 .. k PROVE h[i] = again[i]
    <3>1. g[i] = IF i = 1 THEN seqs[i] ELSE g[i - 1] \o seqs[i]
      <4> DEFINE G(j) == IF j = 1 THEN seqs[j] ELSE g[j - 1] \o seqs[j]
      <4>1. g = [j \in 1 .. k |-> G(j)]
        BY <1>3
      <4> HIDE DEF G
      <4>2. g[i] = G(i)
        BY <2>1, <4>1
      <4> QED BY <4>2 DEF G
    <3>2. h[i] = g[i] /\ (i # 1 => h[i - 1] = g[i - 1])
      BY <1>3, <2>1
    <3> QED BY <1>3, <2>1, <3>1, <3>2
  <2>2. h[k + 1] = again[k + 1]
    BY <1>3
  <2>3. \A i \in 1 .. k + 1 : h[i] = again[i]
    <3> HIDE DEF h, again
    <3>1. \A i \in 1 .. k + 1 : i \in 1 .. k \/ i = k + 1
      OBVIOUS
    <3> QED BY <2>1, <2>2, <3>1
  <2>4. h = again
    <3>1. /\ h = [i \in 1 .. k + 1 |-> h[i]]
          /\ again = [i \in 1 .. k + 1 |-> again[i]]
      OBVIOUS
    <3> HIDE DEF h, again
    <3> QED BY <2>3, <3>1
  <2>5. Flat(h, k + 1)
    BY <2>4
  <2> HIDE DEF h, Flat
  <2> QED BY <2>5
<1>4. Nat \subseteq done
  <2>1. 0 \in done
    <3>1. Flat([i \in 1 .. 0 |-> <<>>], 0)
      OBVIOUS
    <3> HIDE DEF Flat
    <3> QED BY <3>1
  <2>2. ASSUME NEW k \in Nat, k \in done PROVE k + 1 \in done
    <3> HIDE DEF Flat
    <3> SUFFICES ASSUME k + 1 <= Len(seqs) PROVE \E g : Flat(g, k + 1)
      OBVIOUS
    <3>1. k < Len(seqs) /\ k <= Len(seqs)
      BY <1>2
    <3>2. PICK g : Flat(g, k)
      BY <2>2, <3>1
    <3> QED BY <1>3, <3>1, <3>2
  <2> HIDE DEF done
  <2> QED BY <2>1, <2>2, CountingUp
<1>5. Flat(flatten, Len(seqs))
  <2> HIDE DEF Flat
  <2>1. \E g : Flat(g, Len(seqs))
    BY <1>2, <1>4
  <2> QED BY <2>1, Zenon
<1>6. ASSUME NEW k \in Nat, 0 < k, k <= Len(seqs) PROVE flatten[k] \in Seq(S)
  <2> DEFINE typed == {j \in Nat : 0 < j /\ j <= Len(seqs) => flatten[j] \in Seq(S)}
  <2>1. \A j \in 1 .. Len(seqs) :
          flatten[j] = IF j = 1 THEN seqs[j] ELSE flatten[j - 1] \o seqs[j]
    <3> DEFINE F == flatten
    <3>1. Flat(F, Len(seqs))
      BY <1>5
    <3> HIDE DEF F
    <3> QED BY <3>1 DEF F
  <2> HIDE DEF flatten
  <2>2. 0 \in typed
    OBVIOUS
  <2>3. ASSUME NEW j \in Nat, j \in typed PROVE j + 1 \in typed
    <3> SUFFICES ASSUME j + 1 <= Len(seqs) PROVE flatten[j + 1] \in Seq(S)
      OBVIOUS
    <3>1. seqs[j + 1] \in Seq(S)
      BY <1>2
    <3>2. CASE j = 0
      BY <1>2, <2>1, <3>1, <3>2
    <3>3. CASE j # 0
      <4>1. flatten[j + 1] = flatten[j] \o seqs[j + 1]
        <5>1. j + 1 \in 1 .. Len(seqs) /\ j + 1 # 1 /\ (j + 1) - 1 = j
          BY <1>2, <3>3
        <5> QED BY <2>1, <5>1
      <4>2. flatten[j] \in Seq(S)
        BY <1>2, <2>3, <3>3
      <4> QED BY <3>1, <4>1, <4>2
    <3> QED BY <3>2, <3>3
  <2>4. Nat \subseteq typed
    <3> HIDE DEF typed
    <3> QED BY <2>2, <2>3, CountingUp
  <2> QED BY <1>6, <2>4
<1> HIDE DEF flatten
<1> QED BY <1>1, <1>2, <1>6

-----------------------------------------------------------------------------
(* What the tools make of evidence, snapshots and values                   *)

\* A new collection counts its records.
LEMMA CollectedCounts ==
    ASSUME NEW records \in Seq(Record), NEW metrics \in SUBSET Metric
    PROVE  Collected(records, metrics) \in Gathered
<1>1. ASSUME NEW t \in Tier PROVE CountTier(records, t) \in Nat
  <2>1. IsFiniteSet(1 .. Len(records))
    BY FS_Interval
  <2>2. {i \in DOMAIN records : records[i].tier = t} \subseteq 1 .. Len(records)
    OBVIOUS
  <2> QED BY <2>1, <2>2, FS_Subset, FS_CardinalityType DEF CountTier
<1>2. [m \in metrics |-> FALSE] \in UNION {[S -> BOOLEAN] : S \in SUBSET Metric}
  <2>1. [m \in metrics |-> FALSE] \in [metrics -> BOOLEAN]
    OBVIOUS
  <2> QED BY <2>1
<1> QED BY <1>1, <1>2 DEF Collected, Gathered

\* A record that is added is counted in the total and in its tier.
LEMMA WithRecordCounts ==
    ASSUME NEW c \in Gathered, NEW tier \in RecordTier, NEW now \in Nat, NEW metrics \in SUBSET Metric
    PROVE  /\ WithRecord(c, tier, now, metrics) \in Gathered
           /\ WithRecord(c, tier, now, metrics).records = Append(c.records, [tier |-> tier, at |-> now])
<1> DEFINE r == [tier |-> tier, at |-> now]
           d == WithRecord(c, tier, now, metrics)
           covers == [m \in DOMAIN c.covered |-> c.covered[m] \/ m \in metrics]
           tiers == [t \in Tier |-> IF t = tier THEN c.byTier[t] + 1 ELSE c.byTier[t]]
<1>1. /\ c.records \in Seq(Record) /\ c.total \in Nat /\ c.byTier \in [Tier -> Nat]
      /\ c.covered \in UNION {[S -> BOOLEAN] : S \in SUBSET Metric}
      /\ \A t \in Tier : c.byTier[t] = CountTier(c.records, t)
  BY DEF Gathered
<1>2. d = [records |-> Append(c.records, r), total |-> Len(c.records) + 1, byTier |-> tiers,
           covered |-> covers]
  <2> DEFINE longer == Append(c.records, r)
             Some == UNION {[S -> BOOLEAN] : S \in SUBSET Metric}
  <2>1. d = [c EXCEPT !.records = longer, !.total = Len(c.records) + 1, !.byTier = tiers,
                      !.covered = covers]
    BY Zenon DEF WithRecord
  <2>2. c \in [records : Seq(Record), total : Nat, byTier : [Tier -> Nat], covered : Some]
    BY DEF Gathered
  <2> HIDE DEF Some, longer, tiers, covers, d
  <2>3. d = [records |-> longer, total |-> Len(c.records) + 1, byTier |-> tiers, covered |-> covers]
    BY <2>1, <2>2
  <2> QED BY <2>3 DEF longer
<1>3. r \in Record
  BY DEF Record
<1>4. covers \in UNION {[S -> BOOLEAN] : S \in SUBSET Metric}
  <2>1. PICK S \in SUBSET Metric : c.covered \in [S -> BOOLEAN]
    BY <1>1
  <2>2. covers \in [S -> BOOLEAN]
    BY <2>1
  <2> QED BY <2>2
<1>5. ASSUME NEW t \in Tier PROVE tiers[t] = CountTier(Append(c.records, r), t)
  <2> DEFINE Kind == {x \in Record : x.tier = t}
             longer == Append(c.records, r)
  <2>1. CountTier(c.records, t) = OfKind(c.records, Kind)
    <3>1. \A i \in DOMAIN c.records : c.records[i] \in Record
      BY <1>1
    <3>2. {i \in DOMAIN c.records : c.records[i].tier = t}
            = {i \in DOMAIN c.records : c.records[i] \in Kind}
      BY <3>1
    <3> QED BY <3>2 DEF CountTier, OfKind
  <2>2. CountTier(longer, t) = OfKind(longer, Kind)
    <3>1. longer \in Seq(Record)
      BY <1>1, <1>3
    <3>2. \A i \in DOMAIN longer : longer[i] \in Record
      BY <3>1
    <3>3. {i \in DOMAIN longer : longer[i].tier = t} = {i \in DOMAIN longer : longer[i] \in Kind}
      BY <3>2
    <3> QED BY <3>3 DEF CountTier, OfKind
  <2>3. r \in Kind <=> tier = t
    BY <1>3
  <2>4. CountTier(longer, t) = IF tier = t THEN CountTier(c.records, t) + 1 ELSE CountTier(c.records, t)
    <3> HIDE DEF Kind
    <3> QED BY <1>1, <1>3, <2>1, <2>2, <2>3, CountGrows
  <2> QED BY <1>1, <2>4
<1>6. Len(Append(c.records, r)) = Len(c.records) + 1 /\ Append(c.records, r) \in Seq(Record)
  BY <1>1, <1>3
<1>7. tiers \in [Tier -> Nat] /\ Len(c.records) + 1 \in Nat
  BY <1>1
<1> DEFINE longer == Append(c.records, r)
           Some == UNION {[S -> BOOLEAN] : S \in SUBSET Metric}
<1>8. d \in [records : Seq(Record), total : Nat, byTier : [Tier -> Nat], covered : Some]
  <2> HIDE DEF covers, tiers, r, d, Some
  <2> QED BY <1>2, <1>4, <1>6, <1>7 DEF Some
<1>9. /\ d.records = longer /\ d.total = Len(longer)
      /\ \A t \in Tier : d.byTier[t] = CountTier(d.records, t)
  <2> HIDE DEF covers, tiers, r, d
  <2> QED BY <1>2, <1>5, <1>6
<1>10. d \in Gathered
  <2> HIDE DEF d
  <2> QED BY <1>8, <1>9 DEF Gathered
<1> QED BY <1>9, <1>10

\* An empty snapshot counts no nodes.
LEMMA EmptyCounts == EmptySnapshot \in Drawn
<1>1. ASSUME NEW t \in NodeType PROVE CountType(<<>>, t) = 0
  <2>1. {i \in DOMAIN <<>> : <<>>[i].type = t} = {}
    OBVIOUS
  <2> QED BY <2>1, FS_EmptySet DEF CountType
<1> DEFINE zeros == [t \in NodeType |-> 0]
<1>2. EmptySnapshot = [nodes |-> <<>>, edges |-> 0, counts |-> zeros, edgeCount |-> 0]
  BY DEF EmptySnapshot
<1>3. zeros \in [NodeType -> Nat] /\ \A t \in NodeType : zeros[t] = 0
  OBVIOUS
<1> HIDE DEF zeros
<1> QED BY <1>1, <1>2, <1>3 DEF Drawn

\* A node that is added is counted in its type; the nodes before it stay.
LEMMA WithNodeCounts ==
    ASSUME NEW s \in Drawn, NEW n \in Node
    PROVE  WithNode(s, n) \in Drawn /\ WithNode(s, n).nodes = Append(s.nodes, n)
<1> DEFINE longer == Append(s.nodes, n)
           types == [s.counts EXCEPT ![n.type] = @ + 1]
           d == WithNode(s, n)
<1>1. /\ s \in [nodes : Seq(Node), edges : Nat, counts : [NodeType -> Nat], edgeCount : Nat]
      /\ s.edgeCount = s.edges /\ \A t \in NodeType : s.counts[t] = CountType(s.nodes, t)
  BY DEF Drawn
<1>2. longer \in Seq(Node) /\ n.type \in NodeType /\ types \in [NodeType -> Nat]
  BY <1>1 DEF NodeType
<1>3. d = [s EXCEPT !.nodes = longer, !.counts[n.type] = @ + 1]
  BY DEF WithNode
<1>4. d = [nodes |-> longer, edges |-> s.edges, counts |-> types, edgeCount |-> s.edgeCount]
  <2> HIDE DEF longer, d
  <2> QED BY <1>1, <1>3
<1>5. ASSUME NEW t \in NodeType PROVE types[t] = CountType(longer, t)
  <2> DEFINE Kind == {x \in Node : x.type = t}
  <2>1. CountType(s.nodes, t) = OfKind(s.nodes, Kind)
    <3>1. {i \in DOMAIN s.nodes : s.nodes[i].type = t} = {i \in DOMAIN s.nodes : s.nodes[i] \in Kind}
      BY <1>1
    <3> QED BY <3>1 DEF CountType, OfKind
  <2>2. CountType(longer, t) = OfKind(longer, Kind)
    <3>1. \A i \in DOMAIN longer : longer[i] \in Node
      BY <1>2
    <3>2. {i \in DOMAIN longer : longer[i].type = t} = {i \in DOMAIN longer : longer[i] \in Kind}
      BY <3>1
    <3> QED BY <3>2 DEF CountType, OfKind
  <2>3. n \in Kind <=> n.type = t
    OBVIOUS
  <2>4. CountType(longer, t) = IF n.type = t THEN CountType(s.nodes, t) + 1 ELSE CountType(s.nodes, t)
    <3> HIDE DEF Kind
    <3> QED BY <1>1, <2>1, <2>2, <2>3, CountGrows
  <2>5. types[t] = IF n.type = t THEN s.counts[t] + 1 ELSE s.counts[t]
    BY <1>1, <1>2
  <2> QED BY <1>1, <2>4, <2>5
<1>6. d \in Drawn
  <2> HIDE DEF longer, types, d
  <2> QED BY <1>1, <1>2, <1>4, <1>5 DEF Drawn
<1> QED BY <1>4, <1>6

\* An edge that is added is counted.
LEMMA WithEdgeCounts ==
    ASSUME NEW s \in Drawn
    PROVE  WithEdge(s) \in Drawn /\ WithEdge(s).nodes = s.nodes
<1> DEFINE d == WithEdge(s)
<1>1. /\ s \in [nodes : Seq(Node), edges : Nat, counts : [NodeType -> Nat], edgeCount : Nat]
      /\ s.edgeCount = s.edges /\ \A t \in NodeType : s.counts[t] = CountType(s.nodes, t)
  BY DEF Drawn
<1>2. d = [nodes |-> s.nodes, edges |-> s.edges + 1, counts |-> s.counts, edgeCount |-> s.edgeCount + 1]
  <2> DEFINE Lists == Seq(Node)
             Counts == [NodeType -> Nat]
  <2>1. s \in [nodes : Lists, edges : Nat, counts : Counts, edgeCount : Nat]
    BY <1>1
  <2>2. d = [s EXCEPT !.edges = s.edges + 1, !.edgeCount = s.edgeCount + 1]
    BY DEF WithEdge
  <2> HIDE DEF Lists, Counts, d
  <2> QED BY <2>1, <2>2
<1>3. d \in Drawn
  <2> HIDE DEF d
  <2> QED BY <1>1, <1>2 DEF Drawn
<1> QED BY <1>2, <1>3

\* What the adapters of these sources answer, in a row, are records.
LEMMA AnswersAreRecords ==
    ASSUME SourceAssumption, NEW now \in Nat, NEW sources \in Seq(Source),
           NEW found \in [DOMAIN sources -> UNION {AdapterFound(s, now) : s \in Source}]
    PROVE  FlattenSeq(found) \in Seq(Record)
<1>1. ASSUME NEW s \in Source, NEW answer \in AdapterFound(s, now) PROVE answer \in Seq(Record)
  <2>1. PICK n \in 0 .. MaxFound : answer = [j \in 1 .. n |-> [tier |-> TierOf[s], at |-> now]]
    BY <1>1 DEF AdapterFound, WebFound, KosisFound, DartFound, SourceAssumption
  <2>2. [tier |-> TierOf[s], at |-> now] \in Record /\ n \in Nat
    BY DEF SourceAssumption, Record, RecordTier
  <2> QED BY <2>1, <2>2
<1>2. UNION {AdapterFound(s, now) : s \in Source} \subseteq Seq(Record)
  BY <1>1
<1>3. DOMAIN sources = 1 .. Len(sources) /\ Len(sources) \in Nat
  OBVIOUS
<1>4. found \in Seq(Seq(Record))
  <2> DEFINE R == Seq(Record)
  <2>1. found \in [1 .. Len(sources) -> R]
    BY <1>2, <1>3
  <2> HIDE DEF R
  <2> QED BY <1>3, <2>1 DEF R
<1> QED BY <1>4, FlatIsSequence

-----------------------------------------------------------------------------
(* The stores of evidence and snapshots                                    *)

\* A collection that a tool made is kept in the memory and in the file of its project.
LEMMA KeptEvidenceIsGathered ==
    ASSUME StoresOK, NEW p \in Project, NEW i \in Collection, NEW c \in Gathered, KeepEvidence(p, i, c)
    PROVE  StoresOK'
<1>1. evidence' \in [Collection -> Gathered \union {Absent}]
  BY DEF StoresOK, KeepEvidence
<1>2. evidenceFile' \in [Project -> [Collection -> Gathered \union {Absent, Torn}]]
  BY DEF StoresOK, KeepEvidence
<1> QED BY <1>1, <1>2 DEF StoresOK, KeepEvidence

LEMMA KeptSnapshotIsDrawn ==
    ASSUME StoresOK, NEW p \in Project, NEW i \in Snapshot, NEW s \in Drawn, KeepSnapshot(p, i, s)
    PROVE  StoresOK'
<1>1. snapshots' \in [Snapshot -> Drawn \union {Absent}]
  BY DEF StoresOK, KeepSnapshot
<1>2. snapshotFile' \in [Project -> [Snapshot -> Drawn \union {Absent, Torn}]]
  BY DEF StoresOK, KeepSnapshot
<1> QED BY <1>1, <1>2 DEF StoresOK, KeepSnapshot

\* What is found in the memory or in a file is whole.
LEMMA FoundEvidenceIsGathered ==
    ASSUME StoresOK, NEW p \in Project, NEW i \in Collection, Found(evidence, evidenceFile[p], i)
    PROVE  Loaded(evidence, evidenceFile[p], i) \in Gathered
  BY DEF StoresOK, Found, Loaded

LEMMA FoundSnapshotIsDrawn ==
    ASSUME StoresOK, NEW p \in Project, NEW i \in Snapshot, Found(snapshots, snapshotFile[p], i)
    PROVE  Loaded(snapshots, snapshotFile[p], i) \in Drawn
  BY DEF StoresOK, Found, Loaded

\* The tools that change the stores.
StoreTool(p) ==
    \/ ToolCollectEvidence(p) \/ ToolAddRecord(p) \/ ToolGetEvidence(p)
    \/ ToolBuildSnapshot(p) \/ ToolAddNode(p) \/ ToolAddEdge(p) \/ ToolGetSnapshot(p)

\* Those that change the values or their verdict.
LedgerTool(p) ==
    ToolEvaluateMetrics(p) \/ ToolSetMetricValue(p) \/ ToolGetMetricValue(p) \/ ToolCheckAllGates(p)

\* Those of patterns and strategies.
BoardTool(p) ==
    \/ ToolMatchPatterns(p) \/ ToolDiscoverGaps(p)
    \/ ToolSearchStrategies(p) \/ ToolSetStrategyImpact(p) \/ ToolEvaluatePortfolio(p)

\* A step of a session, sorted by what it changes.
LEMMA NextByPart ==
    ASSUME SessionNext
    PROVE  \/ Restart
           \/ \E p \in Project : Transition(p)
           \/ \E p \in Project : StoreTool(p)
           \/ \E p \in Project : LedgerTool(p)
           \/ \E p \in Project : BoardTool(p)
  BY DEF SessionNext, StoreTool, LedgerTool, BoardTool

\* A tool leaves alone what belongs to the other parts, and the state of the projects.
LEMMA ToolsKeepApart ==
    ASSUME NEW p \in Project
    PROVE  /\ StoreTool(p) => UNCHANGED <<ledger, board, state, year>>
           /\ LedgerTool(p) => UNCHANGED <<stores, board, state, year>>
           /\ BoardTool(p) => UNCHANGED <<stores, ledger, state, year>>
<1>1. StoreTool(p) => UNCHANGED <<ledger, board, state, year>>
  BY DEF StoreTool, ToolCollectEvidence, ToolAddRecord, ToolGetEvidence, ToolBuildSnapshot, ToolAddNode,
         ToolAddEdge, ToolGetSnapshot, Work, Read, Call
<1>2. LedgerTool(p) => UNCHANGED <<stores, board, state, year>>
  BY DEF LedgerTool, ToolEvaluateMetrics, ToolSetMetricValue, ToolGetMetricValue, ToolCheckAllGates, Work,
         Read, Call
<1>3. BoardTool(p) => UNCHANGED <<stores, ledger, state, year>>
  BY DEF BoardTool, ToolMatchPatterns, ToolDiscoverGaps, ToolSearchStrategies, ToolSetStrategyImpact,
         ToolEvaluatePortfolio, Work, Read, Call
<1> QED BY <1>1, <1>2, <1>3

\* A collection that is collected is a new one, of the records that the adapters answered.
LEMMA NewCollectionIsGathered ==
    ASSUME Assumptions, SessionOK, NEW p \in Project, ToolCollectEvidence(p)
    PROVE  \E i \in Collection, c \in Gathered :
              Newest(evidence, evidenceFile, i) /\ KeepEvidence(p, i, c)
<1>1. year \in Nat
  BY DEF SessionOK, Assumptions, BoundAssumption
<1>2. PICK sources \in Seq(Source), metrics \in SUBSET Metric : CollectEvidence(p, sources, metrics, year)
  <2>1. PICK sources \in UNION {[1 .. n -> Source] : n \in 0 .. 2}, metrics \in SUBSET Metric :
          CollectEvidence(p, sources, metrics, year)
    BY DEF ToolCollectEvidence
  <2>2. sources \in Seq(Source)
    <3>1. PICK n \in 0 .. 2 : sources \in [1 .. n -> Source]
      OBVIOUS
    <3> QED BY <3>1
  <2> QED BY <2>1, <2>2
<1>3. PICK i \in Collection,
           found \in [DOMAIN sources -> UNION {AdapterFound(s, year) : s \in Source}] :
        /\ Newest(evidence, evidenceFile, i)
        /\ KeepEvidence(p, i, Collected(FlattenSeq(found), metrics))
  BY <1>2 DEF CollectEvidence
<1>4. Collected(FlattenSeq(found), metrics) \in Gathered
  BY <1>1, AnswersAreRecords, CollectedCounts DEF Assumptions
<1> QED BY <1>3, <1>4

\* Every tool that changes the stores leaves them with objects that a tool may have made.
LEMMA StoreToolKeepsStores ==
    ASSUME Assumptions, SessionOK, StoresOK, NEW p \in Project, StoreTool(p)
    PROVE  StoresOK'
<1>1. year \in Nat
  BY DEF SessionOK, Assumptions, BoundAssumption
<1>2. CASE ToolCollectEvidence(p)
  BY <1>2, NewCollectionIsGathered, KeptEvidenceIsGathered
<1>3. CASE ToolAddRecord(p)
  <2>1. PICK i \in Collection, tier \in RecordTier, metrics \in SUBSET Metric :
          AddRecord(p, i, tier, metrics, year)
    BY <1>3 DEF ToolAddRecord
  <2> DEFINE c == Loaded(evidence, evidenceFile[p], i)
  <2>2. c \in Gathered
    BY <2>1, FoundEvidenceIsGathered DEF AddRecord
  <2>3. KeepEvidence(p, i, WithRecord(c, tier, year, metrics))
    BY <2>1 DEF AddRecord
  <2>4. WithRecord(c, tier, year, metrics) \in Gathered
    BY <1>1, <2>2, WithRecordCounts
  <2> QED BY <2>3, <2>4, KeptEvidenceIsGathered
<1>4. CASE ToolGetEvidence(p)
  <2>1. PICK i \in Collection : GetEvidence(p, i)
    BY <1>4 DEF ToolGetEvidence
  <2>2. Loaded(evidence, evidenceFile[p], i) \in Gathered
    BY <2>1, FoundEvidenceIsGathered DEF GetEvidence
  <2> QED BY <2>1, <2>2 DEF GetEvidence, StoresOK
<1>5. CASE ToolBuildSnapshot(p)
  <2>1. PICK i \in Snapshot : KeepSnapshot(p, i, EmptySnapshot)
    BY <1>5 DEF ToolBuildSnapshot, BuildSnapshot
  <2> QED BY <2>1, EmptyCounts, KeptSnapshotIsDrawn
<1>6. CASE ToolAddNode(p)
  <2>1. PICK i \in Snapshot, n \in Node : AddNode(p, i, n)
    BY <1>6 DEF ToolAddNode
  <2> DEFINE s == Loaded(snapshots, snapshotFile[p], i)
  <2>2. s \in Drawn
    BY <2>1, FoundSnapshotIsDrawn DEF AddNode
  <2>3. KeepSnapshot(p, i, WithNode(s, n))
    BY <2>1 DEF AddNode
  <2> QED BY <2>2, <2>3, WithNodeCounts, KeptSnapshotIsDrawn
<1>7. CASE ToolAddEdge(p)
  <2>1. PICK i \in Snapshot : AddEdge(p, i)
    BY <1>7 DEF ToolAddEdge
  <2> DEFINE s == Loaded(snapshots, snapshotFile[p], i)
  <2>2. s \in Drawn
    BY <2>1, FoundSnapshotIsDrawn DEF AddEdge
  <2>3. KeepSnapshot(p, i, WithEdge(s))
    BY <2>1 DEF AddEdge
  <2> QED BY <2>2, <2>3, WithEdgeCounts, KeptSnapshotIsDrawn
<1>8. CASE ToolGetSnapshot(p)
  <2>1. PICK i \in Snapshot : GetSnapshot(p, i)
    BY <1>8 DEF ToolGetSnapshot
  <2>2. Loaded(snapshots, snapshotFile[p], i) \in Drawn
    BY <2>1, FoundSnapshotIsDrawn DEF GetSnapshot
  <2> QED BY <2>1, <2>2 DEF GetSnapshot, StoresOK
<1> QED BY <1>2, <1>3, <1>4, <1>5, <1>6, <1>7, <1>8 DEF StoreTool

\* The end of a process empties the memory and tears at most one file.
LEMMA RestartKeepsStores ==
    ASSUME StoresOK, Restart
    PROVE  StoresOK'
<1>1. PICK torn : StoresEnd(torn)
  BY DEF Restart
<1>2. evidence' \in [Collection -> Gathered \union {Absent}] /\ snapshots' \in [Snapshot -> Drawn \union {Absent}]
  BY <1>1 DEF StoresEnd, Blank
<1>3. evidenceFile' \in [Project -> [Collection -> Gathered \union {Absent, Torn}]]
  BY <1>1 DEF StoresEnd, StoresOK
<1>4. snapshotFile' \in [Project -> [Snapshot -> Drawn \union {Absent, Torn}]]
  BY <1>1 DEF StoresEnd, StoresOK
<1> QED BY <1>2, <1>3, <1>4 DEF StoresOK

-----------------------------------------------------------------------------
(* The values and the gates                                                *)

\* A value that is kept is one a tool may have made.
LEMMA KeptValueIsWorth ==
    ASSUME LedgerOK, NEW p \in Project, NEW m \in Metric, NEW v \in Worth, KeepValue(p, m, v)
    PROVE  LedgerOK' /\ verdict' = verdict
<1>1. values' \in [Metric -> Worth \union {Absent}]
  BY DEF LedgerOK, KeepValue
<1>2. valueFile' \in [Project -> [Metric -> Worth \union {Absent}]]
  BY DEF LedgerOK, KeepValue
<1> QED BY <1>1, <1>2 DEF LedgerOK, KeepValue

LEMMA EmptyIsWorth ==
    ASSUME ValueAssumption, NEW e \in Evidence \union {Absent}
    PROVE  EmptyValue(e) \in Worth
  BY DEF EmptyValue, Worth, ValueAssumption

\* Only a value given with evidence and a summary, of which the caller is sure, is "ok", and it is
\* linked to that evidence.
LEMMA SetIsWorth ==
    ASSUME ValueAssumption, NEW confidence \in {Sure - 1, Sure}, NEW method \in Method,
           NEW summary \in BOOLEAN, NEW e \in Evidence \union {Absent},
           NEW old \in Evidence \union {Absent}
    PROVE  LET linked == IF e = Absent THEN old ELSE e
           IN  [set |-> TRUE, confidence |-> confidence, method |-> method,
                status |-> Quality(confidence, summary, e, linked),
                evidence |-> linked, given |-> e] \in Worth
<1> DEFINE status == Quality(confidence, summary, e, IF e = Absent THEN old ELSE e)
<1>1. /\ status \in {"force_unverified", "unverified", "ok", "low_confidence"}
      /\ status = "ok" => e # Absent /\ confidence >= Sure
  BY DEF Quality
<1>2. confidence \in 0 .. 10
  BY DEF ValueAssumption
<1> HIDE DEF status
<1>3. [set |-> TRUE, confidence |-> confidence, method |-> method, status |-> status,
       evidence |-> IF e = Absent THEN old ELSE e, given |-> e] \in Worth
  BY <1>1, <1>2 DEF Worth
<1> QED BY <1>3 DEF status

\* The gates that passed are all those the mode declares, on what they were given.
LEMMA GatesMeanAll ==
    ASSUME ModeAssumption, ValueAssumption, NEW now \in Nat, NEW mode \in DOMAIN Mode,
           NEW records, records # Absent => records \in Seq(Record),
           NEW vs, vs # Absent => vs \in UNION {[S -> Worth] : S \in SUBSET Metric},
           CheckAllGates(records, vs, mode, now)
    PROVE  PassedMeansAll'
<1> DEFINE list == IF vs = Absent THEN <<>> ELSE vs
           methods == IF vs = Absent THEN Absent ELSE [m \in DOMAIN vs |-> vs[m].method]
           used == IF methods = Absent THEN <<>> ELSE methods
           d == Mode[mode]
<1>1. SUFFICES ASSUME \A g \in Groups(records, vs, mode) : GroupPasses(g, records, vs, mode, now)
      PROVE  /\ "min_sources" \in d.gates => records # Absent /\ Len(records) >= d.minSources
             /\ d.official => records # Absent /\ \E i \in DOMAIN records : records[i].tier = "official"
             /\ ("max_age" \in d.gates /\ records # Absent) =>
                  ~\E i \in DOMAIN records : now > records[i].at + d.maxAge
             /\ (~d.allowPrior \/ d.maxPrior = 0) => ~\E m \in DOMAIN used : used[m] = "prior"
             /\ ("literal_ratio" \in d.gates /\ d.minLiteral > 0) => used = <<>>
  <2>1. /\ verdict'.mode = mode /\ verdict'.at = now /\ verdict'.records = records
        /\ verdict'.methods = methods
        /\ verdict'.passed => \A g \in Groups(records, vs, mode) : GroupPasses(g, records, vs, mode, now)
    BY DEF CheckAllGates
  <2> QED BY <2>1 DEF PassedMeansAll
<1>2. ASSUME "evidence" \in Groups(records, vs, mode)
      PROVE  records # Absent /\ EvidenceGatePasses(records, mode, now)
  BY <1>1, <1>2 DEF GroupPasses
<1>3. "min_sources" \in d.gates => records # Absent /\ Len(records) >= d.minSources
  BY <1>2 DEF Groups, GatesOf, Declared, EvidenceGatePasses
<1>4. d.official => records # Absent /\ \E i \in DOMAIN records : records[i].tier = "official"
  BY <1>2 DEF Groups, GatesOf, Declared, EvidenceGatePasses, ModeAssumption
<1>5. ("max_age" \in d.gates /\ records # Absent) =>
        ~\E i \in DOMAIN records : now > records[i].at + d.maxAge
  <2> SUFFICES ASSUME "max_age" \in d.gates, records # Absent, NEW i \in DOMAIN records
               PROVE  ~ (now > records[i].at + d.maxAge)
    OBVIOUS
  <2>1. now - records[i].at <= d.maxAge
    BY <1>2 DEF Groups, GatesOf, Declared, EvidenceGatePasses
  <2>2. records[i].at \in Nat /\ d.maxAge \in Nat
    <3>1. records[i] \in Record
      OBVIOUS
    <3>2. d.maxAge \in Nat
      BY DEF ModeAssumption
    <3> QED BY <3>1, <3>2 DEF Record
  <2> QED BY <2>1, <2>2
<1>6. (~d.allowPrior \/ d.maxPrior = 0) => ~\E m \in DOMAIN used : used[m] = "prior"
  <2> SUFFICES ASSUME ~d.allowPrior \/ d.maxPrior = 0 PROVE ~\E m \in DOMAIN used : used[m] = "prior"
    OBVIOUS
  <2>1. PriorGatePasses(list, mode)
    <3>1. "prior" \in Groups(records, vs, mode)
      BY DEF Groups, GatesOf, Declared, ModeAssumption
    <3> QED BY <1>1, <3>1 DEF GroupPasses
  <2>2. IsFiniteSet(DOMAIN list)
    <3>1. DOMAIN list \subseteq Metric \/ DOMAIN list = {}
      <4>1. CASE vs = Absent
        BY <4>1
      <4>2. CASE vs # Absent
        BY <4>2
      <4> QED BY <4>1, <4>2
    <3> QED BY <3>1, FS_Subset, FS_EmptySet DEF ValueAssumption
  <2>3. Priors(list) = {}
    <3>1. CASE ~d.allowPrior
      BY <2>1, <3>1 DEF PriorGatePasses
    <3>2. CASE d.allowPrior
      <4>1. 10 * Cardinality(Priors(list)) <= 0 * Cardinality(DOMAIN list)
        BY <2>1, <3>2 DEF PriorGatePasses
      <4>2. IsFiniteSet(Priors(list))
        BY <2>2, FS_Subset DEF Priors
      <4>3. Cardinality(Priors(list)) \in Nat /\ Cardinality(DOMAIN list) \in Nat
        BY <2>2, <4>2, FS_CardinalityType
      <4>4. Cardinality(Priors(list)) = 0
        BY <4>1, <4>3
      <4> QED BY <4>2, <4>4, FS_EmptySet
    <3> QED BY <3>1, <3>2
  <2>4. \A m \in DOMAIN list : list[m].method # "prior"
    BY <2>3 DEF Priors
  <2>5. CASE vs = Absent
    BY <2>5
  <2>6. CASE vs # Absent
    <3> DEFINE ms == [m \in DOMAIN vs |-> vs[m].method]
    <3>1. used = IF ms = Absent THEN <<>> ELSE ms
      BY <2>6
    <3>2. DOMAIN ms = DOMAIN vs /\ \A m \in DOMAIN ms : ms[m] # "prior"
      BY <2>4, <2>6
    <3> HIDE DEF ms, used
    <3> QED BY <3>1, <3>2
  <2> QED BY <2>5, <2>6
<1>7. ("literal_ratio" \in d.gates /\ d.minLiteral > 0) => used = <<>>
  <2> SUFFICES ASSUME "literal_ratio" \in d.gates, d.minLiteral > 0 PROVE used = <<>>
    OBVIOUS
  <2>1. vs # Absent /\ ValueGatePasses(vs, mode)
    <3>1. "value" \in Groups(records, vs, mode)
      BY DEF Groups, GatesOf, Declared
    <3> QED BY <1>1, <3>1 DEF GroupPasses
  <2>2. DOMAIN vs = {}
    BY <2>1 DEF ValueGatePasses, Declared
  <2> QED BY <2>1, <2>2
<1> QED BY <1>3, <1>4, <1>5, <1>6, <1>7

\* The tools of the values keep them worth their status, and what a verdict says.
LEMMA LedgerToolKeepsLedger ==
    ASSUME Assumptions, IInv, NEW p \in Project, LedgerTool(p)
    PROVE  LedgerOK' /\ PassedMeansAll'
<1>1. SessionOK /\ StoresOK /\ LedgerOK /\ PassedMeansAll /\ ValueAssumption /\ ModeAssumption
  BY DEF IInv, Assumptions
<1>2. CASE ToolEvaluateMetrics(p)
  <2>1. PICK m \in Metric, e \in Evidence \union {Absent} : KeepValue(p, m, EmptyValue(e))
    BY <1>2 DEF ToolEvaluateMetrics, EvaluateMetric
  <2>2. LedgerOK' /\ verdict' = verdict
    BY <1>1, <2>1, EmptyIsWorth, KeptValueIsWorth
  <2> QED BY <1>1, <2>2 DEF PassedMeansAll
<1>3. CASE ToolSetMetricValue(p)
  <2>1. PICK m \in Metric, confidence \in {Sure - 1, Sure}, method \in Method, summary \in BOOLEAN,
             e \in Evidence \union {Absent}, force \in BOOLEAN :
          SetMetricValue(p, m, confidence, method, summary, e, force)
    BY <1>3 DEF ToolSetMetricValue
  <2> DEFINE old == IF values[m] = Absent THEN EmptyValue(Absent) ELSE values[m]
             linked == IF e = Absent THEN old.evidence ELSE e
             v == [set |-> TRUE, confidence |-> confidence, method |-> method,
                   status |-> Quality(confidence, summary, e, linked),
                   evidence |-> linked, given |-> e]
  <2>2. old.evidence \in Evidence \union {Absent}
    <3>1. old \in Worth
      BY <1>1, EmptyIsWorth DEF LedgerOK
    <3> HIDE DEF old
    <3> QED BY <3>1 DEF Worth
  <2>3. v \in Worth
    BY <1>1, <2>2, SetIsWorth
  <2>4. KeepValue(p, m, v)
    BY <2>1 DEF SetMetricValue
  <2> HIDE DEF v
  <2>5. LedgerOK' /\ verdict' = verdict
    BY <1>1, <2>3, <2>4, KeptValueIsWorth
  <2> QED BY <1>1, <2>5 DEF PassedMeansAll
<1>4. CASE ToolGetMetricValue(p)
  <2>1. PICK m \in Metric : GetMetricValue(p, m)
    BY <1>4 DEF ToolGetMetricValue
  <2>2. valueFile[p][m] \in Worth
    BY <1>1, <2>1 DEF GetMetricValue, LedgerOK
  <2>3. LedgerOK'
    BY <1>1, <2>1, <2>2 DEF GetMetricValue, LedgerOK
  <2> QED BY <1>1, <2>1, <2>3 DEF GetMetricValue, PassedMeansAll
<1>5. CASE ToolCheckAllGates(p)
  <2> DEFINE Lists == {evidence[i].records : i \in {j \in Collection : evidence[j] # Absent}}
  <2>1. PICK mode \in DOMAIN Mode, vs \in Held, rs \in {Absent} \union Lists :
          CheckAllGates(rs, vs, mode, year)
    BY <1>5 DEF ToolCheckAllGates
  <2>2. Lists \subseteq Seq(Record)
    BY <1>1 DEF StoresOK, Gathered
  <2>3. vs # Absent => vs \in UNION {[S -> Worth] : S \in SUBSET Metric}
    <3> SUFFICES ASSUME vs # Absent PROVE vs \in UNION {[S -> Worth] : S \in SUBSET Metric}
      OBVIOUS
    <3>1. PICK S \in SUBSET {m \in Metric : values[m] # Absent} : vs = [m \in S |-> values[m]]
      BY DEF Held
    <3>2. \A m \in S : values[m] \in Worth
      BY <1>1 DEF LedgerOK
    <3>3. vs \in [S -> Worth]
      BY <3>1, <3>2
    <3>4. S \in SUBSET Metric
      OBVIOUS
    <3> QED BY <3>3, <3>4
  <2>4. year \in Nat
    BY <1>1 DEF SessionOK, Assumptions, BoundAssumption
  <2>5. rs # Absent => rs \in Seq(Record)
    BY <2>2
  <2>6. PassedMeansAll'
    <3> HIDE DEF Lists
    <3> QED BY <1>1, <2>1, <2>3, <2>4, <2>5, GatesMeanAll
  <2> QED BY <1>1, <2>1, <2>6 DEF CheckAllGates, LedgerOK
<1> QED BY <1>2, <1>3, <1>4, <1>5 DEF LedgerTool

-----------------------------------------------------------------------------
(* The invariant                                                           *)

\* A transition leads to a state of a project.
LEMMA AfterIsState == ASSUME NEW s PROVE After(s) \subseteq ProjectState
  BY DEF After, ProjectState

LEMMA InitHolds == ASSUME Assumptions, SessionInit PROVE IInv
<1>1. SessionOK
  BY DEF SessionInit, SessionOK, ProjectState, Assumptions, BoundAssumption
<1>2. StoresOK
  BY DEF SessionInit, StoresInit, StoresOK, Blank
<1>3. LedgerOK /\ PassedMeansAll
  BY DEF SessionInit, ValuesInit, LedgerOK, PassedMeansAll
<1> QED BY <1>1, <1>2, <1>3 DEF IInv

\* Every step keeps the session within its types and bounds.
LEMMA NextKeepsSession == ASSUME SessionOK, Assumptions, SessionNext PROVE SessionOK'
<1>1. CASE Restart
  <2>1. year' \in 0 .. MaxYear
    BY <1>1 DEF Restart, SessionOK, Assumptions, BoundAssumption
  <2> QED BY <1>1, <2>1 DEF Restart, SessionOK
<1>2. ASSUME NEW p \in Project, Transition(p) PROVE SessionOK'
  BY <1>2, AfterIsState DEF Transition, SessionOK
<1>3. ASSUME NEW p \in Project, StoreTool(p) \/ LedgerTool(p) \/ BoardTool(p) PROVE SessionOK'
  <2>1. UNCHANGED <<state, year>>
    BY <1>3, ToolsKeepApart
  <2>2. calls' \in {calls, calls + 1} /\ (calls' = calls \/ calls < MaxCalls)
    BY <1>3 DEF StoreTool, LedgerTool, BoardTool, ToolCollectEvidence, ToolAddRecord, ToolGetEvidence,
         ToolBuildSnapshot, ToolAddNode, ToolAddEdge, ToolGetSnapshot, ToolEvaluateMetrics,
         ToolSetMetricValue, ToolGetMetricValue, ToolCheckAllGates, ToolMatchPatterns, ToolDiscoverGaps,
         ToolSearchStrategies, ToolSetStrategyImpact, ToolEvaluatePortfolio, Work, Read
  <2> QED BY <2>1, <2>2 DEF SessionOK, Assumptions, BoundAssumption
<1> QED BY <1>1, <1>2, <1>3, NextByPart

LEMMA NextKeepsInv == ASSUME Assumptions, IInv, [SessionNext]_svars PROVE IInv'
<1>1. SessionOK /\ StoresOK /\ LedgerOK /\ PassedMeansAll
  BY DEF IInv
<1>2. CASE UNCHANGED svars
  <2>1. UNCHANGED <<stores, ledger, session>>
    BY <1>2 DEF svars
  <2> QED BY <1>1, <2>1 DEF IInv, SessionOK, StoresOK, LedgerOK, PassedMeansAll, stores, ledger, session
<1>3. CASE SessionNext
  <2>1. SessionOK'
    BY <1>1, <1>3, NextKeepsSession
  <2>2. CASE Restart
    <3>1. StoresOK'
      BY <1>1, <2>2, RestartKeepsStores
    <3>2. LedgerOK' /\ PassedMeansAll'
      BY <1>1, <2>2 DEF Restart, ValuesEnd, LedgerOK, PassedMeansAll
    <3> QED BY <2>1, <3>1, <3>2 DEF IInv
  <2>3. ASSUME NEW p \in Project, Transition(p) PROVE IInv'
    <3>1. UNCHANGED <<stores, ledger>>
      BY <2>3 DEF Transition
    <3> QED BY <1>1, <2>1, <3>1 DEF IInv, StoresOK, LedgerOK, PassedMeansAll, stores, ledger
  <2>4. ASSUME NEW p \in Project, StoreTool(p) PROVE IInv'
    <3>1. StoresOK'
      BY <1>1, <2>4, StoreToolKeepsStores
    <3>2. UNCHANGED ledger
      BY <2>4, ToolsKeepApart
    <3> QED BY <1>1, <2>1, <3>1, <3>2 DEF IInv, LedgerOK, PassedMeansAll, ledger
  <2>5. ASSUME NEW p \in Project, LedgerTool(p) PROVE IInv'
    <3>1. LedgerOK' /\ PassedMeansAll'
      BY <2>5, LedgerToolKeepsLedger
    <3>2. UNCHANGED stores
      BY <2>5, ToolsKeepApart
    <3> QED BY <1>1, <2>1, <3>1, <3>2 DEF IInv, StoresOK, stores
  <2>6. ASSUME NEW p \in Project, BoardTool(p) PROVE IInv'
    <3>1. UNCHANGED <<stores, ledger>>
      BY <2>6, ToolsKeepApart
    <3> QED BY <1>1, <2>1, <3>1 DEF IInv, StoresOK, LedgerOK, PassedMeansAll, stores, ledger
  <2> QED BY <1>3, <2>2, <2>3, <2>4, <2>5, <2>6, NextByPart
<1> QED BY <1>2, <1>3

\* What is kept in the memory or in a file, and is whole, was made by a tool.
LEMMA KeptIsMade ==
    ASSUME StoresOK, LedgerOK
    PROVE  KeptEvidence \subseteq Gathered /\ KeptSnapshots \subseteq Drawn /\ KeptValues \subseteq Worth
<1>1. KeptEvidence \subseteq Gathered
  BY DEF StoresOK, KeptEvidence, Kept
<1>2. KeptSnapshots \subseteq Drawn
  BY DEF StoresOK, KeptSnapshots, Kept
<1>3. KeptValues \subseteq Worth
  BY DEF LedgerOK, KeptValues
<1> QED BY <1>1, <1>2, <1>3

-----------------------------------------------------------------------------
(* The theorems                                                            *)

\* In every reachable state the session is within its types, and everything in the memory and in the
\* files of the engines is what a tool of tools.py may have made.
THEOREM Inductive == ASSUME Assumptions PROVE SessionSpec => []IInv
<1>1. SessionInit => IInv
  BY InitHolds
<1>2. IInv /\ [SessionNext]_svars => IInv'
  BY NextKeepsInv
<1> QED BY <1>1, <1>2, PTL DEF SessionSpec

\* The types of SessionTypeOK but those of the strategies.
StoresTyped ==
    /\ state \in [Project -> ProjectState] /\ year \in 0 .. MaxYear /\ calls \in 0 .. MaxCalls
    /\ EvidenceTypeOK /\ SnapshotTypeOK /\ ValuesTypeOK

\* Evidence, snapshots and values keep their types, in the memory and in the files.
THEOREM TypeCorrect == ASSUME Assumptions PROVE SessionSpec => []StoresTyped
<1>1. ASSUME IInv PROVE StoresTyped
  <2>1. SessionOK /\ StoresOK /\ LedgerOK
    BY <1>1 DEF IInv
  <2>2. EvidenceTypeOK
    <3> SUFFICES ASSUME NEW c \in Gathered
                 PROVE  /\ c.records \in Seq([tier : RecordTier, at : Nat]) /\ c.total \in Nat
                        /\ c.byTier \in [Tier -> Nat] /\ DOMAIN c.covered \subseteq Metric
      BY <2>1, KeptIsMade DEF EvidenceTypeOK
    <3> QED BY DEF Gathered, Record
  <2>3. SnapshotTypeOK
    <3> SUFFICES ASSUME NEW s \in Drawn
                 PROVE  /\ s.nodes \in Seq(Node) /\ {s.edges, s.edgeCount} \subseteq Nat
                        /\ s.counts \in [NodeType -> Nat]
      BY <2>1, KeptIsMade DEF SnapshotTypeOK
    <3> QED BY DEF Drawn
  <2>4. ValuesTypeOK
    BY <2>1, KeptIsMade DEF ValuesTypeOK, Worth
  <2> QED BY <2>1, <2>2, <2>3, <2>4 DEF StoresTyped, SessionOK
<1> QED BY <1>1, Inductive, PTL

\* The figures that gates and model read are those of the records, nodes and edges, whatever was
\* loaded, changed and saved in between (engines/evidence.py, engines/world.py).
THEOREM CountersAgree == ASSUME Assumptions PROVE SessionSpec => []CountersAreTrue
<1>1. ASSUME IInv PROVE CountersAreTrue
  <2>1. KeptEvidence \subseteq Gathered /\ KeptSnapshots \subseteq Drawn
    BY <1>1, KeptIsMade DEF IInv
  <2> QED BY <2>1 DEF CountersAreTrue, Gathered, Drawn, CountType
<1> QED BY <1>1, Inductive, PTL

\* A value is "ok" only with the evidence it was given itself (engines/value.py set_metric_value).
THEOREM OkValuesAreBacked == ASSUME Assumptions PROVE SessionSpec => []OkIsBacked
<1>1. ASSUME IInv PROVE OkIsBacked
  <2>1. KeptValues \subseteq Worth
    BY <1>1, KeptIsMade DEF IInv
  <2> QED BY <2>1 DEF OkIsBacked, Worth
<1> QED BY <1>1, Inductive, PTL

\* The gates passed only if all that the mode declares did (engines/policy.py check_all_gates).
THEOREM PassedGatesMeanAll == ASSUME Assumptions PROVE SessionSpec => []PassedMeansAll
<1>1. IInv => PassedMeansAll
  BY DEF IInv
<1> QED BY <1>1, Inductive, PTL

-----------------------------------------------------------------------------
(* What no step loses                                                      *)

\* The tools that write a file of the stores are allowed in none of the states after the lock, and
\* no transition leads from those states back.
LEMMA LockedStatesAllowNoWrite ==
    ASSUME NEW s \in Designing
    PROVE  /\ After(s) \subseteq Designing
           /\ \A tool \in {"collect_evidence", "add_record", "build_snapshot", "add_node", "add_edge"} :
                ~ IsToolAllowed(tool, s)
<1>1. After(s) \subseteq Designing
  BY DEF After, Designing
<1>2. ASSUME NEW tool \in {"collect_evidence", "add_record", "build_snapshot", "add_node", "add_edge"}
      PROVE  tool \notin AlwaysAllowed
  BY DEF AlwaysAllowed
<1>3. ASSUME NEW tool \in {"collect_evidence", "add_record", "build_snapshot", "add_node", "add_edge"}
      PROVE  tool \notin AllowedIn(s)
  BY DEF AllowedIn, Designing, PatternTools, ValueTools, StrategyTools, FermiTools, LearningTools, UserGates
<1> QED BY <1>1, <1>2, <1>3 DEF IsToolAllowed

\* A tool writes the files of its own project only, and none that it is not allowed to.
LEMMA ToolsWriteTheirFiles ==
    ASSUME StoresOK, NEW p \in Project, NEW q \in Project, StoreTool(q),
           q # p \/ state[p] \in Designing
    PROVE  evidenceFile'[p] = evidenceFile[p] /\ snapshotFile'[p] = snapshotFile[p]
<1>1. /\ evidenceFile \in [Project -> [Collection -> Gathered \union {Absent, Torn}]]
      /\ snapshotFile \in [Project -> [Snapshot -> Drawn \union {Absent, Torn}]]
  BY DEF StoresOK
<1>2. CASE ToolGetEvidence(q) \/ ToolGetSnapshot(q)
  BY <1>2 DEF ToolGetEvidence, ToolGetSnapshot, GetEvidence, GetSnapshot
<1>3. CASE \/ ToolCollectEvidence(q) \/ ToolAddRecord(q)
           \/ ToolBuildSnapshot(q) \/ ToolAddNode(q) \/ ToolAddEdge(q)
  <2>1. q # p
    <3>1. \E tool \in {"collect_evidence", "add_record", "build_snapshot", "add_node", "add_edge"} :
            IsToolAllowed(tool, state[q])
      BY <1>3 DEF ToolCollectEvidence, ToolAddRecord, ToolBuildSnapshot, ToolAddNode, ToolAddEdge, Work, Call
    <3> QED BY <3>1, LockedStatesAllowNoWrite
  <2>2. \/ \E i, c : KeepEvidence(q, i, c)
        \/ \E i, s : KeepSnapshot(q, i, s)
    <3>1. ToolCollectEvidence(q) => \E i, c : KeepEvidence(q, i, c)
      BY DEF ToolCollectEvidence, CollectEvidence
    <3>2. ToolAddRecord(q) => \E i, c : KeepEvidence(q, i, c)
      BY DEF ToolAddRecord, AddRecord
    <3>3. ToolBuildSnapshot(q) => \E i, s : KeepSnapshot(q, i, s)
      BY DEF ToolBuildSnapshot, BuildSnapshot
    <3>4. ToolAddNode(q) => \E i, s : KeepSnapshot(q, i, s)
      BY DEF ToolAddNode, AddNode
    <3>5. ToolAddEdge(q) => \E i, s : KeepSnapshot(q, i, s)
      BY DEF ToolAddEdge, AddEdge
    <3> QED BY <1>3, <3>1, <3>2, <3>3, <3>4, <3>5
  <2>3. CASE \E i, c : KeepEvidence(q, i, c)
    BY <1>1, <2>1, <2>3 DEF KeepEvidence
  <2>4. CASE \E i, s : KeepSnapshot(q, i, s)
    BY <1>1, <2>1, <2>4 DEF KeepSnapshot
  <2> QED BY <2>2, <2>3, <2>4
<1> QED BY <1>2, <1>3 DEF StoreTool

\* The step of LockedIsFrozen.
Frozen ==
    \A p \in Project : state[p] \in Designing =>
        /\ state'[p] \in Designing
        /\ \A i \in Collection : evidenceFile'[p][i] \in {evidenceFile[p][i], Torn}
        /\ \A i \in Snapshot : snapshotFile'[p][i] \in {snapshotFile[p][i], Torn}

LEMMA NextKeepsFrozen == ASSUME IInv, [SessionNext]_svars PROVE [Frozen]_svars
<1> SUFFICES ASSUME SessionNext, NEW p \in Project, state[p] \in Designing
             PROVE  /\ state'[p] \in Designing
                    /\ \A i \in Collection : evidenceFile'[p][i] \in {evidenceFile[p][i], Torn}
                    /\ \A i \in Snapshot : snapshotFile'[p][i] \in {snapshotFile[p][i], Torn}
  BY DEF Frozen
<1>1. SessionOK /\ StoresOK
  BY DEF IInv
<1>2. CASE Restart
  <2>1. PICK torn : StoresEnd(torn)
    BY <1>2 DEF Restart
  <2>2. state' = state
    BY <1>2 DEF Restart
  <2>3. ASSUME NEW i \in Collection PROVE evidenceFile'[p][i] \in {evidenceFile[p][i], Torn}
    BY <2>1 DEF StoresEnd
  <2>4. ASSUME NEW i \in Snapshot PROVE snapshotFile'[p][i] \in {snapshotFile[p][i], Torn}
    BY <2>1 DEF StoresEnd
  <2> QED BY <2>2, <2>3, <2>4
<1>3. ASSUME NEW q \in Project, Transition(q)
      PROVE  state'[p] \in Designing /\ UNCHANGED stores
  <2>1. PICK s \in After(state[q]) : state' = [state EXCEPT ![q] = s]
    BY <1>3 DEF Transition
  <2>2. q = p => s \in Designing
    BY <2>1, LockedStatesAllowNoWrite
  <2> QED BY <1>1, <1>3, <2>1, <2>2 DEF SessionOK, Transition
<1>4. ASSUME NEW q \in Project, StoreTool(q)
      PROVE  state' = state /\ evidenceFile'[p] = evidenceFile[p] /\ snapshotFile'[p] = snapshotFile[p]
  BY <1>1, <1>4, ToolsWriteTheirFiles, ToolsKeepApart
<1>5. ASSUME NEW q \in Project, LedgerTool(q) \/ BoardTool(q)
      PROVE  state' = state /\ UNCHANGED stores
  BY <1>5, ToolsKeepApart
<1> QED BY <1>2, <1>3, <1>4, <1>5, NextByPart DEF stores

\* Once the findings of a project are locked, no step of any session changes the evidence and the
\* graph they rest on, nor leads back before the lock: only the end of a process while it writes
\* may tear a file (tools.py _STATE_ALLOWED_TOOLS, state_machine.py TRANSITIONS).
THEOREM LockedStaysFrozen == ASSUME Assumptions PROVE SessionSpec => LockedIsFrozen
<1>1. IInv /\ [SessionNext]_svars => [Frozen]_svars
  BY NextKeepsFrozen
<1>2. SessionSpec => [][Frozen]_svars
  BY <1>1, Inductive, PTL DEF SessionSpec
<1> QED BY <1>2 DEF LockedIsFrozen, Frozen

-----------------------------------------------------------------------------
(***************************************************************************)
(* One project.                                                            *)
(*                                                                         *)
(* The memory of a process is keyed by the identifier alone.  A process    *)
(* that works on two projects may hold the collection of one and write it, *)
(* changed, into the file of the other, over what that file had; with one  *)
(* project the memory never differs from the file, and a file only grows.  *)
(***************************************************************************)
OneProject == \A p, q \in Project : p = q

MemoryIsFile ==
    \A p \in Project :
        /\ \A i \in Collection : evidence[i] # Absent => evidenceFile[p][i] = evidence[i]
        /\ \A i \in Snapshot : snapshots[i] # Absent => snapshotFile[p][i] = snapshots[i]

\* The step of NothingGatheredIsLost.
Grows ==
    \A p \in Project :
        /\ \A i \in Collection :
            evidenceFile[p][i] \in {Absent, Torn} \/ evidenceFile'[p][i] = Torn
            \/ IsPrefix(evidenceFile[p][i].records, evidenceFile'[p][i].records)
        /\ \A i \in Snapshot :
            snapshotFile[p][i] \in {Absent, Torn} \/ snapshotFile'[p][i] = Torn
            \/ IsPrefix(snapshotFile[p][i].nodes, snapshotFile'[p][i].nodes)

LEMMA PrefixOfGrown ==
    ASSUME NEW S, NEW seq \in Seq(S), NEW x \in S
    PROVE  IsPrefix(seq, seq) /\ IsPrefix(seq, Append(seq, x))
<1>1. Len(Append(seq, x)) = Len(seq) + 1 /\ Len(seq) \in Nat
  OBVIOUS
<1>2. SubSeq(Append(seq, x), 1, Len(seq)) = SubSeq(seq, 1, Len(seq))
  OBVIOUS
<1> QED BY <1>1, <1>2 DEF IsPrefix

\* What the files hold stays as it is, where it is not written.
LEMMA SamePrefix ==
    ASSUME StoresOK, NEW p \in Project
    PROVE  /\ \A i \in Collection : evidenceFile[p][i] \in {Absent, Torn}
                \/ IsPrefix(evidenceFile[p][i].records, evidenceFile[p][i].records)
           /\ \A i \in Snapshot : snapshotFile[p][i] \in {Absent, Torn}
                \/ IsPrefix(snapshotFile[p][i].nodes, snapshotFile[p][i].nodes)
<1>1. ASSUME NEW i \in Collection, evidenceFile[p][i] \notin {Absent, Torn}
      PROVE  IsPrefix(evidenceFile[p][i].records, evidenceFile[p][i].records)
  <2>1. evidenceFile[p][i].records \in Seq(Record)
    BY <1>1 DEF StoresOK, Gathered
  <2> QED BY <2>1 DEF IsPrefix
<1>2. ASSUME NEW i \in Snapshot, snapshotFile[p][i] \notin {Absent, Torn}
      PROVE  IsPrefix(snapshotFile[p][i].nodes, snapshotFile[p][i].nodes)
  <2>1. snapshotFile[p][i].nodes \in Seq(Node)
    BY <1>2 DEF StoresOK, Drawn
  <2> QED BY <2>1 DEF IsPrefix
<1> QED BY <1>1, <1>2

\* A collection that takes the place of an absent one, or of one with a prefix of its records.
LEMMA WrittenEvidenceGrows ==
    ASSUME OneProject, StoresOK, MemoryIsFile, NEW p \in Project, NEW i \in Collection,
           NEW c \in Gathered, KeepEvidence(p, i, c),
           \/ evidenceFile[p][i] \in {Absent, Torn}
           \/ IsPrefix(evidenceFile[p][i].records, c.records)
    PROVE  MemoryIsFile' /\ Grows
<1>1. /\ evidence' = [evidence EXCEPT ![i] = c]
      /\ evidenceFile' = [evidenceFile EXCEPT ![p][i] = c]
      /\ UNCHANGED <<snapshots, snapshotFile>>
  BY DEF KeepEvidence
<1>2. /\ evidence \in [Collection -> Gathered \union {Absent}]
      /\ evidenceFile \in [Project -> [Collection -> Gathered \union {Absent, Torn}]]
  BY DEF StoresOK
<1>3. \A q \in Project : q = p
  BY DEF OneProject
<1>4. /\ evidence'[i] = c /\ evidenceFile'[p][i] = c
      /\ \A j \in Collection \ {i} : evidence'[j] = evidence[j] /\ evidenceFile'[p][j] = evidenceFile[p][j]
  BY <1>1, <1>2
<1>5. MemoryIsFile'
  BY <1>1, <1>3, <1>4 DEF MemoryIsFile
<1>6. Grows
  BY <1>1, <1>3, <1>4, SamePrefix DEF Grows
<1> QED BY <1>5, <1>6

LEMMA WrittenSnapshotGrows ==
    ASSUME OneProject, StoresOK, MemoryIsFile, NEW p \in Project, NEW i \in Snapshot,
           NEW s \in Drawn, KeepSnapshot(p, i, s),
           \/ snapshotFile[p][i] \in {Absent, Torn}
           \/ IsPrefix(snapshotFile[p][i].nodes, s.nodes)
    PROVE  MemoryIsFile' /\ Grows
<1>1. /\ snapshots' = [snapshots EXCEPT ![i] = s]
      /\ snapshotFile' = [snapshotFile EXCEPT ![p][i] = s]
      /\ UNCHANGED <<evidence, evidenceFile>>
  BY DEF KeepSnapshot
<1>2. /\ snapshots \in [Snapshot -> Drawn \union {Absent}]
      /\ snapshotFile \in [Project -> [Snapshot -> Drawn \union {Absent, Torn}]]
  BY DEF StoresOK
<1>3. \A q \in Project : q = p
  BY DEF OneProject
<1>4. /\ snapshots'[i] = s /\ snapshotFile'[p][i] = s
      /\ \A j \in Snapshot \ {i} : snapshots'[j] = snapshots[j] /\ snapshotFile'[p][j] = snapshotFile[p][j]
  BY <1>1, <1>2
<1>5. MemoryIsFile'
  BY <1>1, <1>3, <1>4 DEF MemoryIsFile
<1>6. Grows
  BY <1>1, <1>3, <1>4, SamePrefix DEF Grows
<1> QED BY <1>5, <1>6

\* What is loaded is what the file holds, unless the file holds nothing that is whole.
LEMMA LoadedIsFile ==
    ASSUME MemoryIsFile, NEW p \in Project
    PROVE  /\ \A i \in Collection : Loaded(evidence, evidenceFile[p], i) = evidenceFile[p][i]
           /\ \A i \in Snapshot : Loaded(snapshots, snapshotFile[p], i) = snapshotFile[p][i]
  BY DEF MemoryIsFile, Loaded

LEMMA StoreToolGrows ==
    ASSUME Assumptions, OneProject, IInv, MemoryIsFile, NEW p \in Project, StoreTool(p)
    PROVE  MemoryIsFile' /\ Grows
<1>1. SessionOK /\ StoresOK
  BY DEF IInv
<1>2. year \in Nat
  BY <1>1 DEF SessionOK, Assumptions, BoundAssumption
<1>3. CASE ToolCollectEvidence(p)
  <2>1. PICK i \in Collection, c \in Gathered : Newest(evidence, evidenceFile, i) /\ KeepEvidence(p, i, c)
    BY <1>1, <1>3, NewCollectionIsGathered
  <2>2. evidenceFile[p][i] = Absent
    BY <2>1 DEF Newest, Fresh
  <2> QED BY <1>1, <2>1, <2>2, WrittenEvidenceGrows
<1>4. CASE ToolAddRecord(p)
  <2>1. PICK i \in Collection, tier \in RecordTier, metrics \in SUBSET Metric :
          AddRecord(p, i, tier, metrics, year)
    BY <1>4 DEF ToolAddRecord
  <2> DEFINE c == Loaded(evidence, evidenceFile[p], i)
             d == WithRecord(c, tier, year, metrics)
  <2>2. c \in Gathered /\ c = evidenceFile[p][i]
    BY <1>1, <2>1, FoundEvidenceIsGathered, LoadedIsFile DEF AddRecord
  <2>3. KeepEvidence(p, i, d)
    BY <2>1 DEF AddRecord
  <2>4. d \in Gathered /\ d.records = Append(c.records, [tier |-> tier, at |-> year])
    BY <1>2, <2>2, WithRecordCounts
  <2>5. IsPrefix(c.records, d.records)
    <3>1. c.records \in Seq(Record) /\ [tier |-> tier, at |-> year] \in Record
      BY <1>2, <2>2 DEF Gathered, Record
    <3> QED BY <2>4, <3>1, PrefixOfGrown
  <2> HIDE DEF c, d
  <2> QED BY <1>1, <2>2, <2>3, <2>4, <2>5, WrittenEvidenceGrows
<1>5. CASE ToolGetEvidence(p)
  <2>1. PICK i \in Collection : GetEvidence(p, i)
    BY <1>5 DEF ToolGetEvidence
  <2>2. evidence' = [evidence EXCEPT ![i] = evidenceFile[p][i]] /\ UNCHANGED <<evidenceFile, snapshots, snapshotFile>>
    BY <2>1, LoadedIsFile DEF GetEvidence
  <2>3. MemoryIsFile'
    BY <1>1, <2>2 DEF MemoryIsFile, StoresOK, OneProject
  <2> QED BY <1>1, <2>2, <2>3, SamePrefix DEF Grows
<1>6. CASE ToolBuildSnapshot(p)
  <2>1. PICK i \in Snapshot : Newest(snapshots, snapshotFile, i) /\ KeepSnapshot(p, i, EmptySnapshot)
    BY <1>6 DEF ToolBuildSnapshot, BuildSnapshot
  <2>2. snapshotFile[p][i] = Absent
    BY <2>1 DEF Newest, Fresh
  <2> QED BY <1>1, <2>1, <2>2, EmptyCounts, WrittenSnapshotGrows
<1>7. CASE ToolAddNode(p)
  <2>1. PICK i \in Snapshot, n \in Node : AddNode(p, i, n)
    BY <1>7 DEF ToolAddNode
  <2> DEFINE s == Loaded(snapshots, snapshotFile[p], i)
             d == WithNode(s, n)
  <2>2. s \in Drawn /\ s = snapshotFile[p][i]
    BY <1>1, <2>1, FoundSnapshotIsDrawn, LoadedIsFile DEF AddNode
  <2>3. KeepSnapshot(p, i, d)
    BY <2>1 DEF AddNode
  <2>4. d \in Drawn /\ d.nodes = Append(s.nodes, n)
    BY <2>2, WithNodeCounts
  <2>5. IsPrefix(s.nodes, d.nodes)
    <3>1. s.nodes \in Seq(Node)
      BY <2>2 DEF Drawn
    <3> QED BY <2>4, <3>1, PrefixOfGrown
  <2> HIDE DEF s, d
  <2> QED BY <1>1, <2>2, <2>3, <2>4, <2>5, WrittenSnapshotGrows
<1>8. CASE ToolAddEdge(p)
  <2>1. PICK i \in Snapshot : AddEdge(p, i)
    BY <1>8 DEF ToolAddEdge
  <2> DEFINE s == Loaded(snapshots, snapshotFile[p], i)
             d == WithEdge(s)
  <2>2. s \in Drawn /\ s = snapshotFile[p][i]
    BY <1>1, <2>1, FoundSnapshotIsDrawn, LoadedIsFile DEF AddEdge
  <2>3. KeepSnapshot(p, i, d)
    BY <2>1 DEF AddEdge
  <2>4. d \in Drawn /\ d.nodes = s.nodes
    BY <2>2, WithEdgeCounts
  <2>5. IsPrefix(s.nodes, d.nodes)
    <3>1. s.nodes \in Seq(Node)
      BY <2>2 DEF Drawn
    <3> QED BY <2>4, <3>1 DEF IsPrefix
  <2> HIDE DEF s, d
  <2> QED BY <1>1, <2>2, <2>3, <2>4, <2>5, WrittenSnapshotGrows
<1>9. CASE ToolGetSnapshot(p)
  <2>1. PICK i \in Snapshot : GetSnapshot(p, i)
    BY <1>9 DEF ToolGetSnapshot
  <2>2. /\ snapshots' = [snapshots EXCEPT ![i] = snapshotFile[p][i]]
        /\ UNCHANGED <<evidence, evidenceFile, snapshotFile>>
    BY <2>1, LoadedIsFile DEF GetSnapshot
  <2>3. MemoryIsFile'
    BY <1>1, <2>2 DEF MemoryIsFile, StoresOK, OneProject
  <2> QED BY <1>1, <2>2, <2>3, SamePrefix DEF Grows
<1> QED BY <1>3, <1>4, <1>5, <1>6, <1>7, <1>8, <1>9 DEF StoreTool

OneInv == IInv /\ MemoryIsFile

LEMMA NextGrows ==
    ASSUME Assumptions, OneProject, OneInv, [SessionNext]_svars
    PROVE  OneInv' /\ [Grows]_stores
<1>1. IInv' /\ IInv /\ MemoryIsFile /\ StoresOK
  BY NextKeepsInv DEF OneInv, IInv
<1>2. ASSUME UNCHANGED stores PROVE MemoryIsFile' /\ [Grows]_stores
  BY <1>1, <1>2 DEF MemoryIsFile, stores
<1>3. CASE UNCHANGED svars
  <2>1. UNCHANGED stores
    BY <1>3 DEF svars
  <2> QED BY <1>1, <1>2, <2>1 DEF OneInv
<1>4. CASE SessionNext
  <2>1. CASE Restart
    <3>1. PICK torn : StoresEnd(torn)
      BY <2>1 DEF Restart
    <3>2. MemoryIsFile'
      BY <3>1 DEF StoresEnd, Blank, MemoryIsFile
    <3>3. ASSUME NEW p \in Project
          PROVE  /\ \A i \in Collection : evidenceFile'[p][i] \in {evidenceFile[p][i], Torn}
                 /\ \A i \in Snapshot : snapshotFile'[p][i] \in {snapshotFile[p][i], Torn}
      BY <3>1 DEF StoresEnd
    <3>4. Grows
      BY <1>1, <3>3, SamePrefix DEF Grows
    <3> QED BY <1>1, <3>2, <3>4 DEF OneInv
  <2>2. ASSUME NEW p \in Project, Transition(p) PROVE OneInv' /\ [Grows]_stores
    <3>1. UNCHANGED stores
      BY <2>2 DEF Transition
    <3> QED BY <1>1, <1>2, <3>1 DEF OneInv
  <2>3. ASSUME NEW p \in Project, StoreTool(p) PROVE OneInv' /\ [Grows]_stores
    BY <1>1, <2>3, StoreToolGrows DEF OneInv
  <2>4. ASSUME NEW p \in Project, LedgerTool(p) \/ BoardTool(p) PROVE OneInv' /\ [Grows]_stores
    <3>1. UNCHANGED stores
      BY <2>4, ToolsKeepApart
    <3> QED BY <1>1, <1>2, <3>1 DEF OneInv
  <2> QED BY <1>4, <2>1, <2>2, <2>3, <2>4, NextByPart
<1> QED BY <1>3, <1>4

\* For one project, whatever a file of evidence or of the graph holds is still there after every
\* step, but for a file torn by a process that ended while it wrote it (engines/evidence.py,
\* engines/world.py: what the memory misses is loaded before it is changed and saved).
THEOREM GatheredStays == ASSUME Assumptions, OneProject PROVE SessionSpec => NothingGatheredIsLost
<1>1. SessionInit => OneInv
  BY InitHolds DEF OneInv, SessionInit, StoresInit, Blank, MemoryIsFile
<1>2. OneInv /\ [SessionNext]_svars => OneInv' /\ [Grows]_stores
  BY NextGrows
<1>3. SessionSpec => [][Grows]_stores
  BY <1>1, <1>2, PTL DEF SessionSpec
<1> QED BY <1>3 DEF NothingGatheredIsLost, Grows

-----------------------------------------------------------------------------
(* Estimates and what is learned from outcomes                             *)

CONSTANTS Variable, Bounds, Given, One, Unit, Reliability, Guess, MaxEstimates,
          Actual, SourceTier, DefaultReliability, OutcomeWeight, EnoughRated, EnoughCases,
          MaxOutcomes

VARIABLES memory, file, made, outcomes, outcomeFile, value, recorded

L == INSTANCE Learning WITH Tier <- SourceTier

LEMMA EstimatesCount == \A S : L!Cardinality(S) = Cardinality(S)
BY DEF L!Cardinality, Cardinality

Trace(g, S, base, n, f) ==
    g \in [0 .. n -> S] /\ g[0] = base /\ \A i \in 1 .. n : g[i] = f[i][g[i - 1]]

\* A step that stays within S can be taken n times.
LEMMA StepsExist ==
    ASSUME NEW S, NEW base \in S, NEW n \in Nat, NEW f \in [1 .. n -> [S -> S]]
    PROVE  \E g : Trace(g, S, base, n, f)
<1> DEFINE Good(m, g) == g[0] = base /\ \A i \in 1 .. m : g[i] = f[i][g[i - 1]]
           Taken == {m \in Nat : m <= n => \E g \in [0 .. m -> S] : Good(m, g)}
<1>1. 0 \in Taken
  <2> DEFINE h == [i \in 0 .. 0 |-> base]
  <2>1. h \in [0 .. 0 -> S] /\ Good(0, h)
    OBVIOUS
  <2> HIDE DEF Good
  <2> QED
    BY <2>1
<1>2. ASSUME NEW k \in Nat, k \in Taken PROVE k + 1 \in Taken
  <2>1. SUFFICES ASSUME k + 1 <= n PROVE \E h \in [0 .. k + 1 -> S] : Good(k + 1, h)
    <3> HIDE DEF Good
    <3> QED
      OBVIOUS
  <2>2. PICK g \in [0 .. k -> S] : Good(k, g)
    <3> HIDE DEF Good
    <3> QED
      BY <1>2, <2>1
  <2> DEFINE h == [i \in 0 .. k + 1 |-> IF i = k + 1 THEN f[k + 1][g[k]] ELSE g[i]]
  <2>3. g[k] \in S /\ k + 1 \in 1 .. n
    BY <2>1, <2>2
  <2>4. h \in [0 .. k + 1 -> S]
    <3>1. f[k + 1][g[k]] \in S
      BY <2>3
    <3>2. \A i \in 0 .. k + 1 : i # k + 1 => i \in 0 .. k
      OBVIOUS
    <3> QED
      BY <2>2, <3>1, <3>2
  <2>5. h[0] = base
    BY <2>2
  <2>6. ASSUME NEW i \in 1 .. k + 1 PROVE h[i] = f[i][h[i - 1]]
    <3>1. i - 1 \in 0 .. k + 1 /\ i - 1 # k + 1 /\ i \in 0 .. k + 1
      OBVIOUS
    <3>2. h[i - 1] = g[i - 1]
      BY <3>1
    <3>3. CASE i = k + 1
      BY <3>1, <3>2, <3>3
    <3>4. CASE i # k + 1
      <4>1. i \in 1 .. k
        BY <3>4
      <4>2. g[i] = f[i][g[i - 1]]
        BY <2>2, <4>1
      <4>3. h[i] = g[i]
        BY <3>1, <3>4
      <4> QED
        BY <3>2, <4>2, <4>3
    <3> QED
      BY <3>3, <3>4
  <2> QED
    BY <2>4, <2>5, <2>6
<1>3. Nat \subseteq Taken
  <2> HIDE DEF Taken
  <2> QED
    BY <1>1, <1>2, CountingUp
<1>4. PICK g \in [0 .. n -> S] : Good(n, g)
  <2>1. n \in Taken
    <3> HIDE DEF Taken
    <3> QED
      BY <1>3
  <2> HIDE DEF Good
  <2> QED
    BY <2>1
<1> QED
  BY <1>4 DEF Trace

\* The members of S that are before i.
Below(S, R, i) == {j \in S : <<j, i>> \in R}

StrictTotal(S, R) ==
    /\ \A a \in S : <<a, a>> \notin R
    /\ \A a, b, c \in S : <<a, b>> \in R /\ <<b, c>> \in R => <<a, c>> \in R
    /\ \A a, b \in S : a # b => <<a, b>> \in R \/ <<b, a>> \in R

\* Under a strict total order every place of a finite set is taken by one of its members.
LEMMA PlacesFill ==
    ASSUME NEW S, IsFiniteSet(S), NEW R, StrictTotal(S, R)
    PROVE  /\ \A a, b \in S : Cardinality(Below(S, R, a)) = Cardinality(Below(S, R, b)) => a = b
           /\ \A k \in Nat : k < Cardinality(S) => \E i \in S : Cardinality(Below(S, R, i)) = k
<1> DEFINE n == Cardinality(S)
           place == [i \in S |-> Cardinality(Below(S, R, i))]
<1>1. n \in Nat
  BY FS_CardinalityType
<1>2. ASSUME NEW i \in S PROVE IsFiniteSet(Below(S, R, i)) /\ Cardinality(Below(S, R, i)) \in 0 .. (n - 1)
  <2>1. Below(S, R, i) \in SUBSET S /\ Below(S, R, i) # S
    BY DEF Below, StrictTotal
  <2>2. IsFiniteSet(Below(S, R, i)) /\ Cardinality(Below(S, R, i)) <= n /\ Cardinality(Below(S, R, i)) # n
    BY <2>1, FS_Subset, Zenon
  <2>3. Cardinality(Below(S, R, i)) \in Nat
    BY <2>2, FS_CardinalityType
  <2> HIDE DEF n
  <2> QED
    BY <1>1, <2>2, <2>3
<1>3. ASSUME NEW a \in S, NEW b \in S, <<a, b>> \in R
      PROVE  Cardinality(Below(S, R, a)) # Cardinality(Below(S, R, b))
  <2>1. Below(S, R, a) \in SUBSET Below(S, R, b) /\ a \in Below(S, R, b) /\ a \notin Below(S, R, a)
    BY <1>3 DEF Below, StrictTotal
  <2>2. Below(S, R, a) # Below(S, R, b)
    BY <2>1
  <2> QED
    BY <1>2, <2>1, <2>2, FS_Subset, Zenon
<1>4. \A a, b \in S : Cardinality(Below(S, R, a)) = Cardinality(Below(S, R, b)) => a = b
  BY <1>3 DEF StrictTotal
<1>5. place \in [S -> 0 .. (n - 1)]
  <2> HIDE DEF n
  <2> QED
    BY <1>2
<1>6. place \in Injection(S, 0 .. (n - 1))
  <2>1. \A a, b \in S : place[a] = place[b] => a = b
    BY <1>4
  <2> HIDE DEF place, n
  <2> QED
    BY <1>5, <2>1 DEF Injection, IsInjective
<1>7. IsFiniteSet(0 .. (n - 1)) /\ Cardinality(0 .. (n - 1)) = n
  <2> HIDE DEF n
  <2> QED
    BY <1>1, FS_Interval
<1>8. place \in Surjection(S, 0 .. (n - 1))
  <2> HIDE DEF place
  <2> QED
    BY <1>6, <1>7, FS_Injection
<1>9. ASSUME NEW k \in Nat, k < n PROVE \E i \in S : Cardinality(Below(S, R, i)) = k
  <2>1. k \in 0 .. (n - 1)
    BY <1>1, <1>9
  <2>2. \E i \in S : place[i] = k
    <3> HIDE DEF place, n
    <3> QED
      BY <1>8, <2>1 DEF Surjection
  <2> QED
    BY <2>2
<1> QED
  BY <1>4, <1>9

-----------------------------------------------------------------------------
(* The order of reliability *)

\* Estimate j of a list comes before estimate i when they are sorted.
Before(es, j, i) == es[j].r > es[i].r \/ (es[j].r = es[i].r /\ j < i)

Rank(es, i) == Cardinality({j \in DOMAIN es : Before(es, j, i)}) + 1

Ratings(es) == \A i \in DOMAIN es : es[i].r \in Int

\* Every estimate has a place of its own, and every place an estimate.
LEMMA PlacesOfEstimates ==
    ASSUME NEW E, NEW es \in Seq(E), Ratings(es)
    PROVE  /\ DOMAIN es = 1 .. Len(es) /\ Len(es) \in Nat
           /\ \A a, b \in DOMAIN es : Rank(es, a) = Rank(es, b) => a = b
           /\ \A k \in DOMAIN es : \E i \in DOMAIN es : Rank(es, i) = k
<1> DEFINE S == DOMAIN es
           R == {p \in S \X S : Before(es, p[1], p[2])}
<1>1. S = 1 .. Len(es) /\ Len(es) \in Nat
  OBVIOUS
<1>2. IsFiniteSet(S) /\ Cardinality(S) = Len(es)
  BY <1>1, FS_Interval
<1>3. \A a, b \in S : <<a, b>> \in R <=> Before(es, a, b)
  OBVIOUS
<1>4. \A a \in S : es[a].r \in Int /\ a \in Int
  BY <1>1 DEF Ratings
<1>5. \A a \in S : <<a, a>> \notin R
  <2> HIDE DEF R, S
  <2> QED
    BY <1>3, <1>4 DEF Before
<1>6. \A a, b, c \in S : <<a, b>> \in R /\ <<b, c>> \in R => <<a, c>> \in R
  <2> HIDE DEF R, S
  <2> QED
    BY <1>3, <1>4 DEF Before
<1>7. \A a, b \in S : a # b => <<a, b>> \in R \/ <<b, a>> \in R
  <2> HIDE DEF R, S
  <2> QED
    BY <1>3, <1>4 DEF Before
<1>s. StrictTotal(S, R)
  <2> HIDE DEF R, S
  <2> QED
    BY <1>5, <1>6, <1>7 DEF StrictTotal
<1>8. \A i \in S : Rank(es, i) = Cardinality(Below(S, R, i)) + 1 /\ Cardinality(Below(S, R, i)) \in Nat
  <2> TAKE i \in S
  <2>1. {j \in S : Before(es, j, i)} = Below(S, R, i)
    <3> HIDE DEF R, S
    <3> QED
      BY <1>3 DEF Below
  <2>2. Below(S, R, i) \in SUBSET S
    BY DEF Below
  <2> HIDE DEF R
  <2>3. IsFiniteSet(Below(S, R, i))
    BY <1>2, <2>2, FS_Subset
  <2>4. Cardinality(Below(S, R, i)) \in Nat
    BY <2>3, FS_CardinalityType
  <2> QED
    BY <2>1, <2>4 DEF Rank
<1> HIDE DEF R, S
<1>9. /\ \A a, b \in S : Cardinality(Below(S, R, a)) = Cardinality(Below(S, R, b)) => a = b
      /\ \A k \in Nat : k < Cardinality(S) => \E i \in S : Cardinality(Below(S, R, i)) = k
  BY <1>2, <1>s, PlacesFill
<1>10. ASSUME NEW a \in S, NEW b \in S, Rank(es, a) = Rank(es, b) PROVE a = b
  BY <1>8, <1>9, <1>10
<1>11. ASSUME NEW k \in S PROVE \E i \in S : Rank(es, i) = k
  <2>1. k - 1 \in Nat /\ k - 1 < Cardinality(S) /\ k \in Int
    BY <1>1, <1>2
  <2>2. PICK i \in S : Cardinality(Below(S, R, i)) = k - 1
    BY <1>9, <2>1
  <2> QED
    BY <1>8, <2>1, <2>2
<1> QED
  BY <1>1, <1>10, <1>11 DEF S

\* A sorted list has the estimates of the list.
LEMMA SortedIs ==
    ASSUME NEW E, NEW es \in Seq(E), Ratings(es)
    PROVE  \A k \in DOMAIN es :
                \E i \in DOMAIN es : L!ByReliability(es)[k] = es[i] /\ Rank(es, i) = k
<1> TAKE k \in DOMAIN es
<1> DEFINE found == CHOOSE i \in DOMAIN es : Rank(es, i) = k
<1>1. found \in DOMAIN es /\ Rank(es, found) = k
  BY PlacesOfEstimates
<1>2. \A i : L!Cardinality({j \in DOMAIN es : Before(es, j, i)}) + 1 = Rank(es, i)
  BY EstimatesCount DEF Rank
<1>3. L!ByReliability(es)[k] = es[CHOOSE i \in DOMAIN es :
                                    L!Cardinality({j \in DOMAIN es : Before(es, j, i)}) + 1 = k]
  BY DEF L!ByReliability, Before
<1>4. L!ByReliability(es)[k] = es[found]
  BY <1>2, <1>3
<1> QED
  BY <1>1, <1>4

\* Estimates of which no two are equally reliable are sorted the same from the last to the first.
LEMMA SortedFromTheEnd ==
    ASSUME NEW E, NEW es \in Seq(E), Ratings(es),
           \A i, j \in DOMAIN es : i # j => es[i].r # es[j].r
    PROVE  /\ L!ByReliability(L!Reverse(es)) = L!ByReliability(es)
           /\ DOMAIN L!Reverse(es) = DOMAIN es
           /\ Len(L!Reverse(es)) = Len(es)
<1> DEFINE n == Len(es)
           back == L!Reverse(es)
           S == DOMAIN es
           Other(i) == n + 1 - i
<1>1. n \in Nat /\ S = 1 .. n
  OBVIOUS
<1>2. back \in Seq(E) /\ DOMAIN back = S /\ Len(back) = n /\ \A i \in S : back[i] = es[Other(i)]
  <2>1. back = [i \in 1 .. n |-> es[(n - i) + 1]]
    BY DEF L!Reverse
  <2>2. \A i \in 1 .. n : (n - i) + 1 = Other(i) /\ Other(i) \in 1 .. n
    BY <1>1
  <2>3. back \in [1 .. n -> E]
    BY <2>1, <2>2
  <2>4. back \in Seq(E) /\ DOMAIN back = S
    BY <1>1, <2>3
  <2>5. Len(back) = n
    BY <1>1, <2>3, <2>4
  <2> QED
    BY <1>1, <2>1, <2>2, <2>4, <2>5
<1>3. \A i \in S : Other(i) \in S /\ Other(Other(i)) = i /\ i \in Int /\ es[i].r \in Int
  BY <1>1 DEF Ratings
<1>4. Ratings(back)
  <2> HIDE DEF back, S, n
  <2> QED
    BY <1>2, <1>3 DEF Ratings
<1>5. \A i, j \in S : Before(back, j, i) <=> Before(es, Other(j), Other(i))
  <2> TAKE i, j \in S
  <2>1. back[i].r = es[Other(i)].r /\ back[j].r = es[Other(j)].r
    BY <1>2
  <2>2. es[Other(i)].r \in Int /\ es[Other(j)].r \in Int
    BY <1>3
  <2>3. CASE i = j
    <3>1. ~ (i < i) /\ ~ (Other(i) < Other(i))
      BY <1>1, <1>3
    <3> HIDE DEF back, Other, S
    <3> QED
      BY <2>1, <2>2, <2>3, <3>1 DEF Before
  <2>4. CASE i # j
    <3>1. Other(i) # Other(j)
      BY <1>3, <2>4
    <3>2. es[Other(i)].r # es[Other(j)].r
      <4> HIDE DEF Other
      <4> QED
        BY <1>3, <3>1
    <3> HIDE DEF back, Other, S
    <3> QED
      BY <2>1, <2>2, <3>2 DEF Before
  <2> QED
    BY <2>3, <2>4
<1>6. ASSUME NEW i \in S
      PROVE  Rank(back, i) = Rank(es, Other(i))
  <2> DEFINE A == {j \in S : Before(back, j, i)}
             B == {j \in S : Before(es, j, Other(i))}
             f == [j \in A |-> Other(j)]
  <2>1. \A j \in A : Other(j) \in B
    BY <1>3, <1>5
  <2>2. \A j \in B : Other(j) \in A
    BY <1>3, <1>5
  <2>3. f \in [A -> B]
    <3> HIDE DEF A, B, Other
    <3> QED
      BY <2>1
  <2>4. \A j, k \in A : f[j] = f[k] => j = k
    BY <1>3
  <2>5. \A k \in B : \E j \in A : f[j] = k
    <3> TAKE k \in B
    <3>1. Other(k) \in A /\ Other(Other(k)) = k
      BY <1>3, <2>2
    <3> HIDE DEF A, B, Other
    <3> QED
      BY <3>1
  <2>6. f \in Bijection(A, B)
    <3> HIDE DEF A, B, f
    <3> QED
      BY <2>3, <2>4, <2>5 DEF Bijection, Injection, IsInjective, Surjection
  <2>7. IsFiniteSet(A)
    <3>1. IsFiniteSet(S) /\ A \in SUBSET S
      BY <1>1, FS_Interval
    <3> HIDE DEF A, S
    <3> QED
      BY <3>1, FS_Subset
  <2>8. Cardinality(A) = Cardinality(B)
    <3> HIDE DEF A, B, f
    <3>1. ExistsBijection(A, B)
      BY <2>6 DEF ExistsBijection
    <3> QED
      BY <2>7, <3>1, FS_Bijection, Zenon
  <2>9. A = {j \in DOMAIN back : Before(back, j, i)} /\ B = {j \in DOMAIN es : Before(es, j, Other(i))}
    BY <1>2
  <2> HIDE DEF A, B, back, Other
  <2> QED
    BY <2>8, <2>9 DEF Rank
<1>7. ASSUME NEW k \in S PROVE L!ByReliability(back)[k] = L!ByReliability(es)[k]
  <2> HIDE DEF back, n, S
  <2>1. PICK i \in S : L!ByReliability(back)[k] = back[i] /\ Rank(back, i) = k
    BY <1>2, <1>4, SortedIs
  <2>2. PICK m \in S : L!ByReliability(es)[k] = es[m] /\ Rank(es, m) = k
    BY SortedIs DEF S
  <2>3. Rank(es, Other(i)) = k /\ Other(i) \in S
    BY <1>3, <1>6, <2>1
  <2>4. Other(i) = m
    <3> HIDE DEF Other
    <3> QED
      BY <2>2, <2>3, PlacesOfEstimates DEF S
  <2> QED
    BY <1>2, <2>1, <2>2, <2>4
<1>8. /\ L!ByReliability(back) = [k \in S |-> L!ByReliability(back)[k]]
      /\ L!ByReliability(es) = [k \in S |-> L!ByReliability(es)[k]]
  BY <1>2 DEF L!ByReliability
<1>9. L!ByReliability(back) = L!ByReliability(es)
  <2> HIDE DEF back, S
  <2> QED
    BY <1>7, <1>8
<1> QED
  BY <1>2, <1>9

-----------------------------------------------------------------------------
(* The fused range *)

LEMMA OfTwo ==
    ASSUME NEW a \in Int, NEW b \in Int
    PROVE  /\ L!Max({a, b}) = IF a >= b THEN a ELSE b
           /\ L!Min({a, b}) = IF a <= b THEN a ELSE b
BY DEF L!Max, L!Min

\* One of finitely many numbers is the highest.
LEMMA Highest ==
    ASSUME NEW n \in Nat, n >= 1, NEW f \in [1 .. n -> Int]
    PROVE  \E i \in 1 .. n : \A j \in 1 .. n : f[j] <= f[i]
<1> DEFINE Top(m, i) == \A j \in 1 .. m : f[j] <= f[i]
           Has == {m \in Nat : m + 1 <= n => \E i \in 1 .. m + 1 : Top(m + 1, i)}
<1>1. 0 \in Has
  <2>1. 1 \in 1 .. 0 + 1 /\ (0 + 1 <= n => Top(0 + 1, 1))
    OBVIOUS
  <2> HIDE DEF Top
  <2> QED
    BY <2>1
<1>2. ASSUME NEW k \in Nat, k \in Has PROVE k + 1 \in Has
  <2>1. SUFFICES ASSUME k + 1 + 1 <= n PROVE \E i \in 1 .. k + 1 + 1 : Top(k + 1 + 1, i)
    <3> HIDE DEF Top
    <3> QED
      OBVIOUS
  <2>2. PICK i \in 1 .. k + 1 : Top(k + 1, i)
    <3> HIDE DEF Top
    <3> QED
      BY <1>2, <2>1
  <2>3. i \in 1 .. k + 2 /\ f[i] \in Int /\ f[k + 2] \in Int /\ k + 2 \in 1 .. k + 2 /\ k + 1 + 1 = k + 2
    BY <2>1, <2>2
  <2>4. \A j \in 1 .. k + 2 : f[j] \in Int /\ (j = k + 2 \/ f[j] <= f[i])
    BY <2>1, <2>2
  <2>5. CASE f[k + 2] <= f[i]
    <3>1. Top(k + 2, i)
      BY <2>3, <2>4, <2>5
    <3> HIDE DEF Top
    <3> QED
      BY <2>3, <3>1
  <2>6. CASE f[i] < f[k + 2]
    <3>1. Top(k + 2, k + 2)
      BY <2>3, <2>4, <2>6
    <3> HIDE DEF Top
    <3> QED
      BY <2>3, <3>1
  <2> QED
    BY <2>3, <2>5, <2>6
<1>3. Nat \subseteq Has
  <2> HIDE DEF Has
  <2> QED
    BY <1>1, <1>2, CountingUp
<1>4. n - 1 \in Nat /\ (n - 1) + 1 = n
  OBVIOUS
<1>5. n - 1 \in Has
  <2> HIDE DEF Has
  <2> QED
    BY <1>3, <1>4
<1>6. \E i \in 1 .. n : Top(n, i)
  <2> HIDE DEF Top
  <2> QED
    BY <1>4, <1>5
<1> QED
  BY <1>6

\* Min and Max of the values of a list of numbers.
LEMMA Extremes ==
    ASSUME NEW n \in Nat, n >= 1, NEW f \in [1 .. n -> Int]
    PROVE  /\ \E i \in 1 .. n : L!Max({f[k] : k \in 1 .. n}) = f[i]
           /\ \E i \in 1 .. n : L!Min({f[k] : k \in 1 .. n}) = f[i]
           /\ \A k \in 1 .. n : /\ f[k] <= L!Max({f[m] : m \in 1 .. n})
                                /\ L!Min({f[m] : m \in 1 .. n}) <= f[k]
<1> DEFINE S == {f[k] : k \in 1 .. n}
           g == [k \in 1 .. n |-> -f[k]]
<1>1. \A k \in 1 .. n : f[k] \in S /\ f[k] \in Int /\ g[k] = -f[k]
  OBVIOUS
<1>2. \A x \in S : \E k \in 1 .. n : x = f[k]
  OBVIOUS
<1>3. PICK i \in 1 .. n : \A j \in 1 .. n : f[j] <= f[i]
  BY Highest
<1>4. g \in [1 .. n -> Int]
  OBVIOUS
<1>5. PICK m \in 1 .. n : \A j \in 1 .. n : g[j] <= g[m]
  <2> HIDE DEF g
  <2> QED
    BY <1>4, Highest
<1>6. \A j \in 1 .. n : f[m] <= f[j]
  <2> HIDE DEF g, S
  <2> QED
    BY <1>1, <1>5
<1>7. f[i] \in S /\ \A y \in S : f[i] >= y
  <2> HIDE DEF S
  <2> QED
    BY <1>1, <1>2, <1>3
<1>8. f[m] \in S /\ \A y \in S : f[m] <= y
  <2> HIDE DEF S
  <2> QED
    BY <1>1, <1>2, <1>6
<1>9. L!Max(S) \in S /\ \A y \in S : L!Max(S) >= y
  <2> HIDE DEF S
  <2> QED
    BY <1>7 DEF L!Max
<1>10. L!Min(S) \in S /\ \A y \in S : L!Min(S) <= y
  <2> HIDE DEF S
  <2> QED
    BY <1>8 DEF L!Min
<1>11. \A k \in 1 .. n : f[k] <= L!Max(S) /\ L!Min(S) <= f[k]
  <2> HIDE DEF S
  <2> QED
    BY <1>1, <1>2, <1>9, <1>10
<1>12. (\E k \in 1 .. n : L!Max(S) = f[k]) /\ (\E k \in 1 .. n : L!Min(S) = f[k])
  <2> HIDE DEF S
  <2> QED
    BY <1>2, <1>9, <1>10
<1> QED
  BY <1>11, <1>12

\* A share of a distance lies between nothing and the whole of it.
LEMMA Share ==
    ASSUME NEW d \in Int, NEW r \in Nat, NEW U \in Nat \ {0}, r <= U
    PROVE  /\ (d * r) \div U \in Int
           /\ d >= 0 => 0 <= (d * r) \div U /\ (d * r) \div U <= d
           /\ d <= 0 => d <= (d * r) \div U /\ (d * r) \div U <= 0
<1> DEFINE q == (d * r) \div U
<1>1. d * r \in Int /\ q \in Int /\ d * U \in Int
  OBVIOUS
<1>2. PICK x \in Int : x = d * r
  BY <1>1
<1>3. q \in Int /\ U * q <= x /\ x < U * q + U
  BY <1>2
<1>4. CASE d >= 0
  <2>1. 0 <= x /\ x <= d * U
    BY <1>2, <1>4
  <2> HIDE DEF q
  <2>2. 0 <= q
    <3>1. SUFFICES ASSUME q <= -1 PROVE FALSE
      BY <1>3
    <3>2. U * q <= -U
      BY <1>3, <3>1
    <3> QED
      BY <1>3, <2>1, <3>2
  <2>3. q <= d
    <3>1. SUFFICES ASSUME q >= d + 1 PROVE FALSE
      BY <1>3
    <3>2. U * q >= U * d + U
      BY <1>3, <3>1
    <3> QED
      BY <1>3, <2>1, <3>2
  <2>4. d = 0 => q <= 0
    BY <2>3
  <2> QED
    BY <1>3, <1>4, <2>2, <2>3, <2>4 DEF q
<1>5. CASE d < 0
  <2>1. x <= 0 /\ d * U <= x
    BY <1>2, <1>5
  <2> HIDE DEF q
  <2>2. q <= 0
    <3>1. SUFFICES ASSUME q >= 1 PROVE FALSE
      BY <1>3
    <3>2. U * q >= U
      BY <1>3, <3>1
    <3> QED
      BY <1>3, <2>1, <3>2
  <2>3. d <= q
    <3>1. SUFFICES ASSUME q <= d - 1 PROVE FALSE
      BY <1>3
    <3>2. U * q <= U * d - U
      BY <1>3, <3>1
    <3> QED
      BY <1>3, <2>1, <3>2
  <2> QED
    BY <1>3, <1>5, <2>2, <2>3 DEF q
<1> QED
  BY <1>4, <1>5

Ivs == L!Interval

\* Moving a range towards another that overlaps it keeps it within itself, and keeps what the
\* two share.
LEMMA TowardKeeps ==
    ASSUME Unit \in Nat \ {0}, NEW a \in Ivs, NEW b \in Ivs, NEW r \in 0 .. Unit, L!Overlap(a, b)
    PROVE  /\ L!Toward(a, b, r) \in Ivs
           /\ L!Within(L!Toward(a, b, r), a)
           /\ \A c \in Ivs : L!Within(c, a) /\ L!Within(c, b) => L!Within(c, L!Toward(a, b, r))
<1> DEFINE both == L!Meet(a, b)
           x == ((both.lo - a.lo) * r) \div Unit
           y == ((both.hi - a.hi) * r) \div Unit
<1>1. /\ a.lo \in Int /\ a.hi \in Int /\ b.lo \in Int /\ b.hi \in Int
      /\ a.lo <= a.hi /\ b.lo <= b.hi /\ a.lo <= b.hi /\ b.lo <= a.hi
  BY DEF Ivs, L!Interval, L!Overlap
<1>2. /\ both.lo = IF a.lo >= b.lo THEN a.lo ELSE b.lo
      /\ both.hi = IF a.hi <= b.hi THEN a.hi ELSE b.hi
  <2>1. L!Max({a.lo, b.lo}) = IF a.lo >= b.lo THEN a.lo ELSE b.lo
    BY <1>1, OfTwo
  <2>2. L!Min({a.hi, b.hi}) = IF a.hi <= b.hi THEN a.hi ELSE b.hi
    BY <1>1, OfTwo
  <2>3. PICK p, q : p = L!Max({a.lo, b.lo}) /\ q = L!Min({a.hi, b.hi})
    OBVIOUS
  <2>4. both = L!Iv(p, q)
    BY <2>3 DEF L!Meet
  <2>5. p <= q /\ p \in Int /\ q \in Int
    BY <1>1, <2>1, <2>2, <2>3
  <2>6. both.lo = p /\ both.hi = q
    BY <2>4, <2>5 DEF L!Iv
  <2> QED
    BY <2>1, <2>2, <2>3, <2>6
<1> HIDE DEF both
<1>3. /\ both.lo \in Int /\ both.hi \in Int /\ a.lo <= both.lo /\ both.lo <= both.hi /\ both.hi <= a.hi
      /\ b.lo <= both.lo /\ both.hi <= b.hi
  BY <1>1, <1>2
<1>4. both.lo - a.lo \in Int /\ both.lo - a.lo >= 0 /\ both.hi - a.hi \in Int /\ both.hi - a.hi <= 0
      /\ r \in Nat /\ r <= Unit
  BY <1>1, <1>3
<1>5. x \in Int /\ 0 <= x /\ x <= both.lo - a.lo
  BY <1>4, Share
<1>6. y \in Int /\ both.hi - a.hi <= y /\ y <= 0
  BY <1>4, Share
<1> HIDE DEF x, y
<1>7. L!Toward(a, b, r) = [lo |-> a.lo + x, hi |-> a.hi + y]
  <2>1. a.lo + x <= a.hi + y /\ a.lo + x \in Int /\ a.hi + y \in Int
    BY <1>1, <1>3, <1>5, <1>6
  <2>2. L!Toward(a, b, r) = L!Iv(a.lo + x, a.hi + y)
    BY DEF L!Toward, x, y, both
  <2> QED
    BY <2>1, <2>2 DEF L!Iv
<1>8. PICK t : t = L!Toward(a, b, r)
  OBVIOUS
<1>9. t \in Ivs /\ t.lo = a.lo + x /\ t.hi = a.hi + y
  BY <1>1, <1>3, <1>5, <1>6, <1>7, <1>8 DEF Ivs, L!Interval
<1>10. L!Within(t, a)
  BY <1>1, <1>5, <1>6, <1>9 DEF L!Within
<1>11. ASSUME NEW c \in Ivs, L!Within(c, a), L!Within(c, b) PROVE L!Within(c, t)
  <2>1. c.lo \in Int /\ c.hi \in Int /\ a.lo <= c.lo /\ b.lo <= c.lo /\ c.hi <= a.hi /\ c.hi <= b.hi
    BY <1>11 DEF Ivs, L!Interval, L!Within
  <2>2. both.lo <= c.lo /\ c.hi <= both.hi
    BY <1>2, <2>1
  <2> QED
    BY <1>1, <1>3, <1>5, <1>6, <1>9, <2>1, <2>2 DEF L!Within
<1> QED
  BY <1>8, <1>9, <1>10, <1>11

\* An estimate that has been made of v: a range that is kept within the bounds of v.
MadeOf(v) == {e \in [id : 1 .. MaxEstimates, iv : Ivs, r : 0 .. Unit, given : Ivs] :
                e.iv = L!Clamped(v, e.given)}

\* What the range of a list of ranges spans, and what all of them have in common.
LEMMA ReachAndCommon ==
    ASSUME NEW v, NEW es \in Seq(MadeOf(v)), Len(es) >= 1
    PROVE  /\ L!Reach(es) \in [lo : Int, hi : Int] /\ L!Common(es) \in [lo : Int, hi : Int]
           /\ \A i \in DOMAIN es : L!Within(es[i].iv, L!Reach(es)) /\ L!Within(L!Common(es), es[i].iv)
           /\ \E i \in DOMAIN es : L!Reach(es).lo = es[i].iv.lo
           /\ \E i \in DOMAIN es : L!Reach(es).hi = es[i].iv.hi
           /\ \E i \in DOMAIN es : L!Common(es).lo = es[i].iv.lo
           /\ \E i \in DOMAIN es : L!Common(es).hi = es[i].iv.hi
<1> DEFINE n == Len(es)
           lo == [i \in 1 .. n |-> es[i].iv.lo]
           hi == [i \in 1 .. n |-> es[i].iv.hi]
<1>1. n \in Nat /\ DOMAIN es = 1 .. n
  OBVIOUS
<1>2. \A i \in 1 .. n : es[i].iv.lo \in Int /\ es[i].iv.hi \in Int
  BY <1>1 DEF MadeOf, Ivs, L!Interval
<1> HIDE DEF n
<1>3. lo \in [1 .. n -> Int] /\ hi \in [1 .. n -> Int]
  BY <1>2
<1>4. \A i \in 1 .. n : lo[i] = es[i].iv.lo /\ hi[i] = es[i].iv.hi
  OBVIOUS
<1>5. {es[i].iv.lo : i \in DOMAIN es} = {lo[i] : i \in 1 .. n}
  BY <1>1
<1>6. {es[i].iv.hi : i \in DOMAIN es} = {hi[i] : i \in 1 .. n}
  BY <1>1
<1> HIDE DEF lo, hi
<1>7. n >= 1
  BY DEF n
<1>8. /\ \E i \in 1 .. n : L!Max({lo[k] : k \in 1 .. n}) = lo[i]
      /\ \E i \in 1 .. n : L!Min({lo[k] : k \in 1 .. n}) = lo[i]
      /\ \A k \in 1 .. n : /\ lo[k] <= L!Max({lo[m] : m \in 1 .. n})
                           /\ L!Min({lo[m] : m \in 1 .. n}) <= lo[k]
  BY <1>1, <1>3, <1>7, Extremes
<1>9. /\ \E i \in 1 .. n : L!Max({hi[k] : k \in 1 .. n}) = hi[i]
      /\ \E i \in 1 .. n : L!Min({hi[k] : k \in 1 .. n}) = hi[i]
      /\ \A k \in 1 .. n : /\ hi[k] <= L!Max({hi[m] : m \in 1 .. n})
                           /\ L!Min({hi[m] : m \in 1 .. n}) <= hi[k]
  BY <1>1, <1>3, <1>7, Extremes
<1>10. /\ L!Reach(es) = [lo |-> L!Min({lo[i] : i \in 1 .. n}), hi |-> L!Max({hi[i] : i \in 1 .. n})]
       /\ L!Common(es) = [lo |-> L!Max({lo[i] : i \in 1 .. n}), hi |-> L!Min({hi[i] : i \in 1 .. n})]
  BY <1>5, <1>6 DEF L!Reach, L!Common
<1>11. PICK a, b, c, d : /\ a = L!Min({lo[i] : i \in 1 .. n}) /\ b = L!Max({hi[i] : i \in 1 .. n})
                         /\ c = L!Max({lo[i] : i \in 1 .. n}) /\ d = L!Min({hi[i] : i \in 1 .. n})
  OBVIOUS
<1>12. /\ \E i \in 1 .. n : a = lo[i]
       /\ \E i \in 1 .. n : b = hi[i]
       /\ \E i \in 1 .. n : c = lo[i]
       /\ \E i \in 1 .. n : d = hi[i]
       /\ \A k \in 1 .. n : a <= lo[k] /\ lo[k] <= c /\ d <= hi[k] /\ hi[k] <= b
  BY <1>8, <1>9, <1>11
<1>13. L!Reach(es) = [lo |-> a, hi |-> b] /\ L!Common(es) = [lo |-> c, hi |-> d]
  BY <1>10, <1>11
<1>14. a \in Int /\ b \in Int /\ c \in Int /\ d \in Int
  BY <1>3, <1>12
<1> QED
  BY <1>1, <1>4, <1>12, <1>13, <1>14 DEF L!Within


\* The range fused so far of some of the estimates es.
FusedSoFar(es) ==
    {a \in [iv : Ivs, conflicts : SUBSET Nat] :
        /\ L!Within(a.iv, L!Reach(es))
        /\ ~ L!Disjoint(es) => L!Within(L!Common(es), a.iv) /\ a.conflicts = {}}

\* Two ranges have something in common if and only if they overlap.
LEMMA CommonIsRange ==
    ASSUME NEW v, NEW es \in Seq(MadeOf(v)), Len(es) >= 1, ~ L!Disjoint(es)
    PROVE  L!Common(es) \in Ivs
<1>1. PICK i \in DOMAIN es : L!Common(es).lo = es[i].iv.lo
  BY ReachAndCommon
<1>2. PICK j \in DOMAIN es : L!Common(es).hi = es[j].iv.hi
  BY ReachAndCommon
<1>3. es[i].iv.lo <= es[j].iv.hi
  BY DEF L!Disjoint, L!Overlap
<1>4. L!Common(es) \in [lo : Int, hi : Int]
  BY ReachAndCommon
<1> QED
  BY <1>1, <1>2, <1>3, <1>4 DEF Ivs, L!Interval

\* Another estimate keeps what is promised of the range fused so far.
LEMMA JoinedStays ==
    ASSUME L!EstimationAssumption, NEW v, NEW es \in Seq(MadeOf(v)), Len(es) >= 1,
           NEW a \in FusedSoFar(es), NEW i \in DOMAIN es
    PROVE  L!Joined(a, es[i]) \in FusedSoFar(es)
<1>1. PICK e : e = es[i]
  OBVIOUS
<1>2. e \in MadeOf(v)
  BY <1>1
<1>3. PICK R : R = L!Reach(es)
  OBVIOUS
<1>4. PICK C : C = L!Common(es)
  OBVIOUS
<1>5. R \in [lo : Int, hi : Int] /\ C \in [lo : Int, hi : Int] /\ L!Within(e.iv, R) /\ L!Within(C, e.iv)
  BY <1>1, <1>3, <1>4, ReachAndCommon
<1>6. ~ L!Disjoint(es) => C \in Ivs
  BY <1>4, CommonIsRange
<1>7. /\ a \in [iv : Ivs, conflicts : SUBSET Nat] /\ L!Within(a.iv, R)
      /\ ~ L!Disjoint(es) => L!Within(C, a.iv) /\ a.conflicts = {}
  BY <1>3, <1>4 DEF FusedSoFar
<1>8. e.iv \in Ivs /\ e.r \in 0 .. Unit /\ e.id \in Nat /\ Unit \in Nat \ {0} /\ a.iv \in Ivs
      /\ a.conflicts \subseteq Nat
  BY <1>2, <1>7 DEF MadeOf, L!EstimationAssumption
<1>9. CASE L!Overlap(a.iv, e.iv)
  <2>1. PICK t : t = L!Toward(a.iv, e.iv, e.r)
    OBVIOUS
  <2>2. t \in Ivs /\ L!Within(t, a.iv) /\ \A c \in Ivs : L!Within(c, a.iv) /\ L!Within(c, e.iv) => L!Within(c, t)
    BY <1>8, <1>9, <2>1, TowardKeeps
  <2>3. L!Joined(a, e) = [iv |-> t, conflicts |-> a.conflicts]
    BY <1>7, <1>9, <2>1 DEF L!Joined
  <2>4. L!Within(t, R)
    BY <1>5, <1>7, <1>8, <2>2 DEF L!Within, Ivs, L!Interval
  <2>5. ~ L!Disjoint(es) => L!Within(C, t)
    BY <1>5, <1>6, <1>7, <2>2
  <2> QED
    BY <1>1, <1>3, <1>4, <1>7, <1>8, <2>2, <2>3, <2>4, <2>5 DEF FusedSoFar
<1>10. CASE ~ L!Overlap(a.iv, e.iv)
  <2>1. PICK h : h = L!Hull(a.iv, e.iv)
    OBVIOUS
  <2>2. L!Joined(a, e) = [iv |-> h, conflicts |-> a.conflicts \union {e.id}]
    BY <1>10, <2>1 DEF L!Joined
  <2>3. PICK p, q : p = L!Min({a.iv.lo, e.iv.lo}) /\ q = L!Max({a.iv.hi, e.iv.hi})
    OBVIOUS
  <2>4. /\ a.iv.lo \in Int /\ a.iv.hi \in Int /\ e.iv.lo \in Int /\ e.iv.hi \in Int
        /\ a.iv.lo <= a.iv.hi /\ e.iv.lo <= e.iv.hi
    BY <1>8 DEF Ivs, L!Interval
  <2>5. p = IF a.iv.lo <= e.iv.lo THEN a.iv.lo ELSE e.iv.lo
    BY <2>3, <2>4, OfTwo
  <2>6. q = IF a.iv.hi >= e.iv.hi THEN a.iv.hi ELSE e.iv.hi
    BY <2>3, <2>4, OfTwo
  <2>7. p \in Int /\ q \in Int /\ p <= q
    BY <2>4, <2>5, <2>6
  <2>8. h = L!Iv(p, q)
    BY <2>1, <2>3 DEF L!Hull
  <2>9. h = [lo |-> p, hi |-> q]
    BY <2>7, <2>8 DEF L!Iv
  <2>10. h \in Ivs
    BY <2>7, <2>9 DEF Ivs, L!Interval
  <2>11. L!Within(h, R)
    BY <1>5, <1>7, <2>4, <2>5, <2>6, <2>9 DEF L!Within
  <2>12. L!Disjoint(es)
    <3>1. SUFFICES ASSUME ~ L!Disjoint(es) PROVE FALSE
      OBVIOUS
    <3>2. L!Within(C, a.iv) /\ L!Within(C, e.iv) /\ C.lo <= C.hi /\ C.lo \in Int /\ C.hi \in Int
      BY <1>5, <1>6, <1>7, <3>1 DEF Ivs, L!Interval
    <3> QED
      BY <1>10, <2>4, <3>2 DEF L!Within, L!Overlap
  <2>13. a.conflicts \union {e.id} \in SUBSET Nat
    BY <1>8
  <2> QED
    BY <1>1, <1>3, <2>2, <2>10, <2>11, <2>12, <2>13 DEF FusedSoFar
<1> QED
  BY <1>9, <1>10

LEMMA MadeAreRated ==
    ASSUME L!EstimationAssumption, NEW v, NEW es \in Seq(MadeOf(v))
    PROVE  Ratings(es)
<1>1. \A i \in DOMAIN es : es[i] \in MadeOf(v)
  OBVIOUS
<1> QED
  BY <1>1 DEF Ratings, MadeOf, L!EstimationAssumption

\* The recursion of a fusion is that of its steps: what is fused of all estimates is as promised.
LEMMA FusedAll ==
    ASSUME L!EstimationAssumption, NEW v, NEW es \in Seq(MadeOf(v)), Len(es) >= 1
    PROVE  \E a \in FusedSoFar(es) :
                L!BatchFuse(es, v) = [iv |-> L!Clamped(v, a.iv), conflicts |-> a.conflicts]
<1> DEFINE n == Len(es)
           sorted == L!ByReliability(es)
           first == [iv |-> sorted[1].iv, conflicts |-> {}]
           F == FusedSoFar(es)
           f == [i \in 1 .. (n - 1) |-> [a \in F |-> L!Joined(a, sorted[i + 1])]]
           G(a) == a = [k \in DOMAIN es |-> IF k = 1 THEN first ELSE L!Joined(a[k - 1], sorted[k])]
           all == CHOOSE a : G(a)
<1>1. n \in Nat /\ n >= 1 /\ DOMAIN es = 1 .. n
  OBVIOUS
<1>2. \A k \in 1 .. n : \E i \in 1 .. n : sorted[k] = es[i]
  <2> HIDE DEF sorted, n
  <2> QED
    BY <1>1, MadeAreRated, SortedIs DEF sorted
<1>3. L!BatchFuse(es, v) = [all[n] EXCEPT !.iv = L!Clamped(v, @)]
  BY DEF L!BatchFuse
<1> HIDE DEF sorted, n, F
<1>4. first \in F
  <2> 1 \in 1 .. n
    BY <1>1
  <2>1. PICK i \in 1 .. n : sorted[1] = es[i]
    BY <1>2, Zenon
  <2>2. L!Within(es[i].iv, L!Reach(es)) /\ L!Within(L!Common(es), es[i].iv)
    BY <1>1, <2>1, ReachAndCommon DEF n
  <2>3. es[i].iv \in Ivs
    BY <1>1, <2>1 DEF MadeOf
  <2> QED
    BY <2>1, <2>2, <2>3 DEF F, FusedSoFar
<1>5. \A a \in F, k \in 1 .. n : L!Joined(a, sorted[k]) \in F
  <2> TAKE a \in F, k \in 1 .. n
  <2>1. PICK i \in 1 .. n : sorted[k] = es[i]
    BY <1>2
  <2> QED
    BY <1>1, <2>1, JoinedStays DEF F, n
<1>6. f \in [1 .. (n - 1) -> [F -> F]]
  <2>1. \A i \in 1 .. (n - 1) : i + 1 \in 1 .. n
    BY <1>1
  <2> QED
    BY <1>5, <2>1
<1>t. PICK g : Trace(g, F, first, n - 1, f)
  <2>1. n - 1 \in Nat
    BY <1>1
  <2> HIDE DEF f, first
  <2> QED
    BY <1>4, <1>6, <2>1, StepsExist, Zenon
<1>7. g \in [0 .. (n - 1) -> F] /\ g[0] = first /\ \A i \in 1 .. (n - 1) : g[i] = f[i][g[i - 1]]
  <2> HIDE DEF f, first
  <2> QED
    BY <1>t DEF Trace
<1> DEFINE h == [k \in DOMAIN es |-> g[k - 1]]
<1> HIDE DEF first
<1>8. G(h)
  <2>1. ASSUME NEW k \in 1 .. n, k # 1 PROVE h[k] = L!Joined(h[k - 1], sorted[k])
    <3>1. k - 1 \in 1 .. (n - 1) /\ k - 1 \in 1 .. n /\ (k - 1) - 1 \in 0 .. (n - 1) /\ (k - 1) + 1 = k
      BY <1>1, <2>1
    <3>2. g[k - 1] = f[k - 1][g[(k - 1) - 1]] /\ g[(k - 1) - 1] \in F
      BY <1>7, <3>1
    <3>3. g[k - 1] = L!Joined(g[(k - 1) - 1], sorted[k])
      BY <3>1, <3>2
    <3> QED
      BY <1>1, <3>1, <3>3
  <2>2. h[1] = first
    BY <1>1, <1>7
  <2> HIDE DEF f
  <2>3. \A k \in DOMAIN es : h[k] = IF k = 1 THEN first ELSE L!Joined(h[k - 1], sorted[k])
    <3> HIDE DEF h
    <3> QED
      BY <1>1, <2>1, <2>2
  <2>4. h = [k \in DOMAIN es |-> h[k]]
    OBVIOUS
  <2> HIDE DEF h
  <2> QED
    BY <2>3, <2>4
<1> HIDE DEF h, f
<1>9. G(all)
  <2> HIDE DEF G
  <2> QED
    BY <1>8
<1> DEFINE Promised == {k \in Nat : k + 1 <= n => all[k + 1] \in F}
<1>10. \A k \in 1 .. n : all[k] = IF k = 1 THEN first ELSE L!Joined(all[k - 1], sorted[k])
  <2> HIDE DEF all
  <2> QED
    BY <1>1, <1>9
<1> HIDE DEF all, G
<1>11. 0 \in Promised
  BY <1>1, <1>4, <1>10
<1>12. ASSUME NEW k \in Nat, k \in Promised PROVE k + 1 \in Promised
  <2>1. SUFFICES ASSUME k + 1 + 1 <= n PROVE all[k + 1 + 1] \in F
    OBVIOUS
  <2>2. k + 1 + 1 \in 1 .. n /\ k + 1 + 1 # 1 /\ (k + 1 + 1) - 1 = k + 1 /\ k + 1 <= n
    BY <1>1, <2>1
  <2>3. all[k + 1] \in F
    BY <1>12, <2>2
  <2>4. all[k + 1 + 1] = L!Joined(all[k + 1], sorted[k + 1 + 1])
    BY <1>10, <2>2
  <2> QED
    BY <1>5, <2>2, <2>3, <2>4
<1>13. all[n] \in F
  <2>1. Nat \subseteq Promised
    <3> HIDE DEF Promised
    <3> QED
      BY <1>11, <1>12, CountingUp
  <2>2. n - 1 \in Nat /\ (n - 1) + 1 = n
    BY <1>1
  <2>3. n - 1 \in Promised
    <3> HIDE DEF Promised
    <3> QED
      BY <2>1, <2>2
  <2> QED
    BY <1>1, <2>2, <2>3
<1>14. PICK a \in F : a = all[n]
  BY <1>13
<1>15. a \in [iv : Ivs, conflicts : SUBSET Nat]
  BY DEF F, FusedSoFar
<1>16. [a EXCEPT !.iv = L!Clamped(v, @)] = [iv |-> L!Clamped(v, a.iv), conflicts |-> a.conflicts]
  BY <1>15
<1>17. L!BatchFuse(es, v) = [iv |-> L!Clamped(v, a.iv), conflicts |-> a.conflicts]
  BY <1>3, <1>14, <1>16
<1> QED
  BY <1>14, <1>17 DEF F

\* The range t is a, clamped to b.
IsClamped(t, a, b) ==
    LET p == IF a.lo >= b.lo THEN a.lo ELSE b.lo
        q == IF a.hi <= b.hi THEN a.hi ELSE b.hi
    IN  t \in Ivs /\ t.hi = q /\ t.lo = IF p > q THEN q ELSE p

\* Clamping leaves what lies within the bounds alone, and brings all into them but what lies
\* wholly below.
LEMMA ClampIs ==
    ASSUME NEW a \in Ivs, NEW b \in Ivs
    PROVE  IsClamped(L!Clamp(a, b.lo, b.hi), a, b)
<1>1. a.lo \in Int /\ a.hi \in Int /\ b.lo \in Int /\ b.hi \in Int
  BY DEF Ivs, L!Interval
<1>2. PICK p, q : p = L!Max({a.lo, b.lo}) /\ q = L!Min({a.hi, b.hi})
  OBVIOUS
<1>3. p = IF a.lo >= b.lo THEN a.lo ELSE b.lo
  BY <1>1, <1>2, OfTwo
<1>4. q = IF a.hi <= b.hi THEN a.hi ELSE b.hi
  BY <1>1, <1>2, OfTwo
<1>5. p \in Int /\ q \in Int
  BY <1>1, <1>3, <1>4
<1>6. L!Clamp(a, b.lo, b.hi) = [lo |-> IF p > q THEN q ELSE p, hi |-> q]
  BY <1>2 DEF L!Clamp, L!Iv
<1>7. L!Clamp(a, b.lo, b.hi) \in Ivs
  BY <1>5, <1>6 DEF Ivs, L!Interval
<1> QED
  BY <1>3, <1>4, <1>6, <1>7 DEF IsClamped

\* The bounds of v, if it has some.
LEMMA BoundsOf ==
    ASSUME L!EstimationAssumption, NEW v \in Variable
    PROVE  /\ L!Bounded(v) => Bounds[v] \in Ivs
           /\ \A a : ~ L!Bounded(v) => L!Clamped(v, a) = a
           /\ \A a : L!Bounded(v) => L!Clamped(v, a) = L!Clamp(a, Bounds[v].lo, Bounds[v].hi)
           /\ \A a \in Ivs : L!Clamped(v, a) \in Ivs
<1>1. L!Bounded(v) => Bounds[v] \in Ivs
  BY DEF L!Bounded, L!EstimationAssumption, Ivs
<1>2. \A a : ~ L!Bounded(v) => L!Clamped(v, a) = a
  BY DEF L!Clamped
<1>3. \A a : L!Bounded(v) => L!Clamped(v, a) = L!Clamp(a, Bounds[v].lo, Bounds[v].hi)
  BY DEF L!Clamped
<1>4. ASSUME NEW a \in Ivs PROVE L!Clamped(v, a) \in Ivs
  <2>1. CASE ~ L!Bounded(v)
    BY <1>2, <2>1
  <2>2. CASE L!Bounded(v)
    <3>1. PICK b \in Ivs : b = Bounds[v]
      BY <1>1, <2>2
    <3>2. IsClamped(L!Clamp(a, b.lo, b.hi), a, b)
      BY ClampIs
    <3> QED
      BY <1>3, <2>2, <3>1, <3>2 DEF IsClamped
  <2> QED
    BY <2>1, <2>2
<1> QED
  BY <1>1, <1>2, <1>3, <1>4

\* A fused range claims nothing that no estimate reaches, as long as all are within the bounds.
LEMMA FusedReaches ==
    ASSUME L!EstimationAssumption, NEW v \in Variable, NEW es \in Seq(MadeOf(v)), Len(es) >= 1,
           L!InBounds(v, L!Reach(es)), NEW a \in FusedSoFar(es)
    PROVE  L!Clamped(v, a.iv) = a.iv /\ L!Within(a.iv, L!Reach(es)) /\ L!InBounds(v, a.iv)
<1>1. a.iv \in Ivs /\ L!Within(a.iv, L!Reach(es))
  BY DEF FusedSoFar
<1>2. CASE ~ L!Bounded(v)
  BY <1>1, <1>2, BoundsOf DEF L!InBounds
<1>3. CASE L!Bounded(v)
  <2>1. PICK b \in Ivs : b = Bounds[v]
    BY <1>3, BoundsOf
  <2>2. PICK R : R = L!Reach(es)
    OBVIOUS
  <2>3. R \in [lo : Int, hi : Int] /\ L!Within(R, b) /\ L!Within(a.iv, R)
    BY <1>1, <1>3, <2>1, <2>2, ReachAndCommon DEF L!InBounds
  <2>4. /\ a.iv.lo \in Int /\ a.iv.hi \in Int /\ a.iv.lo <= a.iv.hi /\ b.lo <= a.iv.lo /\ a.iv.hi <= b.hi
        /\ b.lo \in Int /\ b.hi \in Int
    BY <1>1, <2>3 DEF Ivs, L!Interval, L!Within
  <2>5. PICK t : t = L!Clamp(a.iv, b.lo, b.hi)
    OBVIOUS
  <2>6. IsClamped(t, a.iv, b)
    BY <1>1, <2>5, ClampIs
  <2>7. t \in Ivs /\ t.lo = a.iv.lo /\ t.hi = a.iv.hi
    BY <2>4, <2>6 DEF IsClamped
  <2>8. t = a.iv
    BY <1>1, <2>7 DEF Ivs, L!Interval
  <2>9. L!Clamped(v, a.iv) = a.iv
    BY <1>3, <2>1, <2>5, <2>8, BoundsOf
  <2>10. L!InBounds(v, a.iv)
    BY <2>1, <2>4 DEF L!InBounds, L!Within
  <2> QED
    BY <1>1, <2>9, <2>10
<1> QED
  BY <1>2, <1>3

\* Estimates that were not given wholly below the bounds lie within them, and so does what they
\* reach.
LEMMA ReachIsBounded ==
    ASSUME L!EstimationAssumption, NEW v \in Variable, NEW es \in Seq(MadeOf(v)), Len(es) >= 1,
           \A i \in DOMAIN es : L!Bounded(v) => es[i].given.hi >= Bounds[v].lo
    PROVE  L!InBounds(v, L!Reach(es))
<1>1. SUFFICES ASSUME L!Bounded(v) PROVE L!Within(L!Reach(es), Bounds[v])
  BY DEF L!InBounds
<1>2. PICK b \in Ivs : b = Bounds[v]
  BY <1>1, BoundsOf
<1>3. ASSUME NEW i \in DOMAIN es PROVE L!Within(es[i].iv, b) /\ es[i].iv \in Ivs
  <2>1. PICK e \in MadeOf(v) : e = es[i]
    OBVIOUS
  <2>2. e.given \in Ivs /\ e.iv = L!Clamp(e.given, b.lo, b.hi)
    BY <1>1, <1>2, BoundsOf DEF MadeOf
  <2>3. /\ e.given.lo \in Int /\ e.given.hi \in Int /\ b.lo \in Int /\ b.hi \in Int /\ b.lo <= b.hi
        /\ e.given.hi >= b.lo
    BY <1>1, <1>2, <2>1, <2>2 DEF Ivs, L!Interval
  <2>4. IsClamped(e.iv, e.given, b)
    BY <2>2, ClampIs
  <2>5. e.iv \in Ivs /\ b.lo <= e.iv.lo /\ e.iv.hi <= b.hi
    BY <2>3, <2>4 DEF IsClamped
  <2> QED
    BY <2>1, <2>5 DEF L!Within
<1>4. PICK i \in DOMAIN es : L!Reach(es).lo = es[i].iv.lo
  BY ReachAndCommon
<1>5. PICK j \in DOMAIN es : L!Reach(es).hi = es[j].iv.hi
  BY ReachAndCommon
<1> QED
  BY <1>2, <1>3, <1>4, <1>5 DEF L!Within

\* What overlapping estimates agree on stays in the fused range when it is clamped.
LEMMA CommonIsKept ==
    ASSUME L!EstimationAssumption, NEW v \in Variable, NEW es \in Seq(MadeOf(v)), Len(es) >= 1,
           ~ L!Disjoint(es), NEW a \in FusedSoFar(es)
    PROVE  L!Within(L!Common(es), L!Clamped(v, a.iv))
<1>1. /\ a.iv \in Ivs /\ L!Within(a.iv, L!Reach(es)) /\ L!Within(L!Common(es), a.iv)
      /\ L!Common(es) \in Ivs
  BY CommonIsRange DEF FusedSoFar
<1>2. CASE ~ L!Bounded(v)
  BY <1>1, <1>2, BoundsOf
<1>3. CASE L!Bounded(v)
  <2>1. PICK b \in Ivs : b = Bounds[v]
    BY <1>3, BoundsOf
  <2>2. PICK C : C = L!Common(es)
    OBVIOUS
  <2>3. PICK t : t = L!Clamp(a.iv, b.lo, b.hi)
    OBVIOUS
  <2>4. IsClamped(t, a.iv, b)
    BY <1>1, <2>3, ClampIs
  <2>5. /\ a.iv.lo \in Int /\ a.iv.hi \in Int /\ b.lo \in Int /\ b.hi \in Int /\ b.lo <= b.hi
        /\ C.lo \in Int /\ C.hi \in Int /\ C.lo <= C.hi /\ a.iv.lo <= C.lo /\ C.hi <= a.iv.hi
    BY <1>1, <2>2 DEF Ivs, L!Interval, L!Within
  \* Every estimate is the range it was given, clamped.
  <2>6. ASSUME NEW i \in DOMAIN es
        PROVE  /\ es[i].iv.lo \in Int /\ es[i].iv.hi \in Int /\ es[i].iv.hi <= b.hi
               /\ es[i].iv.lo < b.lo => es[i].iv.lo = es[i].iv.hi
               /\ es[i].iv.lo <= C.lo /\ C.hi <= es[i].iv.hi
    <3>1. PICK e \in MadeOf(v) : e = es[i]
      OBVIOUS
    <3>2. e.given \in Ivs /\ e.iv = L!Clamp(e.given, b.lo, b.hi)
      BY <1>3, <2>1, BoundsOf DEF MadeOf
    <3>3. /\ e.given.lo \in Int /\ e.given.hi \in Int
      BY <3>2 DEF Ivs, L!Interval
    <3>4. IsClamped(e.iv, e.given, b)
      BY <3>2, ClampIs
    <3>5. e.iv.hi <= b.hi /\ (e.iv.lo < b.lo => e.iv.lo = e.iv.hi)
      BY <2>5, <3>3, <3>4 DEF IsClamped
    <3>6. L!Within(C, e.iv)
      BY <2>2, <3>1, ReachAndCommon
    <3>7. e.iv.lo \in Int /\ e.iv.hi \in Int
      BY <3>4 DEF IsClamped, Ivs, L!Interval
    <3> QED
      BY <3>1, <3>5, <3>6, <3>7 DEF L!Within
  <2>7. PICK m \in DOMAIN es : C.hi = es[m].iv.hi
    BY <2>2, ReachAndCommon
  <2>8. C.hi <= b.hi
    BY <2>6, <2>7
  <2>9. CASE b.lo <= C.lo
    BY <1>3, <2>1, <2>2, <2>3, <2>4, <2>5, <2>8, <2>9, BoundsOf DEF L!Within, IsClamped
  <2>10. CASE C.lo < b.lo
    <3>1. \A i \in DOMAIN es : es[i].iv.lo = C.lo /\ es[i].iv.hi = C.lo
      BY <2>5, <2>6, <2>10
    <3>2. PICK i \in DOMAIN es : L!Reach(es).lo = es[i].iv.lo
      BY ReachAndCommon
    <3>3. PICK j \in DOMAIN es : L!Reach(es).hi = es[j].iv.hi
      BY ReachAndCommon
    <3>4. a.iv.lo = C.lo /\ a.iv.hi = C.lo /\ C.hi = C.lo
      BY <1>1, <2>5, <2>7, <3>1, <3>2, <3>3 DEF L!Within
    <3>5. t.lo = C.lo /\ t.hi = C.lo
      BY <2>4, <2>5, <2>8, <2>10, <3>4 DEF IsClamped
    <3> QED
      BY <1>3, <2>1, <2>2, <2>3, <2>5, <3>4, <3>5, BoundsOf DEF L!Within
  <2> QED
    BY <2>5, <2>9, <2>10
<1> QED
  BY <1>2, <1>3

\* The fusion of a list of estimates does not depend on their order, unless two are equally
\* reliable.
LEMMA OrderIsFree ==
    ASSUME L!EstimationAssumption, NEW v, NEW es \in Seq(MadeOf(v)),
           \A i, j \in DOMAIN es : i # j => es[i].r # es[j].r
    PROVE  L!BatchFuse(L!Reverse(es), v) = L!BatchFuse(es, v)
<1>1. /\ L!ByReliability(L!Reverse(es)) = L!ByReliability(es)
      /\ DOMAIN L!Reverse(es) = DOMAIN es /\ Len(L!Reverse(es)) = Len(es)
  BY MadeAreRated, SortedFromTheEnd
<1> QED
  BY <1>1 DEF L!BatchFuse

-----------------------------------------------------------------------------
(* The records of estimates *)

\* What may be known of v: its estimates, and the fusion of them once there are two.
RecordOf(v) ==
    {rec \in [estimates : Seq(MadeOf(v)), version : Nat, fused : L!Fusion \union {Absent}] :
        /\ rec.version = Len(rec.estimates)
        /\ rec.fused = IF Len(rec.estimates) >= 2 THEN L!BatchFuse(rec.estimates, v) ELSE Absent}

AnyRecord == UNION {RecordOf(v) : v \in Variable}

EstimatesInv ==
    /\ made \in 0 .. MaxEstimates
    /\ memory \in [Variable -> AnyRecord \union {Absent}]
    /\ file \in [Project -> [Variable -> AnyRecord \union {Absent}]]
    /\ \A v \in Variable : memory[v] \in RecordOf(v) \union {Absent}
    /\ \A p \in Project, v \in Variable : file[p][v] \in RecordOf(v) \union {Absent}

\* A fusion is a range and the identifiers of some estimates.
LEMMA FusionIsRange ==
    ASSUME L!EstimationAssumption, NEW v \in Variable, NEW es \in Seq(MadeOf(v)), Len(es) >= 1
    PROVE  L!BatchFuse(es, v) \in L!Fusion /\ L!BatchFuse(es, v) # Absent
<1>1. PICK a \in FusedSoFar(es) : L!BatchFuse(es, v) = [iv |-> L!Clamped(v, a.iv), conflicts |-> a.conflicts]
  BY FusedAll
<1>2. a.iv \in Ivs /\ a.conflicts \in SUBSET Nat
  BY DEF FusedSoFar
<1>3. L!Clamped(v, a.iv) \in Ivs
  BY <1>2, BoundsOf
<1>4. L!BatchFuse(es, v) \in L!Fusion
  BY <1>1, <1>2, <1>3 DEF L!Fusion, Ivs
<1> QED
  BY <1>4 DEF L!EstimationAssumption

\* One more estimate makes a record of a record.
LEMMA RecordGrows ==
    ASSUME L!EstimationAssumption, NEW v \in Variable, NEW rec \in RecordOf(v), NEW e \in MadeOf(v)
    PROVE  LET es == Append(rec.estimates, e)
           IN  [estimates |-> es, version |-> rec.version + 1,
                fused |-> IF Len(es) >= 2 THEN L!BatchFuse(es, v) ELSE rec.fused] \in RecordOf(v)
<1>1. PICK old \in Seq(MadeOf(v)) : old = rec.estimates
  BY DEF RecordOf
<1>2. PICK es : es = Append(old, e)
  OBVIOUS
<1>3. es \in Seq(MadeOf(v)) /\ Len(es) = Len(old) + 1 /\ Len(old) \in Nat
  BY <1>2
<1>4. rec.version = Len(old) /\ rec.fused = IF Len(old) >= 2 THEN L!BatchFuse(old, v) ELSE Absent
  BY <1>1 DEF RecordOf
<1>5. L!BatchFuse(es, v) \in L!Fusion
  BY <1>3, FusionIsRange
<1>6. PICK next : next = [estimates |-> es, version |-> rec.version + 1,
                          fused |-> IF Len(es) >= 2 THEN L!BatchFuse(es, v) ELSE rec.fused]
  OBVIOUS
<1>7. /\ next.estimates = es /\ next.version = Len(es)
      /\ next.fused = IF Len(es) >= 2 THEN L!BatchFuse(es, v) ELSE Absent
  BY <1>3, <1>4, <1>6
<1>8. next \in [estimates : Seq(MadeOf(v)), version : Nat, fused : L!Fusion \union {Absent}]
  BY <1>3, <1>5, <1>6, <1>7
<1>9. next \in RecordOf(v)
  BY <1>7, <1>8 DEF RecordOf
<1> QED
  BY <1>1, <1>2, <1>6, <1>9

\* An estimate of a range, as it is made.
LEMMA NewEstimate ==
    ASSUME L!EstimationAssumption, NEW v \in Variable, NEW iv \in Ivs, NEW r \in 0 .. Unit,
           made \in 0 .. MaxEstimates, made < MaxEstimates
    PROVE  [id |-> made + 1, iv |-> L!Clamped(v, iv), r |-> r, given |-> iv] \in MadeOf(v)
<1>1. made + 1 \in 1 .. MaxEstimates
  BY DEF L!EstimationAssumption
<1>2. L!Clamped(v, iv) \in Ivs
  BY BoundsOf
<1> QED
  BY <1>1, <1>2 DEF MadeOf

LEMMA KnownIsRecord ==
    ASSUME EstimatesInv, NEW v \in Variable
    PROVE  L!Known(v) \in RecordOf(v)
<1>1. [estimates |-> <<>>, fused |-> Absent, version |-> 0] \in RecordOf(v)
  BY DEF RecordOf
<1> QED
  BY <1>1 DEF EstimatesInv, L!Known

LEMMA BeliefIsRange ==
    ASSUME L!EstimationAssumption, NEW x \in Int, NEW c \in 0 .. Unit
    PROVE  L!BeliefRange(x, c) \in Ivs
<1>1. PICK half : half = IF x = 0 THEN One ELSE ((IF x < 0 THEN -x ELSE x) * (Unit - c)) \div (2 * Unit)
  OBVIOUS
<1>2. half \in Int
  <2>1. One \in Int /\ Unit \in Nat /\ 2 * Unit \in Nat \ {0}
    BY DEF L!EstimationAssumption
  <2>2. PICK y \in Int : y = (IF x < 0 THEN -x ELSE x) * (Unit - c)
    BY <2>1
  <2> QED
    BY <1>1, <2>1, <2>2
<1>3. L!BeliefRange(x, c) = L!Iv(x - half, x + half)
  BY <1>1 DEF L!BeliefRange, L!Around
<1> QED
  BY <1>2, <1>3 DEF L!Iv, Ivs, L!Interval

\* The memory of v and the file of a project are replaced by one record.
LEMMA Replaced ==
    ASSUME EstimatesInv, NEW p \in Project, NEW v \in Variable, NEW rec \in RecordOf(v) \union {Absent},
           memory' = [memory EXCEPT ![v] = rec],
           file' = file \/ file' = [file EXCEPT ![p][v] = memory'[v]],
           made' \in 0 .. MaxEstimates
    PROVE  EstimatesInv'
<1> DEFINE Values == AnyRecord \union {Absent}
<1>1. rec \in Values
  BY DEF AnyRecord
<1>2. memory \in [Variable -> Values] /\ file \in [Project -> [Variable -> Values]]
  BY DEF EstimatesInv
<1> HIDE DEF Values
<1>3. memory' \in [Variable -> Values] /\ memory'[v] = rec /\ \A u \in Variable : u # v => memory'[u] = memory[u]
  BY <1>1, <1>2
<1>4. file' \in [Project -> [Variable -> Values]]
  BY <1>1, <1>2, <1>3
<1>5. \A q \in Project, u \in Variable : file'[q][u] = file[q][u] \/ (u = v /\ file'[q][u] = rec)
  BY <1>2, <1>3
<1>6. \A u \in Variable : memory'[u] \in RecordOf(u) \union {Absent}
  BY <1>3 DEF EstimatesInv
<1>7. \A q \in Project, u \in Variable : file'[q][u] \in RecordOf(u) \union {Absent}
  BY <1>5 DEF EstimatesInv
<1> QED
  BY <1>3, <1>4, <1>6, <1>7 DEF EstimatesInv, Values

LEMMA CreateKeeps ==
    ASSUME L!EstimationAssumption, EstimatesInv, NEW p \in Project, NEW v \in Variable,
           NEW iv \in Ivs, NEW r \in 0 .. Unit, L!CreateEstimate(p, v, iv, r)
    PROVE  EstimatesInv'
<1>1. made \in 0 .. MaxEstimates /\ made < MaxEstimates /\ made' = made + 1 /\ MaxEstimates \in Nat
  BY DEF EstimatesInv, L!CreateEstimate, L!EstimationAssumption
<1>2. PICK e \in MadeOf(v) : e = [id |-> made + 1, iv |-> L!Clamped(v, iv), r |-> r, given |-> iv]
  BY <1>1, NewEstimate
<1>3. PICK rec \in RecordOf(v) : rec = L!Known(v)
  BY KnownIsRecord
<1>4. L!WithEstimate(v, iv, r) \in RecordOf(v)
  BY <1>2, <1>3, RecordGrows DEF L!WithEstimate
<1>5. /\ memory' = [memory EXCEPT ![v] = L!WithEstimate(v, iv, r)]
      /\ file' = [file EXCEPT ![p][v] = memory'[v]]
  BY DEF L!CreateEstimate
<1>6. made' \in 0 .. MaxEstimates
  BY <1>1
<1> QED
  BY <1>4, <1>5, <1>6, Replaced

LEMMA EstimatesBegin ==
    ASSUME L!EstimationAssumption, L!Init
    PROVE  EstimatesInv
BY DEF L!Init, EstimatesInv, L!EstimationAssumption

LEMMA RestartKeeps ==
    ASSUME EstimatesInv, L!Restart
    PROVE  EstimatesInv'
BY DEF L!Restart, EstimatesInv

LEMMA GetKeeps ==
    ASSUME EstimatesInv, NEW p \in Project, NEW v \in Variable, L!GetEstimate(p, v)
    PROVE  EstimatesInv'
<1>1. /\ memory' = [memory EXCEPT ![v] = file[p][v]] /\ file' = file /\ made' = made
      /\ file[p][v] \in RecordOf(v) \union {Absent} /\ made \in 0 .. MaxEstimates
  BY DEF L!GetEstimate, EstimatesInv
<1> QED
  BY <1>1, Replaced

\* The steps of the estimates alone.
LEMMA EstimatesStep ==
    ASSUME L!EstimationAssumption, EstimatesInv, [L!Next]_(L!vars)
    PROVE  EstimatesInv'
<1>1. CASE UNCHANGED L!vars
  BY <1>1 DEF L!vars, EstimatesInv
<1>2. ASSUME NEW p \in Project, NEW v \in Variable, NEW iv \in Given, NEW r \in Reliability,
             L!CreateEstimate(p, v, iv, r)
      PROVE  EstimatesInv'
  <2>1. iv \in Ivs /\ r \in 0 .. Unit
    BY DEF L!EstimationAssumption, Ivs
  <2> QED
    BY <1>2, <2>1, CreateKeeps
<1>3. ASSUME NEW p \in Project, NEW v \in Variable, NEW x \in Guess, NEW c \in Reliability, L!SetPrior(p, v, x, c)
      PROVE  EstimatesInv'
  <2>1. x \in Int /\ c \in 0 .. Unit
    BY DEF L!EstimationAssumption
  <2>2. L!BeliefRange(x, c) \in Ivs
    BY <2>1, BeliefIsRange
  <2>3. L!CreateEstimate(p, v, L!BeliefRange(x, c), c)
    BY <1>3 DEF L!SetPrior
  <2> QED
    BY <2>1, <2>2, <2>3, CreateKeeps
<1>4. ASSUME NEW p \in Project, NEW v \in Variable, L!GetEstimate(p, v) PROVE EstimatesInv'
  BY <1>4, GetKeeps
<1>5. CASE L!Restart
  BY <1>5, RestartKeeps
<1> QED
  BY <1>1, <1>2, <1>3, <1>4, <1>5 DEF L!Next

-----------------------------------------------------------------------------
(* The fusions are sound *)

\* What a fused range says of its estimates, of any list of them.
LEMMA FusionOfAny ==
    ASSUME L!EstimationAssumption, NEW v \in Variable, NEW es \in Seq(MadeOf(v)), Len(es) >= 1,
           NEW fused, fused = L!BatchFuse(es, v)
    PROVE  /\ L!InBounds(v, L!Reach(es)) => L!Within(fused.iv, L!Reach(es))
           /\ ~ L!Disjoint(es) => L!Within(L!Common(es), fused.iv) /\ fused.conflicts = {}
           /\ (\A i \in DOMAIN es : L!Bounded(v) => es[i].given.hi >= Bounds[v].lo)
                => L!InBounds(v, fused.iv)
           /\ (\A i, j \in DOMAIN es : i # j => es[i].r # es[j].r)
                => L!BatchFuse(L!Reverse(es), v) = fused
<1>1. PICK a \in FusedSoFar(es) : fused = [iv |-> L!Clamped(v, a.iv), conflicts |-> a.conflicts]
  BY FusedAll
<1>2. fused.iv = L!Clamped(v, a.iv) /\ fused.conflicts = a.conflicts
  BY <1>1
<1>3. ASSUME L!InBounds(v, L!Reach(es)) PROVE L!Within(fused.iv, L!Reach(es)) /\ L!InBounds(v, fused.iv)
  BY <1>2, <1>3, FusedReaches
<1>4. ASSUME ~ L!Disjoint(es) PROVE L!Within(L!Common(es), fused.iv) /\ fused.conflicts = {}
  <2>1. a.conflicts = {}
    BY <1>4 DEF FusedSoFar
  <2> QED
    BY <1>2, <1>4, <2>1, CommonIsKept
<1>5. ASSUME \A i \in DOMAIN es : L!Bounded(v) => es[i].given.hi >= Bounds[v].lo
      PROVE  L!InBounds(v, fused.iv)
  <2>1. L!InBounds(v, L!Reach(es))
    BY <1>5, ReachIsBounded
  <2> QED
    BY <1>3, <2>1
<1>6. ASSUME \A i, j \in DOMAIN es : i # j => es[i].r # es[j].r
      PROVE  L!BatchFuse(L!Reverse(es), v) = fused
  BY <1>6, OrderIsFree
<1> QED
  BY <1>3, <1>4, <1>5, <1>6

LEMMA InvFusesSoundly ==
    ASSUME L!EstimationAssumption, EstimatesInv
    PROVE  L!FusionIsSound
<1> SUFFICES ASSUME NEW v \in Variable, NEW rec, rec = memory[v], NEW es, es = L!EstimatesOf(rec), Len(es) >= 2
             PROVE  /\ rec.fused = L!BatchFuse(es, v)
                    /\ L!InBounds(v, L!Reach(es)) => L!Within(rec.fused.iv, L!Reach(es))
                    /\ ~ L!Disjoint(es) => L!Within(L!Common(es), rec.fused.iv) /\ rec.fused.conflicts = {}
                    /\ (\A i \in DOMAIN es : L!Bounded(v) => es[i].given.hi >= Bounds[v].lo)
                        => L!InBounds(v, rec.fused.iv)
                    /\ (\A i, j \in DOMAIN es : i # j => es[i].r # es[j].r)
                        => L!BatchFuse(L!Reverse(es), v) = rec.fused
  BY DEF L!FusionIsSound
<1>1. rec # Absent
  BY DEF L!EstimatesOf
<1>2. rec \in RecordOf(v) /\ es = rec.estimates
  BY <1>1 DEF EstimatesInv, L!EstimatesOf
<1>3. es \in Seq(MadeOf(v)) /\ rec.fused = L!BatchFuse(es, v) /\ Len(es) >= 1
  BY <1>2 DEF RecordOf
<1> QED
  BY <1>3, FusionOfAny

LEMMA InvIsTyped ==
    ASSUME L!EstimationAssumption, EstimatesInv
    PROVE  L!TypeOK
<1>1. ASSUME NEW rec \in L!Records \ {Absent}
      PROVE  /\ rec.estimates \in Seq(L!Estimate)
             /\ rec.version = Len(rec.estimates)
             /\ (rec.fused # Absent) <=> (Len(rec.estimates) >= 2)
  <2>1. PICK v \in Variable : rec \in RecordOf(v)
    BY DEF L!Records, EstimatesInv
  <2>2. MadeOf(v) \subseteq L!Estimate
    BY DEF MadeOf, L!Estimate, Ivs, L!Interval
  <2>3. rec.estimates \in Seq(MadeOf(v))
    BY <2>1 DEF RecordOf
  <2>4. rec.estimates \in Seq(L!Estimate)
    BY <2>2, <2>3
  <2>5. CASE Len(rec.estimates) >= 2
    <3>1. L!BatchFuse(rec.estimates, v) # Absent
      BY <2>3, <2>5, FusionIsRange
    <3> QED
      BY <2>1, <2>4, <2>5, <3>1 DEF RecordOf
  <2>6. CASE ~ (Len(rec.estimates) >= 2)
    BY <2>1, <2>4, <2>6 DEF RecordOf
  <2> QED
    BY <2>5, <2>6
<1> QED
  BY <1>1 DEF L!TypeOK, EstimatesInv

LEMMA RecordIsSomething ==
    ASSUME L!EstimationAssumption, NEW v, NEW rec \in RecordOf(v)
    PROVE  rec # Absent
<1>1. MadeOf(v) \subseteq L!Estimate
  BY DEF MadeOf, L!Estimate, Ivs, L!Interval
<1>2. rec \in [estimates : Seq(MadeOf(v)), version : Nat, fused : L!Fusion \union {Absent}]
  BY DEF RecordOf
<1>3. rec.estimates \in Seq(L!Estimate)
  <2>1. rec.estimates \in Seq(MadeOf(v))
    BY <1>2
  <2> QED
    BY <1>1, <2>1
<1>4. rec \in [estimates : Seq(L!Estimate), version : Nat, fused : L!Fusion \union {Absent}]
  BY <1>2, <1>3
<1> QED
  BY <1>4 DEF L!EstimationAssumption

\* One more estimate leaves out none of those there were.
LEMMA IdsGrow ==
    ASSUME NEW E, NEW es \in Seq(E), NEW e
    PROVE  L!Ids(es) \subseteq L!Ids(Append(es, e))
BY DEF L!Ids

\* A file that is written anew has what the record in memory had; the file itself was read when
\* nothing was in memory and it was looked at.
LEMMA WrittenKeepsMemory ==
    ASSUME L!EstimationAssumption, EstimatesInv, NEW p \in Project, NEW v \in Variable,
           NEW E, NEW base \in Seq(E), NEW e,
           base = L!EstimatesOf(memory[v]) \/ base = L!EstimatesOf(file[p][v]),
           NEW rec \in RecordOf(v), rec.estimates = Append(base, e),
           file' = [file EXCEPT ![p][v] = rec],
           NEW q \in Project, NEW u \in Variable,
           ~ (L!Ids(L!EstimatesOf(file[q][u])) \subseteq L!Ids(L!EstimatesOf(file'[q][u])))
    PROVE  ~ (L!Ids(L!EstimatesOf(file[q][u])) \subseteq L!Ids(L!EstimatesOf(memory[u])))
<1>1. file \in [Project -> [Variable -> AnyRecord \union {Absent}]]
  BY DEF EstimatesInv
<1>2. q = p /\ u = v /\ file'[p][v] = rec
  <2>1. CASE ~ (q = p /\ u = v)
    <3>1. file'[q][u] = file[q][u]
      BY <1>1, <2>1
    <3> QED
      BY <3>1
  <2>2. file'[p][v] = rec
    BY <1>1
  <2> QED
    BY <2>1, <2>2
<1>3. L!EstimatesOf(file'[p][v]) = Append(base, e)
  BY <1>2, RecordIsSomething DEF L!EstimatesOf
<1>4. L!Ids(base) \subseteq L!Ids(L!EstimatesOf(file'[p][v]))
  BY <1>3, IdsGrow
<1>5. base = L!EstimatesOf(memory[v])
  BY <1>2, <1>4
<1> QED
  BY <1>2, <1>4, <1>5

\* What a created estimate is appended to.
LEMMA CreatedRecord ==
    ASSUME L!EstimationAssumption, EstimatesInv, NEW p \in Project, NEW v \in Variable,
           NEW iv \in Ivs, NEW r \in 0 .. Unit, L!CreateEstimate(p, v, iv, r)
    PROVE  \E base \in Seq(MadeOf(v)), e \in MadeOf(v), rec \in RecordOf(v) :
                /\ base = L!EstimatesOf(memory[v])
                /\ rec.estimates = Append(base, e)
                /\ file' = [file EXCEPT ![p][v] = rec]
<1>1. made \in 0 .. MaxEstimates /\ made < MaxEstimates
  BY DEF EstimatesInv, L!CreateEstimate
<1>2. PICK e \in MadeOf(v) : e = [id |-> made + 1, iv |-> L!Clamped(v, iv), r |-> r, given |-> iv]
  BY <1>1, NewEstimate
<1>3. PICK known \in RecordOf(v) : known = L!Known(v)
  BY KnownIsRecord
<1>4. PICK rec \in RecordOf(v) : rec = L!WithEstimate(v, iv, r)
  BY <1>2, <1>3, RecordGrows DEF L!WithEstimate
<1>5. PICK base \in Seq(MadeOf(v)) : base = known.estimates
  BY DEF RecordOf
<1>6. rec.estimates = Append(base, e)
  BY <1>2, <1>3, <1>4, <1>5 DEF L!WithEstimate
<1>7. base = L!EstimatesOf(memory[v])
  BY <1>3, <1>5 DEF L!Known, L!EstimatesOf
<1>8. memory \in [Variable -> AnyRecord \union {Absent}]
  BY DEF EstimatesInv
<1>9. memory'[v] = rec
  BY <1>4, <1>8 DEF L!CreateEstimate
<1>10. file' = [file EXCEPT ![p][v] = rec]
  BY <1>9 DEF L!CreateEstimate
<1> QED
  BY <1>6, <1>7, <1>10

BlindOnly ==
    \A p \in Project, v \in Variable :
        ~ (L!Ids(L!EstimatesOf(file[p][v])) \subseteq L!Ids(L!EstimatesOf(file'[p][v])))
            => ~ (L!Ids(L!EstimatesOf(file[p][v])) \subseteq L!Ids(L!EstimatesOf(memory[v])))

LEMMA CreateForgetsBlindly ==
    ASSUME L!EstimationAssumption, EstimatesInv, NEW p \in Project, NEW v \in Variable,
           NEW iv \in Ivs, NEW r \in 0 .. Unit, L!CreateEstimate(p, v, iv, r)
    PROVE  BlindOnly
<1>1. PICK base \in Seq(MadeOf(v)), e \in MadeOf(v), rec \in RecordOf(v) :
            /\ base = L!EstimatesOf(memory[v])
            /\ rec.estimates = Append(base, e)
            /\ file' = [file EXCEPT ![p][v] = rec]
  BY CreatedRecord
<1> QED
  BY <1>1, WrittenKeepsMemory DEF BlindOnly

LEMMA UnwrittenForgetsNothing ==
    ASSUME file' = file
    PROVE  BlindOnly
BY DEF BlindOnly

\* Each step of the estimates alone.
LEMMA EstimatesForgetBlindly ==
    ASSUME L!EstimationAssumption, EstimatesInv, [L!Next]_(L!vars)
    PROVE  BlindOnly
<1>1. ASSUME NEW p \in Project, NEW v \in Variable, NEW iv \in Given, NEW r \in Reliability,
             L!CreateEstimate(p, v, iv, r)
      PROVE  BlindOnly
  <2>1. iv \in Ivs /\ r \in 0 .. Unit
    BY DEF L!EstimationAssumption, Ivs
  <2> QED
    BY <1>1, <2>1, CreateForgetsBlindly
<1>2. ASSUME NEW p \in Project, NEW v \in Variable, NEW x \in Guess, NEW c \in Reliability, L!SetPrior(p, v, x, c)
      PROVE  BlindOnly
  <2>1. x \in Int /\ c \in 0 .. Unit
    BY DEF L!EstimationAssumption
  <2>2. L!BeliefRange(x, c) \in Ivs
    BY <2>1, BeliefIsRange
  <2>3. L!CreateEstimate(p, v, L!BeliefRange(x, c), c)
    BY <1>2 DEF L!SetPrior
  <2> QED
    BY <2>1, <2>2, <2>3, CreateForgetsBlindly
<1>3. ASSUME NEW p \in Project, NEW v \in Variable, L!GetEstimate(p, v) PROVE BlindOnly
  BY <1>3, UnwrittenForgetsNothing DEF L!GetEstimate
<1>4. CASE L!Restart \/ UNCHANGED L!vars
  BY <1>4, UnwrittenForgetsNothing DEF L!Restart, L!vars
<1> QED
  BY <1>1, <1>2, <1>3, <1>4 DEF L!Next

LEMMA EstimatesAlways ==
    ASSUME L!EstimationAssumption
    PROVE  L!Spec => []EstimatesInv
<1>1. L!Init => EstimatesInv
  BY EstimatesBegin
<1>2. EstimatesInv /\ [L!Next]_(L!vars) => EstimatesInv'
  BY EstimatesStep
<1> QED
  BY <1>1, <1>2, PTL DEF L!Spec

-----------------------------------------------------------------------------
(* Counting outcomes *)

\* The outcome o comes before u when they are sorted by value.
Lower(a, b) == a.actual < b.actual \/ (a.actual = b.actual /\ a.id < b.id)

\* Outcomes that are numbered, each number once.
Numbered(S) ==
    /\ IsFiniteSet(S)
    /\ \A o \in S : o.actual \in Int /\ o.id \in Int
    /\ \A o, u \in S : o.id = u.id => o = u

LEMMA NthIsThere ==
    ASSUME NEW S, Numbered(S), NEW k \in Nat, k < Cardinality(S)
    PROVE  L!Nth(S, k) \in S
<1> DEFINE R == {p \in S \X S : Lower(p[1], p[2])}
           Place(o) == L!Cardinality({u \in S : Lower(u, o)})
<1>1. \A a, b \in S : <<a, b>> \in R <=> Lower(a, b)
  OBVIOUS
<1>2. StrictTotal(S, R)
  <2> HIDE DEF R
  <2>1. \A a \in S : a.actual \in Int /\ a.id \in Int
    BY DEF Numbered
  <2>2. \A a, b \in S : a # b => a.id # b.id
    BY DEF Numbered
  <2> QED
    BY <1>1, <2>1, <2>2 DEF StrictTotal, Lower
<1>3. IsFiniteSet(S)
  BY DEF Numbered
<1>4. \A o \in S : Place(o) = Cardinality(Below(S, R, o))
  <2> TAKE o \in S
  <2>1. {u \in S : Lower(u, o)} = Below(S, R, o)
    <3> HIDE DEF R
    <3> QED
      BY <1>1 DEF Below
  <2> HIDE DEF R
  <2> QED
    BY <2>1, EstimatesCount
<1> HIDE DEF R
<1>5. PICK o \in S : Cardinality(Below(S, R, o)) = k
  BY <1>2, <1>3, PlacesFill
<1>6. L!Nth(S, k) = CHOOSE u \in S : Place(u) = k
  BY DEF L!Nth, Lower
<1> HIDE DEF Place
<1>7. Place(o) = k
  BY <1>4, <1>5
<1> QED
  BY <1>6, <1>7

\* What is suggested of a metric are two of the values observed of it.
LEMMA SuggestedIs ==
    ASSUME L!LearningAssumption, NEW S, Numbered(S), L!Suggested(S) # Absent
    PROVE  /\ L!Suggested(S) \in Ivs
           /\ {L!Suggested(S).lo, L!Suggested(S).hi} \subseteq {o.actual : o \in S}
<1>1. PICK n : n = Cardinality(S)
  OBVIOUS
<1>2. n \in Nat /\ L!Cardinality(S) = n
  BY <1>1, EstimatesCount, FS_CardinalityType DEF Numbered
<1>3. ~ (n < EnoughCases)
  BY <1>2 DEF L!Suggested
<1>4. L!Suggested(S) = L!Iv(L!Nth(S, n \div 10).actual, L!Nth(S, (9 * n) \div 10).actual)
  BY <1>2, <1>3 DEF L!Suggested
<1>5. n >= 1
  BY <1>2, <1>3 DEF L!LearningAssumption
<1>6. n \div 10 \in Nat /\ n \div 10 < n /\ (9 * n) \div 10 \in Nat /\ (9 * n) \div 10 < n
  BY <1>2, <1>5
<1>7. PICK a \in S : a = L!Nth(S, n \div 10)
  BY <1>1, <1>6, NthIsThere
<1>8. PICK b \in S : b = L!Nth(S, (9 * n) \div 10)
  BY <1>1, <1>6, NthIsThere
<1>9. a.actual \in Int /\ b.actual \in Int
  BY DEF Numbered
<1>10. L!Suggested(S) = [lo |-> IF a.actual > b.actual THEN b.actual ELSE a.actual, hi |-> b.actual]
  BY <1>4, <1>7, <1>8 DEF L!Iv
<1>11. PICK t : t = L!Suggested(S)
  OBVIOUS
<1>12. /\ t \in Ivs /\ t.hi = b.actual
       /\ t.lo = a.actual \/ t.lo = b.actual
  BY <1>9, <1>10, <1>11 DEF Ivs, L!Interval
<1> QED
  BY <1>11, <1>12

\* A reliability that is calibrated is at most 0.9.
LEMMA CalibratedIs ==
    ASSUME L!EstimationAssumption, L!LearningAssumption, NEW S, IsFiniteSet(S), NEW t \in SourceTier
    PROVE  L!Calibrated(S, t) \in 0 .. Unit /\ 10 * L!Calibrated(S, t) <= 9 * Unit
<1> DEFINE rated == L!OfTier(S, t)
           good == {o \in rated : o.rating = "accurate"}
           fair == {o \in rated : o.rating = "acceptable"}
<1>1. Unit \in Nat \ {0} /\ DefaultReliability[t] \in 0 .. Unit /\ 10 * DefaultReliability[t] <= 9 * Unit
  BY DEF L!EstimationAssumption, L!LearningAssumption
<1>2. EnoughRated \in Nat \ {0}
  BY DEF L!LearningAssumption
<1>3. rated \in SUBSET S /\ good \in SUBSET rated /\ fair \in SUBSET rated /\ good \union fair \in SUBSET rated
      /\ good \intersect fair = {}
  BY DEF L!OfTier
<1> HIDE DEF rated, good, fair
<1>4. IsFiniteSet(rated)
  BY <1>3, FS_Subset
<1>5. IsFiniteSet(good) /\ IsFiniteSet(fair) /\ IsFiniteSet(good \union fair)
  BY <1>3, <1>4, FS_Subset
<1>6. PICK a, b, n \in Nat : a = Cardinality(good) /\ b = Cardinality(fair) /\ n = Cardinality(rated)
  BY <1>4, <1>5, FS_CardinalityType
<1>7. a + b <= n
  <2>1. Cardinality(good \union fair) = a + b - Cardinality(good \intersect fair)
    BY <1>5, <1>6, FS_Union
  <2>2. Cardinality(good \intersect fair) = 0
    BY <1>3, FS_EmptySet
  <2>3. Cardinality(good \union fair) <= n
    BY <1>3, <1>4, <1>6, FS_Subset
  <2> QED
    BY <1>6, <2>1, <2>2, <2>3
<1>8. L!Calibrated(S, t) = IF n >= EnoughRated THEN ((9 * a + 5 * b) * Unit) \div (10 * n)
                           ELSE DefaultReliability[t]
  <2>1. L!Cardinality(rated) = n /\ L!Cardinality(good) = a /\ L!Cardinality(fair) = b
    BY <1>6, EstimatesCount
  <2> QED
    BY <2>1 DEF L!Calibrated, rated, good, fair
<1>9. CASE n >= EnoughRated
  <2>1. n >= 1
    BY <1>2, <1>9
  <2>2. 9 * a + 5 * b \in Nat /\ 9 * a + 5 * b <= 9 * n
    BY <1>7
  <2>3. PICK y \in Nat : y = 9 * a + 5 * b
    BY <2>2
  <2>4. y * Unit \in Nat /\ y * Unit <= 9 * n * Unit
    BY <1>1, <2>2, <2>3
  <2>5. PICK x \in Nat : x = y * Unit
    BY <2>4
  <2>6. PICK d \in Nat : d = 10 * n /\ d >= 10
    BY <2>1
  <2>7. PICK q : q = x \div d
    OBVIOUS
  <2>8. q \in Int /\ d * q <= x /\ x < d * q + d
    BY <2>6, <2>7
  <2>9. q >= 0
    <3>1. SUFFICES ASSUME q <= -1 PROVE FALSE
      BY <2>8
    <3>2. d * q <= -d
      BY <2>6, <2>8, <3>1
    <3> QED
      BY <2>6, <2>8, <3>2
  <2>10. 10 * q <= 9 * Unit
    <3>1. SUFFICES ASSUME 10 * q >= 9 * Unit + 1 PROVE FALSE
      BY <1>1, <2>8
    <3>2. n * (10 * q) >= n * (9 * Unit + 1)
      BY <1>1, <2>8, <3>1
    <3>3. n * (10 * q) = d * q
      BY <2>6, <2>8
    <3>4. n * (9 * Unit + 1) = 9 * n * Unit + n
      BY <1>1
    <3> QED
      BY <1>1, <2>1, <2>4, <2>5, <2>8, <3>2, <3>3, <3>4
  <2>11. q <= Unit
    BY <1>1, <2>8, <2>10
  <2>12. L!Calibrated(S, t) = q
    BY <1>8, <1>9, <2>3, <2>5, <2>6, <2>7
  <2> QED
    BY <1>1, <2>8, <2>9, <2>10, <2>11, <2>12
<1>10. CASE ~ (n >= EnoughRated)
  BY <1>1, <1>8, <1>10
<1> QED
  BY <1>9, <1>10

\* The average of outcomes is a number: the sum over a set is that over the set without one of
\* them, and there is such a function, whose value for a set of n members is reached in n steps.
LEMMA AverageIs ==
    ASSUME NEW S, IsFiniteSet(S), S # {}, \A o \in S : o.actual \in Int
    PROVE  L!Average(S) \in Int
<1> DEFINE one(T) == CHOOSE o \in T : TRUE
           G(a) == a = [T \in SUBSET S |-> IF T = {} THEN 0 ELSE one(T).actual + a[T \ {one(T)}]]
           Next(a) == [T \in SUBSET S |-> IF T = {} THEN 0 ELSE one(T).actual + a[T \ {one(T)}]]
           Sums == [SUBSET S -> Int]
           n == Cardinality(S)
           f == [i \in 1 .. n |-> [a \in Sums |-> Next(a)]]
           base == [T \in SUBSET S |-> 0]
<1>1. n \in Nat /\ n >= 1
  BY FS_CardinalityType, FS_EmptySet
<1>2. \A T \in SUBSET S : T # {} => one(T) \in T /\ one(T).actual \in Int /\ T \ {one(T)} \in SUBSET S
  OBVIOUS
<1>3. \A T \in SUBSET S : IsFiniteSet(T) /\ Cardinality(T) \in 0 .. n
                          /\ (T = {} <=> Cardinality(T) = 0)
  <2> TAKE T \in SUBSET S
  <2>1. IsFiniteSet(T) /\ Cardinality(T) <= Cardinality(S)
    BY FS_Subset
  <2>2. Cardinality(T) \in Nat /\ (Cardinality(T) = 0 <=> T = {})
    BY <2>1, FS_CardinalityType, FS_EmptySet
  <2> QED
    BY <1>1, <2>1, <2>2
<1>4. \A T \in SUBSET S : T # {} => Cardinality(T \ {one(T)}) = Cardinality(T) - 1
  BY <1>2, <1>3, FS_RemoveElement
<1> HIDE DEF one, n
<1>5. \A a \in Sums : Next(a) \in Sums
  <2> TAKE a \in Sums
  <2>1. \A T \in SUBSET S : T # {} => one(T).actual + a[T \ {one(T)}] \in Int
    BY <1>2
  <2> QED
    BY <2>1
<1>6. f \in [1 .. n -> [Sums -> Sums]]
  <2> HIDE DEF Next, Sums
  <2> QED
    BY <1>5
<1>7. base \in Sums
  OBVIOUS
<1>8. PICK g : Trace(g, Sums, base, n, f)
  <2> HIDE DEF f, Sums, base
  <2> QED
    BY <1>1, <1>6, <1>7, StepsExist, Zenon
<1>9. g \in [0 .. n -> Sums] /\ g[0] = base /\ \A i \in 1 .. n : g[i] = Next(g[i - 1])
  <2>1. \A i \in 1 .. n : g[i] = f[i][g[i - 1]] /\ g[i - 1] \in Sums
    <3> HIDE DEF f, Sums, base
    <3>1. \A i \in 1 .. n : i - 1 \in 0 .. n
      BY <1>1
    <3> QED
      BY <1>8, <3>1 DEF Trace
  <2>2. \A i \in 1 .. n : g[i] = Next(g[i - 1])
    <3> HIDE DEF Next, Sums
    <3> QED
      BY <2>1
  <2> HIDE DEF f, Sums, base, Next
  <2> QED
    BY <1>8, <2>2 DEF Trace
<1> DEFINE h == [T \in SUBSET S |-> g[Cardinality(T)][T]]
<1>10. G(h)
  <2>1. h[{}] = 0
    BY <1>3, <1>9
  <2>2. ASSUME NEW T \in SUBSET S, T # {} PROVE h[T] = one(T).actual + h[T \ {one(T)}]
    <3>1. PICK k \in 1 .. n : k = Cardinality(T)
      BY <1>1, <1>3, <2>2
    <3>2. Cardinality(T \ {one(T)}) = k - 1 /\ T \ {one(T)} \in SUBSET S
      BY <1>2, <1>4, <2>2, <3>1
    <3>3. g[k] = Next(g[k - 1])
      BY <1>9
    <3>4. g[k][T] = one(T).actual + g[k - 1][T \ {one(T)}]
      BY <2>2, <3>3
    <3> QED
      BY <3>1, <3>2, <3>4
  <2>3. \A T \in SUBSET S : h[T] = IF T = {} THEN 0 ELSE one(T).actual + h[T \ {one(T)}]
    <3> HIDE DEF h
    <3> QED
      BY <2>1, <2>2
  <2>4. h = [T \in SUBSET S |-> h[T]]
    OBVIOUS
  <2> HIDE DEF h
  <2> QED
    BY <2>3, <2>4
<1> DEFINE sum == CHOOSE a : G(a)
<1>11. L!Average(S) = L!Div(sum[S], L!Cardinality(S))
  BY DEF L!Average, one
<1>12. G(sum)
  <2> HIDE DEF G, h
  <2> QED
    BY <1>10
<1> HIDE DEF sum, h
<1>13. \A T \in SUBSET S : sum[T] = IF T = {} THEN 0 ELSE one(T).actual + sum[T \ {one(T)}]
  BY <1>12
<1> HIDE DEF G
<1> DEFINE Good == {k \in Nat : \A T \in SUBSET S : Cardinality(T) = k => sum[T] \in Int}
<1>14. 0 \in Good
  <2>1. {} \in SUBSET S /\ sum[{}] = 0
    BY <1>13
  <2>2. \A T \in SUBSET S : Cardinality(T) = 0 => sum[T] \in Int
    BY <1>3, <2>1
  <2> QED
    BY <2>2
<1>15. ASSUME NEW k \in Nat, k \in Good PROVE k + 1 \in Good
  <2>1. SUFFICES ASSUME NEW T \in SUBSET S, Cardinality(T) = k + 1 PROVE sum[T] \in Int
    OBVIOUS
  <2>2. T # {}
    BY <1>3, <2>1
  <2>3. Cardinality(T \ {one(T)}) = k /\ T \ {one(T)} \in SUBSET S
    BY <1>2, <1>4, <2>1, <2>2
  <2>4. sum[T \ {one(T)}] \in Int
    BY <1>15, <2>3
  <2> QED
    BY <1>2, <1>13, <2>2, <2>4
<1>16. sum[S] \in Int
  <2>1. Nat \subseteq Good
    <3> HIDE DEF Good
    <3> QED
      BY <1>14, <1>15, CountingUp
  <2>2. n \in Good
    <3> HIDE DEF Good
    <3> QED
      BY <1>1, <2>1
  <2> QED
    BY <2>2 DEF n
<1>17. L!Cardinality(S) = n
  BY EstimatesCount DEF n
<1>18. PICK x \in Int : x = sum[S]
  BY <1>16
<1>19. x \div n \in Int
  BY <1>1
<1> QED
  BY <1>1, <1>11, <1>17, <1>18, <1>19 DEF L!Div

-----------------------------------------------------------------------------
(* Learning *)

OutcomesInv ==
    /\ recorded \in 0 .. MaxOutcomes
    /\ value \in [Variable -> Actual \union {Absent}]
    /\ outcomes \in SUBSET L!Outcome /\ IsFiniteSet(outcomes)
    /\ outcomeFile \in [Project -> SUBSET L!Outcome] /\ \A p \in Project : IsFiniteSet(outcomeFile[p])

\* Of the outcomes of all projects, none is recorded twice, and the newest has the highest number.
NumberedInv ==
    /\ L!OutcomesStayHome
    /\ \A p \in Project : \A o \in outcomeFile[p] : o.id <= recorded

LearningInv == EstimatesInv /\ OutcomesInv /\ NumberedInv

\* Some of the outcomes that lie in the files are numbered.
LEMMA SomeAreNumbered ==
    ASSUME L!LearningAssumption, LearningInv, NEW S, IsFiniteSet(S),
           S \subseteq UNION {outcomeFile[p] : p \in Project}
    PROVE  Numbered(S)
<1>1. ASSUME NEW o \in S PROVE o.actual \in Int /\ o.id \in Int
  <2>1. o \in L!Outcome
    BY DEF LearningInv, OutcomesInv
  <2>2. o.actual \in Actual /\ o.id \in 1 .. MaxOutcomes
    BY <2>1 DEF L!Outcome
  <2>3. Actual \subseteq Int /\ MaxOutcomes \in Nat
    BY DEF L!LearningAssumption
  <2>4. 1 .. MaxOutcomes \subseteq Int
    BY <2>3
  <2> QED
    BY <2>2, <2>3, <2>4, Zenon
<1>2. ASSUME NEW o \in S, NEW u \in S, o.id = u.id PROVE o = u
  BY <1>2 DEF LearningInv, NumberedInv, L!OutcomesStayHome
<1> QED
  BY <1>1, <1>2 DEF Numbered

\* What a tool of p reads, and that of one metric in it.
LEMMA LoadedIs ==
    ASSUME LearningInv, NEW p \in Project, NEW v
    PROVE  /\ L!Loaded(p) \in SUBSET L!Outcome /\ IsFiniteSet(L!Loaded(p))
           /\ L!Loaded(p) \subseteq UNION {outcomeFile[q] : q \in Project}
           /\ L!LoadedIfEmpty(p) \in SUBSET L!Outcome /\ IsFiniteSet(L!LoadedIfEmpty(p))
           /\ L!LoadedIfEmpty(p) \subseteq UNION {outcomeFile[q] : q \in Project}
<1>1. /\ outcomes \in SUBSET L!Outcome /\ outcomeFile[p] \in SUBSET L!Outcome
      /\ IsFiniteSet(outcomes) /\ IsFiniteSet(outcomeFile[p])
      /\ outcomes \subseteq UNION {outcomeFile[q] : q \in Project}
  BY DEF LearningInv, OutcomesInv, NumberedInv, L!OutcomesStayHome
<1>2. IsFiniteSet(outcomes \union outcomeFile[p])
  BY <1>1, FS_Union
<1> QED
  BY <1>1, <1>2 DEF L!Loaded, L!LoadedIfEmpty

LEMMA OfMetricIs ==
    ASSUME NEW S, IsFiniteSet(S), NEW v
    PROVE  L!OfMetric(S, v) \in SUBSET S /\ IsFiniteSet(L!OfMetric(S, v))
<1>1. L!OfMetric(S, v) \in SUBSET S
  BY DEF L!OfMetric
<1> QED
  BY <1>1, FS_Subset

LEMMA InvSuggestsObserved ==
    ASSUME L!EstimationAssumption, L!LearningAssumption, LearningInv
    PROVE  L!SuggestionsAreObserved
<1> SUFFICES ASSUME NEW v \in Variable, NEW S, S = L!OfMetric(outcomes, v), L!Suggested(S) # Absent
             PROVE  /\ {L!Suggested(S).lo, L!Suggested(S).hi} \subseteq {o.actual : o \in S}
                    /\ \A t \in SourceTier : 10 * L!Calibrated(S, t) <= 9 * Unit
  BY DEF L!SuggestionsAreObserved
<1>1. IsFiniteSet(outcomes) /\ outcomes \subseteq UNION {outcomeFile[p] : p \in Project}
  BY DEF LearningInv, OutcomesInv, NumberedInv, L!OutcomesStayHome
<1>2. S \subseteq outcomes /\ IsFiniteSet(S)
  BY <1>1, OfMetricIs
<1>3. Numbered(S)
  BY <1>1, <1>2, SomeAreNumbered
<1> QED
  BY <1>2, <1>3, SuggestedIs, CalibratedIs

\* Outcomes that are read change nothing in the files.
LEMMA ReadKeeps ==
    ASSUME LearningInv, NEW S, S \in SUBSET L!Outcome, IsFiniteSet(S),
           S \subseteq UNION {outcomeFile[p] : p \in Project},
           outcomes' = S, outcomeFile' = outcomeFile, recorded' = recorded,
           value' = value \/ value' = [v \in Variable |-> Absent]
    PROVE  OutcomesInv' /\ NumberedInv'
<1>1. OutcomesInv'
  BY DEF LearningInv, OutcomesInv
<1>2. NumberedInv'
  BY DEF LearningInv, NumberedInv, L!OutcomesStayHome
<1> QED
  BY <1>1, <1>2

LEMMA RecordKeeps ==
    ASSUME L!LearningAssumption, LearningInv, NEW p \in Project, NEW v \in Variable,
           NEW x \in Actual, NEW t \in SourceTier, L!RecordOutcome(p, v, x, t)
    PROVE  LearningInv'
<1>1. recorded \in 0 .. MaxOutcomes /\ recorded < MaxOutcomes /\ recorded' = recorded + 1
      /\ MaxOutcomes \in Nat
  BY DEF LearningInv, OutcomesInv, L!RecordOutcome, L!LearningAssumption
<1>2. PICK o : /\ o = [id |-> recorded + 1, of |-> p, metric |-> v, actual |-> x, tier |-> t,
                       rating |-> IF L!Predicted2(p, v) = Absent THEN "no_prediction"
                                  ELSE L!Rated(2 * x, L!Predicted2(p, v))]
               /\ outcomes' = outcomes \union {o}
               /\ outcomeFile' = [outcomeFile EXCEPT ![p] = @ \union {o}]
  BY DEF L!RecordOutcome, L!Saved
<1>3. \A a, b : L!Rated(a, b) \in L!Rating
  BY DEF L!Rated, L!Rating
<1>4. o \in L!Outcome /\ o.id = recorded + 1 /\ o.of = p
  <2>1. (IF L!Predicted2(p, v) = Absent THEN "no_prediction" ELSE L!Rated(2 * x, L!Predicted2(p, v))) \in L!Rating
    BY <1>3 DEF L!Rating
  <2>2. recorded + 1 \in 1 .. MaxOutcomes
    BY <1>1
  <2> QED
    BY <1>2, <2>1, <2>2 DEF L!Outcome
<1>5. /\ outcomes \in SUBSET L!Outcome /\ IsFiniteSet(outcomes)
      /\ outcomeFile \in [Project -> SUBSET L!Outcome] /\ \A q \in Project : IsFiniteSet(outcomeFile[q])
  BY DEF LearningInv, OutcomesInv
<1>6. \A q \in Project : outcomeFile'[q] = IF q = p THEN outcomeFile[p] \union {o} ELSE outcomeFile[q]
  BY <1>2, <1>5
<1>7. OutcomesInv'
  <2>1. IsFiniteSet(outcomes') /\ outcomes' \in SUBSET L!Outcome
    BY <1>2, <1>4, <1>5, FS_AddElement
  <2>2. IsFiniteSet(outcomeFile[p] \union {o})
    BY <1>5, FS_AddElement
  <2>3. outcomeFile' \in [Project -> SUBSET L!Outcome]
    BY <1>2, <1>4, <1>5
  <2>4. \A q \in Project : IsFiniteSet(outcomeFile'[q])
    BY <1>5, <1>6, <2>2
  <2>5. value' \in [Variable -> Actual \union {Absent}] /\ recorded' \in 0 .. MaxOutcomes
    BY <1>1 DEF LearningInv, OutcomesInv, L!RecordOutcome
  <2> QED
    BY <2>1, <2>3, <2>4, <2>5 DEF OutcomesInv
<1>8. NumberedInv'
  <2>1. \A q \in Project : \A u \in outcomeFile[q] : u.id <= recorded /\ u.id \in Int /\ u.of = q
    BY <1>5 DEF LearningInv, NumberedInv, L!OutcomesStayHome, L!Outcome
  <2>2. \A q \in Project : \A u \in outcomeFile'[q] : u.of = q /\ u.id <= recorded'
    BY <1>1, <1>4, <1>6, <2>1
  <2>3. outcomes' \subseteq UNION {outcomeFile'[q] : q \in Project}
    <3>1. outcomes \subseteq UNION {outcomeFile[q] : q \in Project}
      BY DEF LearningInv, NumberedInv, L!OutcomesStayHome
    <3> QED
      BY <1>2, <1>6, <3>1
  <2>4. \A q, r \in Project : \A u \in outcomeFile'[q], w \in outcomeFile'[r] : u.id = w.id => u = w
    <3>1. ASSUME NEW q \in Project, NEW r \in Project, NEW u \in outcomeFile'[q], NEW w \in outcomeFile'[r],
                 u.id = w.id
          PROVE  u = w
      <4>1. (u = o \/ u \in outcomeFile[q]) /\ (w = o \/ w \in outcomeFile[r])
        BY <1>6
      <4>2. CASE u \in outcomeFile[q] /\ w \in outcomeFile[r]
        BY <3>1, <4>2 DEF LearningInv, NumberedInv, L!OutcomesStayHome
      <4>3. CASE u = o /\ w \in outcomeFile[r]
        BY <1>1, <1>4, <2>1, <3>1, <4>3
      <4>4. CASE w = o /\ u \in outcomeFile[q]
        BY <1>1, <1>4, <2>1, <3>1, <4>4
      <4> QED
        BY <4>1, <4>2, <4>3, <4>4
    <3> QED
      BY <3>1
  <2> QED
    BY <2>2, <2>3, <2>4 DEF NumberedInv, L!OutcomesStayHome
<1>9. EstimatesInv'
  <2>1. memory' = memory \/ memory' = [memory EXCEPT ![v] = L!Looked(p, v)]
    BY DEF L!RecordOutcome
  <2>2. file' = file /\ made' = made /\ made \in 0 .. MaxEstimates
    BY DEF L!RecordOutcome, LearningInv, EstimatesInv
  <2>3. L!Looked(p, v) \in RecordOf(v) \union {Absent}
    BY DEF L!Looked, LearningInv, EstimatesInv
  <2>4. CASE memory' = memory
    BY <2>2, <2>4 DEF LearningInv, EstimatesInv
  <2>5. CASE memory' = [memory EXCEPT ![v] = L!Looked(p, v)]
    BY <2>2, <2>3, <2>5, Replaced DEF LearningInv
  <2> QED
    BY <2>1, <2>4, <2>5
<1> QED
  BY <1>7, <1>8, <1>9 DEF LearningInv


\* What apply_learnings makes of the outcomes of v, and of what is known of v.
LEMMA AppliedRecord ==
    ASSUME L!EstimationAssumption, L!LearningAssumption, LearningInv, NEW p \in Project, NEW v \in Variable,
           L!ApplyLearnings(p, v)
    PROVE  \E rec \in RecordOf(v), base \in Seq(MadeOf(v)), e \in MadeOf(v) :
                /\ rec.estimates = Append(base, e)
                /\ base = L!EstimatesOf(memory[v]) \/ base = L!EstimatesOf(file[p][v])
                /\ memory' = [memory EXCEPT ![v] = rec]
                /\ file' = [file EXCEPT ![p][v] = memory'[v]]
                /\ file' = [file EXCEPT ![p][v] = rec]
<1> DEFINE S == L!OfMetric(L!LoadedIfEmpty(p), v)
           range == L!BeliefRange(L!Average(S), OutcomeWeight)
<1>1. made \in 0 .. MaxEstimates /\ made < MaxEstimates
  BY DEF LearningInv, EstimatesInv, L!ApplyLearnings
<1>2. IsFiniteSet(S) /\ S # {} /\ S \subseteq UNION {outcomeFile[q] : q \in Project}
  <2>1. IsFiniteSet(L!LoadedIfEmpty(p)) /\ L!LoadedIfEmpty(p) \subseteq UNION {outcomeFile[q] : q \in Project}
    BY LoadedIs
  <2>2. IsFiniteSet(S) /\ S \subseteq L!LoadedIfEmpty(p)
    BY <2>1, OfMetricIs
  <2>3. S # {}
    BY DEF L!ApplyLearnings
  <2> QED
    BY <2>1, <2>2, <2>3
<1>3. L!Average(S) \in Int
  <2>1. \A o \in S : o.actual \in Int
    BY <1>2, SomeAreNumbered DEF Numbered
  <2> QED
    BY <1>2, <2>1, AverageIs
<1>4. OutcomeWeight \in 0 .. Unit
  BY DEF L!LearningAssumption
<1>5. range \in Ivs
  BY <1>3, <1>4, BeliefIsRange
<1>6. PICK e \in MadeOf(v) : e = [id |-> made + 1, iv |-> L!Clamped(v, range), r |-> OutcomeWeight, given |-> range]
  BY <1>1, <1>4, <1>5, NewEstimate
<1>7. PICK looked \in RecordOf(v) : looked = L!Looked(p, v)
  BY DEF LearningInv, EstimatesInv, L!Looked, L!ApplyLearnings
<1>8. PICK rec : rec = LET es == Append(looked.estimates, e)
                       IN  [estimates |-> es, version |-> looked.version + 1,
                            fused |-> IF Len(es) >= 2 THEN L!BatchFuse(es, v) ELSE looked.fused]
  OBVIOUS
<1>9. rec \in RecordOf(v)
  BY <1>8, RecordGrows
<1>10. memory' = [memory EXCEPT ![v] = rec] /\ file' = [file EXCEPT ![p][v] = memory'[v]]
  BY <1>6, <1>7, <1>8, Zenon DEF L!ApplyLearnings
<1>11. PICK base \in Seq(MadeOf(v)) : base = looked.estimates
  BY DEF RecordOf
<1>12. rec.estimates = Append(base, e)
  BY <1>8, <1>11
<1>13. base = L!EstimatesOf(memory[v]) \/ base = L!EstimatesOf(file[p][v])
  <2>1. looked # Absent
    BY <1>7 DEF L!ApplyLearnings
  <2>2. L!EstimatesOf(looked) = base
    BY <1>11, <2>1 DEF L!EstimatesOf
  <2> QED
    BY <1>7, <2>2 DEF L!Looked
<1>14. memory'[v] = rec
  BY <1>10 DEF LearningInv, EstimatesInv
<1>15. file' = [file EXCEPT ![p][v] = rec]
  BY <1>10, <1>14
<1> QED
  BY <1>9, <1>10, <1>12, <1>13, <1>15

LEMMA ApplyKeeps ==
    ASSUME L!EstimationAssumption, L!LearningAssumption, LearningInv, NEW p \in Project, NEW v \in Variable,
           L!ApplyLearnings(p, v)
    PROVE  LearningInv'
<1>1. PICK rec \in RecordOf(v) : /\ memory' = [memory EXCEPT ![v] = rec]
                                 /\ file' = [file EXCEPT ![p][v] = memory'[v]]
  BY AppliedRecord
<1>2. made' \in 0 .. MaxEstimates
  <2>1. made \in 0 .. MaxEstimates /\ made < MaxEstimates /\ made' = made + 1 /\ MaxEstimates \in Nat
    BY DEF LearningInv, EstimatesInv, L!ApplyLearnings, L!EstimationAssumption
  <2> QED
    BY <2>1
<1>3. EstimatesInv'
  BY <1>1, <1>2, Replaced DEF LearningInv
<1>4. /\ outcomes' = L!LoadedIfEmpty(p) /\ outcomeFile' = outcomeFile
      /\ recorded' = recorded /\ value' = value
  BY DEF L!ApplyLearnings
<1>5. OutcomesInv' /\ NumberedInv'
  BY <1>4, LoadedIs, ReadKeeps
<1> QED
  BY <1>3, <1>5 DEF LearningInv

\* The estimate that a caller makes of a reference class is one it could have given.
LEMMA ReferenceIsRange ==
    ASSUME L!EstimationAssumption, L!LearningAssumption, LearningInv, NEW p \in Project, NEW v \in Variable,
           NEW t \in SourceTier, L!EstimateFromReference(p, v, t)
    PROVE  \E iv \in Ivs, r \in 0 .. Unit : L!CreateEstimate(p, v, iv, r)
<1> DEFINE S == L!OfMetric(L!Loaded(p), v)
<1>1. IsFiniteSet(S) /\ S \subseteq UNION {outcomeFile[q] : q \in Project}
  <2>1. IsFiniteSet(L!Loaded(p)) /\ L!Loaded(p) \subseteq UNION {outcomeFile[q] : q \in Project}
    BY LoadedIs
  <2>2. IsFiniteSet(S) /\ S \subseteq L!Loaded(p)
    BY <2>1, OfMetricIs
  <2> QED
    BY <2>1, <2>2
<1>2. Numbered(S)
  BY <1>1, SomeAreNumbered
<1>3. L!Suggested(S) # Absent
  BY DEF L!EstimateFromReference
<1>4. L!Suggested(S) \in Ivs
  BY <1>1, <1>2, <1>3, SuggestedIs
<1>5. L!Calibrated(S, t) \in 0 .. Unit
  BY <1>1, CalibratedIs
<1>6. L!CreateEstimate(p, v, L!Suggested(S), L!Calibrated(S, t))
  BY DEF L!EstimateFromReference
<1> QED
  BY <1>4, <1>5, <1>6

LEMMA ReferenceKeeps ==
    ASSUME L!EstimationAssumption, L!LearningAssumption, LearningInv, NEW p \in Project, NEW v \in Variable,
           NEW t \in SourceTier, L!EstimateFromReference(p, v, t)
    PROVE  LearningInv'
<1>1. EstimatesInv'
  BY ReferenceIsRange, CreateKeeps DEF LearningInv
<1>2. /\ outcomes' = L!Loaded(p) /\ outcomeFile' = outcomeFile
      /\ recorded' = recorded /\ value' = value
  BY DEF L!EstimateFromReference
<1>3. OutcomesInv' /\ NumberedInv'
  BY <1>2, LoadedIs, ReadKeeps
<1> QED
  BY <1>1, <1>3 DEF LearningInv

\* A step of the estimates alone leaves what is learned as it was.
LEMMA EstimatesKeep ==
    ASSUME L!EstimationAssumption, LearningInv, EstimatesInv', UNCHANGED L!learning
    PROVE  LearningInv'
<1>1. UNCHANGED <<outcomes, outcomeFile, value, recorded>>
  BY DEF L!learning
<1> QED
  BY <1>1 DEF LearningInv, OutcomesInv, NumberedInv, L!OutcomesStayHome

LEMMA SetValueKeeps ==
    ASSUME LearningInv, NEW v \in Variable, NEW x \in Actual, L!SetValue(v, x)
    PROVE  LearningInv'
<1>1. /\ value' = [value EXCEPT ![v] = x] /\ UNCHANGED <<memory, file, made>>
      /\ UNCHANGED <<outcomes, outcomeFile, recorded>>
  BY DEF L!SetValue, L!vars
<1>2. EstimatesInv'
  BY <1>1 DEF LearningInv, EstimatesInv
<1>3. value' \in [Variable -> Actual \union {Absent}]
  BY <1>1 DEF LearningInv, OutcomesInv
<1>4. OutcomesInv'
  BY <1>1, <1>3 DEF LearningInv, OutcomesInv
<1>5. NumberedInv'
  BY <1>1 DEF LearningInv, NumberedInv, L!OutcomesStayHome
<1> QED
  BY <1>2, <1>4, <1>5 DEF LearningInv

LEMMA ReadOutcomesKeeps ==
    ASSUME LearningInv, NEW p \in Project, L!ReadOutcomes(p)
    PROVE  LearningInv'
<1>1. UNCHANGED <<memory, file, made>> /\ outcomes' = L!Loaded(p)
      /\ outcomeFile' = outcomeFile /\ recorded' = recorded /\ value' = value
  BY DEF L!ReadOutcomes, L!vars
<1>2. EstimatesInv'
  BY <1>1 DEF LearningInv, EstimatesInv
<1>3. OutcomesInv' /\ NumberedInv'
  BY <1>1, LoadedIs, ReadKeeps
<1> QED
  BY <1>2, <1>3 DEF LearningInv

LEMMA NewProcessKeeps ==
    ASSUME LearningInv, L!NewProcess
    PROVE  LearningInv'
<1>1. EstimatesInv'
  BY RestartKeeps DEF LearningInv, L!NewProcess
<1>2. /\ outcomes' = {} /\ outcomeFile' = outcomeFile /\ recorded' = recorded
      /\ value' = [v \in Variable |-> Absent]
  BY DEF L!NewProcess
<1>3. OutcomesInv' /\ NumberedInv'
  <2>1. IsFiniteSet({})
    BY FS_EmptySet
  <2> QED
    BY <1>2, <2>1, ReadKeeps
<1> QED
  BY <1>1, <1>3 DEF LearningInv

LEMMA LearningBegins ==
    ASSUME L!EstimationAssumption, L!LearningAssumption, L!LearningInit
    PROVE  LearningInv
<1>1. EstimatesInv
  BY EstimatesBegin DEF L!LearningInit
<1>2. OutcomesInv
  BY FS_EmptySet DEF OutcomesInv, L!LearningInit, L!LearningAssumption
<1>3. NumberedInv
  BY DEF NumberedInv, L!LearningInit, L!OutcomesStayHome
<1> QED
  BY <1>1, <1>2, <1>3 DEF LearningInv

\* Each step of what is estimated and learned: the estimates that are made of no outcome are
\* those of the estimates alone.
LEMMA LearningSteps ==
    ASSUME L!LearningNext
    PROVE  \/ \E p \in Project, v \in Variable, x \in Actual, t \in SourceTier : L!RecordOutcome(p, v, x, t)
           \/ \E p \in Project, v \in Variable : L!ApplyLearnings(p, v)
           \/ \E p \in Project, v \in Variable, t \in SourceTier : L!EstimateFromReference(p, v, t)
           \/ L!Next /\ UNCHANGED L!learning
           \/ \E v \in Variable, x \in Actual : L!SetValue(v, x)
           \/ \E p \in Project : L!ReadOutcomes(p)
           \/ L!NewProcess
BY Zenon DEF L!LearningNext, L!Next

LEMMA LearningStep ==
    ASSUME L!EstimationAssumption, L!LearningAssumption, LearningInv, [L!LearningNext]_(L!allVars)
    PROVE  LearningInv'
<1>1. CASE UNCHANGED L!allVars
  BY <1>1, EstimatesKeep, EstimatesStep DEF L!allVars, LearningInv
<1>2. CASE L!LearningNext
  <2>1. ASSUME NEW p \in Project, NEW v \in Variable, NEW x \in Actual, NEW t \in SourceTier,
               L!RecordOutcome(p, v, x, t)
        PROVE  LearningInv'
    BY <2>1, RecordKeeps
  <2>2. ASSUME NEW p \in Project, NEW v \in Variable, L!ApplyLearnings(p, v) PROVE LearningInv'
    BY <2>2, ApplyKeeps
  <2>3. ASSUME NEW p \in Project, NEW v \in Variable, NEW t \in SourceTier, L!EstimateFromReference(p, v, t)
        PROVE  LearningInv'
    BY <2>3, ReferenceKeeps
  <2>4. CASE L!Next /\ UNCHANGED L!learning
    BY <2>4, EstimatesKeep, EstimatesStep DEF LearningInv
  <2>5. ASSUME NEW v \in Variable, NEW x \in Actual, L!SetValue(v, x) PROVE LearningInv'
    BY <2>5, SetValueKeeps
  <2>6. ASSUME NEW p \in Project, L!ReadOutcomes(p) PROVE LearningInv'
    BY <2>6, ReadOutcomesKeeps
  <2>7. CASE L!NewProcess
    BY <2>7, NewProcessKeeps
  <2> QED
    BY <1>2, <2>1, <2>2, <2>3, <2>4, <2>5, <2>6, <2>7, LearningSteps
<1> QED
  BY <1>1, <1>2

LEMMA LearningForgetsBlindly ==
    ASSUME L!EstimationAssumption, L!LearningAssumption, LearningInv, [L!LearningNext]_(L!allVars)
    PROVE  BlindOnly
<1>1. EstimatesInv
  BY DEF LearningInv
<1>2. CASE UNCHANGED L!allVars
  BY <1>2, UnwrittenForgetsNothing DEF L!allVars, L!vars
<1>3. CASE L!LearningNext
  <2>1. ASSUME NEW p \in Project, NEW v \in Variable, L!ApplyLearnings(p, v) PROVE BlindOnly
    <3>1. PICK rec \in RecordOf(v), base \in Seq(MadeOf(v)), e \in MadeOf(v) :
                /\ rec.estimates = Append(base, e)
                /\ base = L!EstimatesOf(memory[v]) \/ base = L!EstimatesOf(file[p][v])
                /\ file' = [file EXCEPT ![p][v] = rec]
      BY <2>1, AppliedRecord
    <3> QED
      BY <1>1, <3>1, WrittenKeepsMemory DEF BlindOnly
  <2>2. ASSUME NEW p \in Project, NEW v \in Variable, NEW t \in SourceTier, L!EstimateFromReference(p, v, t)
        PROVE  BlindOnly
    BY <1>1, <2>2, ReferenceIsRange, CreateForgetsBlindly
  <2>3. CASE L!Next /\ UNCHANGED L!learning
    BY <1>1, <2>3, EstimatesForgetBlindly
  <2>4. ASSUME NEW p \in Project, NEW v \in Variable, NEW x \in Actual, NEW t \in SourceTier,
               L!RecordOutcome(p, v, x, t)
        PROVE  BlindOnly
    BY <2>4, UnwrittenForgetsNothing DEF L!RecordOutcome
  <2>5. ASSUME NEW v \in Variable, NEW x \in Actual, L!SetValue(v, x) PROVE BlindOnly
    BY <2>5, UnwrittenForgetsNothing DEF L!SetValue, L!vars
  <2>6. ASSUME NEW p \in Project, L!ReadOutcomes(p) PROVE BlindOnly
    BY <2>6, UnwrittenForgetsNothing DEF L!ReadOutcomes, L!vars
  <2>7. CASE L!NewProcess
    BY <2>7, UnwrittenForgetsNothing DEF L!NewProcess, L!Restart
  <2> QED
    BY <1>3, <2>1, <2>2, <2>3, <2>4, <2>5, <2>6, <2>7, LearningSteps
<1> QED
  BY <1>2, <1>3

LEMMA LearningAlways ==
    ASSUME L!EstimationAssumption, L!LearningAssumption
    PROVE  L!LearningSpec => []LearningInv
<1>1. L!LearningInit => LearningInv
  BY LearningBegins
<1>2. LearningInv /\ [L!LearningNext]_(L!allVars) => LearningInv'
  BY LearningStep
<1> QED
  BY <1>1, <1>2, PTL DEF L!LearningSpec

\* However the estimates of a variable came to be and in whatever order, over any restarts and
\* files of other projects: its fused range claims nothing that no estimate reaches, keeps what
\* they agree on and names no conflict then, stays within the metric's bounds unless an estimate
\* lies wholly below them, and is free of the order when no two are equally reliable
\* (_batch_fuse and fuse_estimates of estimation.py).
THEOREM FusionsAreSound ==
    ASSUME L!EstimationAssumption
    PROVE  L!Spec => [](L!TypeOK /\ L!FusionIsSound)
<1>1. EstimatesInv => L!TypeOK /\ L!FusionIsSound
  BY InvIsTyped, InvFusesSoundly
<1> QED
  BY <1>1, EstimatesAlways, PTL

\* A project's file loses an estimate only to one made by a process that had not read it:
\* create_estimate starts the record anew, apply_learnings looks at the file first.
THEOREM ForgetsOnlyBlindly ==
    ASSUME L!EstimationAssumption
    PROVE  L!Spec => L!ForgottenOnlyBlind
<1>1. EstimatesInv /\ [L!Next]_(L!vars) => [BlindOnly]_(L!vars)
  BY EstimatesForgetBlindly
<1>2. L!Spec => [][BlindOnly]_(L!vars)
  BY <1>1, EstimatesAlways, PTL DEF L!Spec
<1> QED
  BY <1>2 DEF L!ForgottenOnlyBlind, BlindOnly

\* What is learned is what was recorded: with outcomes recorded, read and applied in any order
\* (record_outcome, apply_learnings and the readers of learning.py), estimates made of them and
\* any restarts, each project's files hold its own outcomes with one rating each, what is in
\* memory is in some file, a suggestion is two values observed and a calibrated reliability is
\* at most 0.9; and the fusions stay sound.
THEOREM LearningIsSound ==
    ASSUME L!EstimationAssumption, L!LearningAssumption
    PROVE  L!LearningSpec => [](/\ L!LearningTypeOK /\ L!FusionIsSound
                                /\ L!OutcomesStayHome /\ L!SuggestionsAreObserved)
<1>1. LearningInv => L!LearningTypeOK
  BY InvIsTyped DEF LearningInv, OutcomesInv, L!LearningTypeOK
<1>2. LearningInv => L!FusionIsSound
  BY InvFusesSoundly DEF LearningInv
<1>3. LearningInv => L!OutcomesStayHome
  BY DEF LearningInv, NumberedInv
<1>4. LearningInv => L!SuggestionsAreObserved
  BY InvSuggestsObserved
<1> QED
  BY <1>1, <1>2, <1>3, <1>4, LearningAlways, PTL

\* Nor do the estimates made of outcomes lose one that the process had read.
THEOREM LearningForgetsOnlyBlindly ==
    ASSUME L!EstimationAssumption, L!LearningAssumption
    PROVE  L!LearningSpec => L!ForgottenOnlyBlind
<1>1. LearningInv /\ [L!LearningNext]_(L!allVars) => [BlindOnly]_(L!vars)
  BY LearningForgetsBlindly
<1>2. L!LearningSpec => [][BlindOnly]_(L!vars)
  BY <1>1, LearningAlways, PTL DEF L!LearningSpec
<1> QED
  BY <1>2 DEF L!ForgottenOnlyBlind, BlindOnly

-----------------------------------------------------------------------------
(* Constraints                                                             *)

CONSTANTS Relations, Ranges, MaxGiven, Sample, Error

VARIABLES given, report

Net == INSTANCE Constraints WITH answer <- report

LEMMA RelationsCount == \A S : Net!Cardinality(S) = Cardinality(S)
BY DEF Net!Cardinality, Cardinality

\* The range from a to b.
LEMMA RangeIs ==
    ASSUME NEW a \in Int, NEW b \in Int, a <= b
    PROVE  /\ Net!Iv(a, b) \in Net!Interval
           /\ Net!Iv(a, b).lo = a /\ Net!Iv(a, b).hi = b
BY DEF Net!Iv, Net!Interval

\* Some of S are not above x, and some not below.
Between(S, x) == \E s, t \in S : s <= x /\ x <= t

\* The range that spans four numbers holds what lies between two of them.
LEMMA SpanningIs ==
    ASSUME NEW a \in Int, NEW b \in Int, NEW c \in Int, NEW d \in Int
    PROVE  /\ Net!Spanning({a, b, c, d}) \in Net!Interval
           /\ \A x \in Int : Between({a, b, c, d}, x) => Net!Holds(Net!Spanning({a, b, c, d}), x)
<1> DEFINE S == {a, b, c, d}
<1>1. \E s \in S : \A t \in S : s <= t
  OBVIOUS
<1>2. \E s \in S : \A t \in S : s >= t
  OBVIOUS
<1>3. \A s \in S : s \in Int
  OBVIOUS
<1> HIDE DEF S
<1>4. Net!Min(S) \in S /\ \A t \in S : Net!Min(S) <= t
  BY <1>1 DEF Net!Min
<1>5. Net!Max(S) \in S /\ \A t \in S : Net!Max(S) >= t
  BY <1>2 DEF Net!Max
<1>6. PICK p \in Int, q \in Int : p = Net!Min(S) /\ q = Net!Max(S)
  BY <1>3, <1>4, <1>5
<1>7. p <= q /\ Net!Spanning(S) = Net!Iv(p, q)
  BY <1>3, <1>4, <1>5, <1>6 DEF Net!Spanning
<1>8. /\ Net!Spanning(S) \in Net!Interval
      /\ Net!Spanning(S).lo = p /\ Net!Spanning(S).hi = q
  BY <1>7, RangeIs
<1>9. ASSUME NEW x \in Int, NEW s \in S, NEW t \in S, s <= x, x <= t
      PROVE  Net!Holds(Net!Spanning(S), x)
  <2>1. p <= s /\ t <= q /\ s \in Int /\ t \in Int
    BY <1>3, <1>4, <1>5, <1>6
  <2>2. p <= x /\ x <= q
    BY <1>9, <2>1
  <2> QED
    BY <1>8, <2>2 DEF Net!Holds
<1> QED
  BY <1>8, <1>9 DEF S, Between

\* A product grows with one factor, or falls, as the other is positive or negative.
LEMMA ProductsMove ==
    ASSUME NEW a \in Int, NEW b \in Int, NEW y \in Int, a <= b
    PROVE  /\ y >= 0 => a * y <= b * y
           /\ y <= 0 => b * y <= a * y
           /\ a * y \in Int /\ b * y \in Int
<1>1. PICK d \in Nat : b = a + d
  <2>1. b - a \in Nat /\ b = a + (b - a)
    OBVIOUS
  <2> QED
    BY <2>1
<1>2. b * y = a * y + d * y
  BY <1>1
<1>3. CASE y >= 0
  <2>1. d * y \in Nat
    BY <1>3
  <2> QED
    BY <1>2, <1>3, <2>1
<1>4. CASE y <= 0
  <2>1. PICK z \in Nat : y = -z
    <3>1. -y \in Nat /\ y = -(-y)
      BY <1>4
    <3> QED
      BY <3>1
  <2>2. d * z \in Nat /\ d * y = -(d * z)
    BY <2>1
  <2> QED
    BY <1>2, <1>4, <2>2
<1> QED
  BY <1>3, <1>4

\* A product of two numbers of two ranges lies between products of their ends.
LEMMA ProductsBetween ==
    ASSUME NEW a \in Int, NEW b \in Int, NEW c \in Int, NEW d \in Int,
           NEW x \in Int, NEW y \in Int, a <= x, x <= b, c <= y, y <= d
    PROVE  Between({a * c, a * d, b * c, b * d}, x * y)
<1>1. /\ a * c \in Int /\ a * d \in Int /\ b * c \in Int /\ b * d \in Int
      /\ a * y \in Int /\ b * y \in Int /\ x * y \in Int
  OBVIOUS
<1>2. (a * y <= x * y /\ x * y <= b * y) \/ (b * y <= x * y /\ x * y <= a * y)
  <2>1. y >= 0 => a * y <= x * y /\ x * y <= b * y
    BY ProductsMove
  <2>2. y <= 0 => b * y <= x * y /\ x * y <= a * y
    BY ProductsMove
  <2> QED
    BY <2>1, <2>2
<1>3. ASSUME NEW e \in {a, b} PROVE (e * c <= e * y /\ e * y <= e * d) \/ (e * d <= e * y /\ e * y <= e * c)
  <2>1. e \in Int
    OBVIOUS
  <2>2. e >= 0 => c * e <= y * e /\ y * e <= d * e
    BY <2>1, ProductsMove
  <2>3. e <= 0 => y * e <= c * e /\ d * e <= y * e
    BY <2>1, ProductsMove
  <2>4. c * e = e * c /\ d * e = e * d /\ y * e = e * y
    BY <2>1
  <2> QED
    BY <2>1, <2>2, <2>3, <2>4
<1>4. (a * c <= a * y /\ a * y <= a * d) \/ (a * d <= a * y /\ a * y <= a * c)
  BY <1>3
<1>5. (b * c <= b * y /\ b * y <= b * d) \/ (b * d <= b * y /\ b * y <= b * c)
  BY <1>3
<1>6. PICK ac \in Int, ad \in Int, bc \in Int, bd \in Int, ay \in Int, byy \in Int, xy \in Int :
            /\ ac = a * c /\ ad = a * d /\ bc = b * c /\ bd = b * d
            /\ ay = a * y /\ byy = b * y /\ xy = x * y
  BY <1>1
<1>7. \E s, t \in {ac, ad, bc, bd} : s <= xy /\ xy <= t
  <2>1. (ac <= ay /\ ay <= ad) \/ (ad <= ay /\ ay <= ac)
    BY <1>4, <1>6
  <2>2. (bc <= byy /\ byy <= bd) \/ (bd <= byy /\ byy <= bc)
    BY <1>5, <1>6
  <2>3. (ay <= xy /\ xy <= byy) \/ (byy <= xy /\ xy <= ay)
    BY <1>2, <1>6
  <2> QED
    BY <2>1, <2>2, <2>3
<1> QED
  BY <1>6, <1>7 DEF Between

\* What a quotient is, rounded down.
LEMMA QuotientIs ==
    ASSUME NEW x \in Int, NEW y \in Nat \ {0}
    PROVE  /\ x \div y \in Int
           /\ (x \div y) * y <= x /\ x < (x \div y) * y + y
<1>1. PICK q \in Int : q = x \div y
  OBVIOUS
<1>2. y * q <= x /\ x < y * q + y
  BY <1>1
<1>3. y * q = q * y
  BY <1>1
<1> QED
  BY <1>1, <1>2, <1>3

\* Quotients move with the dividend, and with the divisor as the dividend has its sign.
LEMMA QuotientsMove ==
    ASSUME NEW x \in Int, NEW z \in Int, NEW y \in Nat \ {0}, NEW w \in Nat \ {0}
    PROVE  /\ x <= z => x \div y <= z \div y
           /\ x >= 0 /\ w <= y => x \div y <= x \div w
           /\ x <= 0 /\ y <= w => x \div y <= x \div w
<1>1. PICK q \in Int, r \in Int, s \in Int : q = x \div y /\ r = z \div y /\ s = x \div w
  BY QuotientIs
<1>2. /\ q * y <= x /\ x < q * y + y /\ r * y <= z /\ z < r * y + y /\ s * w <= x /\ x < s * w + w
      /\ q * y \in Int /\ r * y \in Int /\ s * w \in Int /\ q * w \in Int
  BY <1>1, QuotientIs
<1>3. ASSUME x <= z PROVE q <= r
  <2>1. SUFFICES ASSUME r + 1 <= q PROVE FALSE
    OBVIOUS
  <2>2. (r + 1) * y <= q * y
    BY <2>1, ProductsMove
  <2>3. (r + 1) * y = r * y + y
    OBVIOUS
  <2> QED
    BY <1>2, <1>3, <2>2, <2>3
<1>4. ASSUME x >= 0, w <= y PROVE q <= s
  <2>1. q >= 0
    <3>1. SUFFICES ASSUME q <= -1 PROVE FALSE
      OBVIOUS
    <3>2. q * y <= (-1) * y
      BY <3>1, ProductsMove
    <3> QED
      BY <1>2, <1>4, <3>2
  <2>2. w * q <= y * q /\ w * q = q * w /\ y * q = q * y
    BY <1>4, <2>1, ProductsMove
  <2>3. SUFFICES ASSUME s + 1 <= q PROVE FALSE
    OBVIOUS
  <2>4. (s + 1) * w <= q * w
    BY <2>3, ProductsMove
  <2>5. (s + 1) * w = s * w + w
    OBVIOUS
  <2> QED
    BY <1>2, <2>2, <2>4, <2>5
<1>5. ASSUME x <= 0, y <= w PROVE q <= s
  <2>1. q <= 0
    <3>1. SUFFICES ASSUME 1 <= q PROVE FALSE
      OBVIOUS
    <3>2. 1 * y <= q * y
      BY <3>1, ProductsMove
    <3> QED
      BY <1>2, <1>5, <3>2
  <2>2. w * q <= y * q /\ w * q = q * w /\ y * q = q * y
    BY <1>5, <2>1, ProductsMove
  <2>3. SUFFICES ASSUME s + 1 <= q PROVE FALSE
    OBVIOUS
  <2>4. (s + 1) * w <= q * w
    BY <2>3, ProductsMove
  <2>5. (s + 1) * w = s * w + w
    OBVIOUS
  <2> QED
    BY <1>2, <2>2, <2>4, <2>5
<1> QED
  BY <1>1, <1>3, <1>4, <1>5

\* A quotient of two numbers of two ranges lies between quotients of their ends.
LEMMA QuotientsBetween ==
    ASSUME NEW a \in Int, NEW b \in Int, NEW c \in Nat \ {0}, NEW d \in Nat \ {0},
           NEW x \in Int, NEW y \in Nat \ {0}, a <= x, x <= b, c <= y, y <= d
    PROVE  Between({a \div c, a \div d, b \div c, b \div d}, x \div y)
<1>1. PICK ac \in Int, ad \in Int, bc \in Int, bd \in Int, ay \in Int, byy \in Int, xy \in Int :
            /\ ac = a \div c /\ ad = a \div d /\ bc = b \div c /\ bd = b \div d
            /\ ay = a \div y /\ byy = b \div y /\ xy = x \div y
  BY QuotientIs
<1>2. ay <= xy /\ xy <= byy
  BY <1>1, QuotientsMove
<1>3. ad <= ay \/ ac <= ay
  <2>1. a >= 0 => a \div d <= a \div y
    BY QuotientsMove
  <2>2. a <= 0 => a \div c <= a \div y
    BY QuotientsMove
  <2> QED
    BY <1>1, <2>1, <2>2
<1>4. byy <= bc \/ byy <= bd
  <2>1. b >= 0 => b \div y <= b \div c
    BY QuotientsMove
  <2>2. b <= 0 => b \div y <= b \div d
    BY QuotientsMove
  <2> QED
    BY <1>1, <2>1, <2>2
<1>5. \E s, t \in {ac, ad, bc, bd} : s <= xy /\ xy <= t
  BY <1>2, <1>3, <1>4
<1> QED
  BY <1>1, <1>5 DEF Between

-----------------------------------------------------------------------------
(* One relation *)

\* The sum and the difference, the product and the quotient of ranges hold those of their points.
LEMMA SumHolds ==
    ASSUME NEW A \in Net!Interval, NEW B \in Net!Interval, NEW x \in Int, NEW y \in Int,
           Net!Holds(A, x), Net!Holds(B, y)
    PROVE  /\ Net!Plus(A, B) \in Net!Interval /\ Net!Holds(Net!Plus(A, B), x + y)
           /\ Net!Less(A, B) \in Net!Interval /\ Net!Holds(Net!Less(A, B), x - y)
<1>1. /\ A.lo \in Int /\ A.hi \in Int /\ B.lo \in Int /\ B.hi \in Int
      /\ A.lo <= x /\ x <= A.hi /\ B.lo <= y /\ y <= B.hi
  BY DEF Net!Interval, Net!Holds
<1>2. /\ Net!Plus(A, B) \in Net!Interval
      /\ Net!Plus(A, B).lo = A.lo + B.lo /\ Net!Plus(A, B).hi = A.hi + B.hi
  BY <1>1, RangeIs DEF Net!Plus
<1>3. /\ Net!Less(A, B) \in Net!Interval
      /\ Net!Less(A, B).lo = A.lo - B.hi /\ Net!Less(A, B).hi = A.hi - B.lo
  BY <1>1, RangeIs DEF Net!Less
<1> QED
  BY <1>1, <1>2, <1>3 DEF Net!Holds

LEMMA ProductHolds ==
    ASSUME NEW A \in Net!Interval, NEW B \in Net!Interval, NEW x \in Int, NEW y \in Int,
           Net!Holds(A, x), Net!Holds(B, y)
    PROVE  Net!Times(A, B) \in Net!Interval /\ Net!Holds(Net!Times(A, B), x * y)
<1>1. PICK a \in Int, b \in Int, c \in Int, d \in Int : a = A.lo /\ b = A.hi /\ c = B.lo /\ d = B.hi
  BY DEF Net!Interval
<1>2. a <= x /\ x <= b /\ c <= y /\ y <= d
  BY <1>1 DEF Net!Holds
<1>3. Between({a * c, a * d, b * c, b * d}, x * y)
  BY <1>2, ProductsBetween
<1>4. a * c \in Int /\ a * d \in Int /\ b * c \in Int /\ b * d \in Int /\ x * y \in Int
  OBVIOUS
<1>5. Net!Times(A, B) = Net!Spanning({a * c, a * d, b * c, b * d})
  BY <1>1 DEF Net!Times
<1> QED
  BY <1>3, <1>4, <1>5, SpanningIs

LEMMA QuotientHolds ==
    ASSUME NEW A \in Net!Interval, NEW B \in Net!Interval, NEW x \in Int, NEW y \in Int,
           Net!Holds(A, x), Net!Holds(B, y), ~ Net!HoldsZero(B)
    PROVE  Net!Over(A, B) \in Net!Interval /\ Net!Holds(Net!Over(A, B), Net!Div(x, y))
<1>1. PICK a \in Int, b \in Int, c \in Int, d \in Int : a = A.lo /\ b = A.hi /\ c = B.lo /\ d = B.hi
  BY DEF Net!Interval
<1>2. a <= x /\ x <= b /\ c <= y /\ y <= d
  BY <1>1 DEF Net!Holds
<1>3. c > 0 \/ d < 0
  BY <1>1, <1>2 DEF Net!HoldsZero
<1>4. PICK ad, ac, bd, bc : ad = Net!Div(a, d) /\ ac = Net!Div(a, c) /\ bd = Net!Div(b, d) /\ bc = Net!Div(b, c)
  OBVIOUS
<1>5. Net!Over(A, B) = Net!Spanning({ad, ac, bd, bc})
  BY <1>1, <1>4 DEF Net!Over
<1>6. /\ ad \in Int /\ ac \in Int /\ bd \in Int /\ bc \in Int /\ Net!Div(x, y) \in Int
      /\ Between({ad, ac, bd, bc}, Net!Div(x, y))
  <2>1. CASE c > 0
    <3>1. c \in Nat \ {0} /\ d \in Nat \ {0} /\ y \in Nat \ {0}
      BY <1>2, <2>1
    <3>2. /\ ad = a \div d /\ ac = a \div c /\ bd = b \div d /\ bc = b \div c
          /\ Net!Div(x, y) = x \div y
      BY <1>4, <3>1 DEF Net!Div
    <3>3. Between({a \div c, a \div d, b \div c, b \div d}, x \div y)
      BY <1>2, <3>1, QuotientsBetween
    <3>4. Between({ad, ac, bd, bc}, Net!Div(x, y))
      BY <3>2, <3>3 DEF Between
    <3> QED
      BY <3>1, <3>2, <3>4, QuotientIs
  <2>2. CASE d < 0
    <3>1. PICK c_ \in Nat \ {0}, d_ \in Nat \ {0}, y_ \in Nat \ {0} : c_ = -c /\ d_ = -d /\ y_ = -y
      BY <1>2, <2>2
    <3>2. PICK a_ \in Int, b_ \in Int, x_ \in Int : a_ = -a /\ b_ = -b /\ x_ = -x
      OBVIOUS
    <3>3. /\ ad = a_ \div d_ /\ ac = a_ \div c_ /\ bd = b_ \div d_ /\ bc = b_ \div c_
          /\ Net!Div(x, y) = x_ \div y_
      <4>1. ~ (c > 0) /\ ~ (d > 0) /\ ~ (y > 0)
        BY <1>2, <2>2
      <4> QED
        BY <1>4, <3>1, <3>2, <4>1 DEF Net!Div
    <3>4. b_ <= x_ /\ x_ <= a_ /\ d_ <= y_ /\ y_ <= c_
      BY <1>2, <3>1, <3>2
    <3>5. Between({b_ \div d_, b_ \div c_, a_ \div d_, a_ \div c_}, x_ \div y_)
      BY <3>4, QuotientsBetween
    <3>6. Between({ad, ac, bd, bc}, Net!Div(x, y))
      BY <3>3, <3>5 DEF Between
    <3> QED
      BY <3>3, <3>6, QuotientIs
  <2> QED
    BY <1>3, <2>1, <2>2
<1> QED
  BY <1>5, <1>6, SpanningIs

Nested == [op : {"*", "/", "+", "-"}, inner : Net!Expression, right : Metric]

\* The two kinds of expressions are told apart by their fields.
LEMMA SimpleIs ==
    /\ \A e \in Net!Expression : Net!Simple(e)
    /\ \A e \in Nested : ~ Net!Simple(e)
<1>1. \A e \in Net!Expression : "left" \in DOMAIN e
  BY DEF Net!Expression
<1>2. \A e \in Nested : "left" \notin DOMAIN e
  BY DEF Nested
<1> QED
  BY <1>1, <1>2 DEF Net!Simple

\* The point x lies in every range that is known.
Fits(ivs, x) == \A m \in Metric : ivs[m] # Absent => x[m] \in Int /\ Net!Holds(ivs[m], x[m])

\* An operator on two ranges: an error, or a range that holds the results of their points.
LEMMA ApplyIs ==
    ASSUME Net!ConstraintAssumption, NEW op \in {"*", "/", "+", "-"},
           NEW A \in Net!Interval, NEW B \in Net!Interval
    PROVE  \/ Net!Apply(op, A, B) = Error
           \/ /\ Net!Apply(op, A, B) \in Net!Interval
              /\ \A x, y \in Int : Net!Holds(A, x) /\ Net!Holds(B, y) =>
                    Net!Result(op, x, y) \in Int /\ Net!Holds(Net!Apply(op, A, B), Net!Result(op, x, y))
<1>1. A.lo \in Int /\ B.lo \in Int /\ Net!Holds(A, A.lo) /\ Net!Holds(B, B.lo)
  BY DEF Net!Interval, Net!Holds
<1>2. CASE op = "*"
  <2>1. Net!Apply(op, A, B) = Net!Times(A, B) /\ \A x, y : Net!Result(op, x, y) = x * y
    BY <1>2 DEF Net!Apply, Net!Result
  <2> QED
    BY <1>1, <2>1, ProductHolds
<1>3. CASE op = "/" /\ Net!HoldsZero(B)
  BY <1>3 DEF Net!Apply
<1>4. CASE op = "/" /\ ~ Net!HoldsZero(B)
  <2>1. Net!Apply(op, A, B) = Net!Over(A, B) /\ \A x, y : Net!Result(op, x, y) = Net!Div(x, y)
    BY <1>4 DEF Net!Apply, Net!Result
  <2>2. Net!Over(A, B) \in Net!Interval
    BY <1>1, <1>4, QuotientHolds
  <2>3. ASSUME NEW x \in Int, NEW y \in Int, Net!Holds(A, x), Net!Holds(B, y)
        PROVE  Net!Div(x, y) \in Int /\ Net!Holds(Net!Over(A, B), Net!Div(x, y))
    <3>1. Net!Holds(Net!Over(A, B), Net!Div(x, y))
      BY <1>4, <2>3, QuotientHolds
    <3>2. y > 0 \/ -y > 0
      BY <1>4, <2>3 DEF Net!HoldsZero, Net!Holds, Net!Interval
    <3>3. Net!Div(x, y) \in Int
      <4>1. CASE y > 0
        BY <4>1, QuotientIs DEF Net!Div
      <4>2. CASE ~ (y > 0)
        <5>1. -x \in Int /\ -y \in Nat \ {0}
          BY <3>2, <4>2
        <5>2. (-x) \div (-y) \in Int
          BY <5>1, QuotientIs
        <5> QED
          BY <4>2, <5>2 DEF Net!Div
      <4> QED
        BY <4>1, <4>2
    <3> QED
      BY <3>1, <3>3
  <2> QED
    BY <2>1, <2>2, <2>3
<1>5. CASE op = "+"
  <2>1. Net!Apply(op, A, B) = Net!Plus(A, B) /\ \A x, y : Net!Result(op, x, y) = x + y
    BY <1>5 DEF Net!Apply, Net!Result
  <2> QED
    BY <1>1, <2>1, SumHolds
<1>6. CASE op = "-"
  <2>1. Net!Apply(op, A, B) = Net!Less(A, B) /\ \A x, y : Net!Result(op, x, y) = x - y
    BY <1>6 DEF Net!Apply, Net!Result
  <2> QED
    BY <1>1, <2>1, SumHolds
<1> QED
  BY <1>2, <1>3, <1>4, <1>5, <1>6

\* What an expression says of a point.
ValueOf(rhs, x) ==
    Net!Result(rhs.op, IF Net!Simple(rhs) THEN x[rhs.left]
                       ELSE Net!Result(rhs.inner.op, x[rhs.inner.left], x[rhs.inner.right]), x[rhs.right])

MetricsIn(rhs) ==
    {rhs.right} \union (IF Net!Simple(rhs) THEN {rhs.left} ELSE {rhs.inner.left, rhs.inner.right})

\* A metric that has a range has one.
LEMMA KnownIsRange ==
    ASSUME NEW ivs \in Net!Narrowed, NEW m \in Metric, ivs[m] # Absent
    PROVE  ivs[m] \in Net!Interval
BY DEF Net!Narrowed

\* An expression of two metrics that have ranges.
LEMMA SimpleValue ==
    ASSUME Net!ConstraintAssumption, NEW e \in Net!Expression, NEW ivs \in Net!Narrowed,
           ivs[e.left] # Absent, ivs[e.right] # Absent
    PROVE  \/ Net!EvalSimple(e, ivs) \in {Absent, Error}
           \/ /\ Net!EvalSimple(e, ivs) \in Net!Interval
              /\ \A x : Fits(ivs, x) =>
                    /\ Net!Result(e.op, x[e.left], x[e.right]) \in Int
                    /\ Net!Holds(Net!EvalSimple(e, ivs), Net!Result(e.op, x[e.left], x[e.right]))
<1>1. e.left \in Metric /\ e.right \in Metric /\ e.op \in {"*", "/", "+", "-"}
  BY DEF Net!Expression
<1>2. PICK A \in Net!Interval, B \in Net!Interval : A = ivs[e.left] /\ B = ivs[e.right]
  BY <1>1, KnownIsRange
<1>3. CASE e.op = "-"
  BY <1>3 DEF Net!EvalSimple
<1>4. CASE e.op # "-"
  <2>1. Net!EvalSimple(e, ivs) = Net!Apply(e.op, A, B)
    BY <1>2, <1>4 DEF Net!EvalSimple
  <2>2. \A x : Fits(ivs, x) => /\ x[e.left] \in Int /\ Net!Holds(A, x[e.left])
                               /\ x[e.right] \in Int /\ Net!Holds(B, x[e.right])
    BY <1>1, <1>2 DEF Fits
  <2> QED
    BY <1>1, <2>1, <2>2, ApplyIs
<1> QED
  BY <1>3, <1>4

\* An expression that has a value is one whose metrics all have ranges, and the value holds what
\* it says of every point in them.
LEMMA ExpressionValue ==
    ASSUME Net!ConstraintAssumption, NEW rhs \in Net!Expression \union Nested, NEW ivs \in Net!Narrowed
    PROVE  \/ Net!Eval(rhs, ivs) \in {Absent, Error}
           \/ /\ Net!Eval(rhs, ivs) \in Net!Interval
              /\ \A m \in MetricsIn(rhs) : ivs[m] # Absent
              /\ \A x : Fits(ivs, x) =>
                    ValueOf(rhs, x) \in Int /\ Net!Holds(Net!Eval(rhs, ivs), ValueOf(rhs, x))
<1>1. CASE rhs \in Net!Expression
  <2>1. Net!Simple(rhs)
    BY <1>1, SimpleIs
  <2>2. CASE ivs[rhs.left] = Absent \/ ivs[rhs.right] = Absent
    BY <2>1, <2>2 DEF Net!Eval
  <2>3. CASE ivs[rhs.left] # Absent /\ ivs[rhs.right] # Absent
    <3>1. Net!Eval(rhs, ivs) = Net!EvalSimple(rhs, ivs)
      BY <2>1, <2>3 DEF Net!Eval
    <3>2. \A x : ValueOf(rhs, x) = Net!Result(rhs.op, x[rhs.left], x[rhs.right])
      BY <2>1 DEF ValueOf
    <3>3. \A m \in MetricsIn(rhs) : ivs[m] # Absent
      BY <2>1, <2>3 DEF MetricsIn
    <3> QED
      BY <1>1, <2>3, <3>1, <3>2, <3>3, SimpleValue
  <2> QED
    BY <2>2, <2>3
<1>2. CASE rhs \in Nested
  <2>1. ~ Net!Simple(rhs)
    BY <1>2, SimpleIs
  <2>2. rhs.inner \in Net!Expression /\ rhs.right \in Metric /\ rhs.op \in {"*", "/", "+", "-"}
    BY <1>2 DEF Nested
  <2>3. CASE \E m \in {rhs.inner.left, rhs.inner.right, rhs.right} : ivs[m] = Absent
    BY <2>1, <2>3 DEF Net!Eval
  <2>4. CASE \A m \in {rhs.inner.left, rhs.inner.right, rhs.right} : ivs[m] # Absent
    <3>1. PICK inner : inner = Net!EvalSimple(rhs.inner, ivs)
      OBVIOUS
    <3>2. Net!Eval(rhs, ivs) = IF inner \in {Absent, Error} THEN inner
                               ELSE Net!Apply(rhs.op, inner, ivs[rhs.right])
      BY <2>1, <2>4, <3>1 DEF Net!Eval
    <3>3. CASE inner \in {Absent, Error}
      BY <3>2, <3>3
    <3>4. CASE inner \notin {Absent, Error}
      <4>1. /\ inner \in Net!Interval
            /\ \A x : Fits(ivs, x) =>
                    /\ Net!Result(rhs.inner.op, x[rhs.inner.left], x[rhs.inner.right]) \in Int
                    /\ Net!Holds(inner, Net!Result(rhs.inner.op, x[rhs.inner.left], x[rhs.inner.right]))
        BY <2>2, <2>4, <3>1, <3>4, SimpleValue
      <4>2. PICK B \in Net!Interval : B = ivs[rhs.right]
        BY <2>2, <2>4, KnownIsRange
      <4>3. \A x : Fits(ivs, x) => x[rhs.right] \in Int /\ Net!Holds(B, x[rhs.right])
        BY <2>2, <2>4, <4>2 DEF Fits
      <4>4. \A m \in MetricsIn(rhs) : ivs[m] # Absent
        BY <2>1, <2>4 DEF MetricsIn
      <4>5. \A x : ValueOf(rhs, x) = Net!Result(rhs.op,
                        Net!Result(rhs.inner.op, x[rhs.inner.left], x[rhs.inner.right]), x[rhs.right])
        BY <2>1 DEF ValueOf
      <4>6. Net!Eval(rhs, ivs) = Net!Apply(rhs.op, inner, B)
        BY <3>2, <3>4, <4>2
      <4> QED
        BY <2>2, <4>1, <4>3, <4>4, <4>5, <4>6, ApplyIs
    <3> QED
      BY <3>3, <3>4
  <2> QED
    BY <2>3, <2>4
<1> QED
  BY <1>1, <1>2

\* What two ranges that overlap have in common.
LEMMA MeetIs ==
    ASSUME NEW A \in Net!Interval, NEW B \in Net!Interval, Net!Overlap(A, B)
    PROVE  /\ Net!Meet(A, B) \in Net!Interval
           /\ \A x \in Int : Net!Holds(A, x) /\ Net!Holds(B, x) => Net!Holds(Net!Meet(A, B), x)
<1>1. PICK a \in Int, b \in Int, c \in Int, d \in Int : a = A.lo /\ b = A.hi /\ c = B.lo /\ d = B.hi
  BY DEF Net!Interval
<1>2. a <= b /\ c <= d /\ a <= d /\ c <= b
  BY <1>1 DEF Net!Interval, Net!Overlap
<1>3. PICK p \in Int : p = Net!Max({a, c}) /\ p \in {a, c} /\ p >= a /\ p >= c
  <2>1. Net!Max({a, c}) \in {a, c} /\ \A y \in {a, c} : Net!Max({a, c}) >= y
    <3>1. \E y \in {a, c} : \A z \in {a, c} : y >= z
      OBVIOUS
    <3> QED
      BY <3>1 DEF Net!Max
  <2> QED
    BY <2>1
<1>4. PICK q \in Int : q = Net!Min({b, d}) /\ q \in {b, d} /\ q <= b /\ q <= d
  <2>1. Net!Min({b, d}) \in {b, d} /\ \A y \in {b, d} : Net!Min({b, d}) <= y
    <3>1. \E y \in {b, d} : \A z \in {b, d} : y <= z
      OBVIOUS
    <3> QED
      BY <3>1 DEF Net!Min
  <2> QED
    BY <2>1
<1>5. p <= q /\ Net!Meet(A, B) = Net!Iv(p, q)
  BY <1>1, <1>2, <1>3, <1>4 DEF Net!Meet
<1>6. Net!Meet(A, B) \in Net!Interval /\ Net!Meet(A, B).lo = p /\ Net!Meet(A, B).hi = q
  BY <1>5, RangeIs
<1>7. \A x \in Int : a <= x /\ x <= b /\ c <= x /\ x <= d => p <= x /\ x <= q
  BY <1>3, <1>4
<1> QED
  BY <1>1, <1>6, <1>7 DEF Net!Holds

\* A range is put in for one metric: every point that fits and lies in it still fits.
LEMMA OneNarrowed ==
    ASSUME Net!ConstraintAssumption, NEW ivs \in Net!Narrowed, NEW k \in Metric, NEW iv \in Net!Interval
    PROVE  /\ [ivs EXCEPT ![k] = iv] \in Net!Narrowed
           /\ [ivs EXCEPT ![k] = iv][k] # Absent
           /\ \A m \in Metric : ivs[m] # Absent => [ivs EXCEPT ![k] = iv][m] # Absent
           /\ \A x : Fits(ivs, x) /\ x[k] \in Int /\ Net!Holds(iv, x[k]) => Fits([ivs EXCEPT ![k] = iv], x)
<1>1. Absent \notin Net!Interval
  BY DEF Net!ConstraintAssumption
<1>2. DOMAIN ivs = Metric
  BY DEF Net!Narrowed
<1> DEFINE now == [ivs EXCEPT ![k] = iv]
<1>3. now[k] = iv /\ \A m \in Metric : m # k => now[m] = ivs[m]
  BY <1>2
<1>4. now \in Net!Narrowed
  BY DEF Net!Narrowed
<1> HIDE DEF now
<1>5. now[k] # Absent /\ \A m \in Metric : ivs[m] # Absent => now[m] # Absent
  BY <1>1, <1>3
<1>6. ASSUME NEW x, Fits(ivs, x), x[k] \in Int, Net!Holds(iv, x[k]) PROVE Fits(now, x)
  BY <1>3, <1>6 DEF Fits
<1> QED
  BY <1>4, <1>5, <1>6 DEF now

\* What a check takes a relation to say of a point: an inequality is read with the greater side
\* first, whatever its sign.
AsRead(rel, x) == IF rel.type = "inequality" THEN x[rel.a] >= x[rel.b] ELSE Net!Satisfies(rel, x)

\* What the answer r to one relation owes: no range is lost, and a point that lies in the ranges
\* and satisfies the relation, when all it names have one, lies in the ranges of r, which is then
\* no violation.
Sound(rel, ivs, r) ==
    /\ r \in Net!Verdict
    /\ \A m \in Metric : ivs[m] # Absent => r.ivs[m] # Absent
    /\ \A x : /\ Fits(ivs, x)
              /\ (\A m \in Net!MetricsOf(rel) : r.ivs[m] # Absent) => AsRead(rel, x)
              => Fits(r.ivs, x) /\ r.ok

LEMMA PassedSounds ==
    ASSUME NEW ivs \in Net!Narrowed, NEW rel
    PROVE  Sound(rel, ivs, Net!Passed(ivs))
BY DEF Sound, Net!Passed, Net!Verdict

LEMMA InequalitySounds ==
    ASSUME Net!ConstraintAssumption, NEW rel \in Net!Relation, rel.type = "inequality",
           NEW ivs \in Net!Narrowed, ivs[rel.a] # Absent, ivs[rel.b] # Absent
    PROVE  Sound(rel, ivs, Net!CheckInequality(rel, ivs))
<1>1. rel.a \in Metric /\ rel.b \in Metric
  BY DEF Net!Relation
<1>2. PICK A \in Net!Interval, B \in Net!Interval : A = ivs[rel.a] /\ B = ivs[rel.b]
  BY <1>1, KnownIsRange
<1>3. /\ Net!MetricsOf(rel) = {rel.a, rel.b}
      /\ \A x : AsRead(rel, x) <=> x[rel.a] >= x[rel.b]
  BY DEF Net!MetricsOf, AsRead
<1>4. A.lo \in Int /\ A.hi \in Int /\ B.lo \in Int /\ B.hi \in Int /\ A.lo <= A.hi /\ B.lo <= B.hi
  BY DEF Net!Interval
<1>5. \A x : Fits(ivs, x) => /\ x[rel.a] \in Int /\ A.lo <= x[rel.a] /\ x[rel.a] <= A.hi
                             /\ x[rel.b] \in Int /\ B.lo <= x[rel.b] /\ x[rel.b] <= B.hi
  BY <1>1, <1>2 DEF Fits, Net!Holds
<1>6. CASE A.hi < B.lo
  <2>1. Net!CheckInequality(rel, ivs) = Net!Violated(ivs)
    BY <1>2, <1>6 DEF Net!CheckInequality
  <2>2. \A x : Fits(ivs, x) => ~ (x[rel.a] >= x[rel.b])
    BY <1>4, <1>5, <1>6
  <2>3. /\ Net!Violated(ivs) \in Net!Verdict
        /\ Net!Violated(ivs).ivs = ivs
    BY DEF Net!Violated, Net!Verdict
  <2> QED
    BY <1>2, <1>3, <2>1, <2>2, <2>3 DEF Sound
<1>7. CASE ~ (A.hi < B.lo) /\ B.hi > A.hi
  <2>1. PICK now : now = [ivs EXCEPT ![rel.b] = Net!Iv(B.lo, A.hi)]
    OBVIOUS
  <2>2. Net!CheckInequality(rel, ivs) = Net!Passed(now)
    BY <1>2, <1>7, <2>1 DEF Net!CheckInequality
  <2>3. B.lo <= A.hi
    BY <1>4, <1>7
  <2>4. /\ Net!Iv(B.lo, A.hi) \in Net!Interval
        /\ Net!Iv(B.lo, A.hi).lo = B.lo /\ Net!Iv(B.lo, A.hi).hi = A.hi
    BY <1>4, <2>3, RangeIs
  <2>5. /\ now \in Net!Narrowed
        /\ now[rel.b] # Absent
        /\ \A m \in Metric : ivs[m] # Absent => now[m] # Absent
        /\ \A x : /\ Fits(ivs, x)
                  /\ x[rel.b] \in Int
                  /\ Net!Holds(Net!Iv(B.lo, A.hi), x[rel.b])
                  => Fits(now, x)
    BY <1>1, <2>1, <2>4, OneNarrowed
  <2>6. \A x : Fits(ivs, x) /\ x[rel.a] >= x[rel.b] => Net!Holds(Net!Iv(B.lo, A.hi), x[rel.b])
    BY <1>4, <1>5, <2>4 DEF Net!Holds
  <2>7. \A m \in Net!MetricsOf(rel) : now[m] # Absent
    BY <1>1, <1>2, <1>3, <2>5
  <2>8. /\ Net!Passed(now) \in Net!Verdict
        /\ Net!Passed(now).ivs = now /\ Net!Passed(now).ok
    BY <2>5 DEF Net!Passed, Net!Verdict
  <2> QED
    BY <1>3, <1>5, <2>2, <2>5, <2>6, <2>7, <2>8 DEF Sound
<1>8. CASE ~ (A.hi < B.lo) /\ ~ (B.hi > A.hi)
  <2>1. Net!CheckInequality(rel, ivs) = Net!Passed(ivs)
    BY <1>2, <1>8 DEF Net!CheckInequality
  <2> QED
    BY <2>1, PassedSounds
<1> QED
  BY <1>6, <1>7, <1>8

LEMMA IdentitySounds ==
    ASSUME Net!ConstraintAssumption, NEW rel \in Net!Relation, rel.type = "identity",
           NEW ivs \in Net!Narrowed
    PROVE  Net!CheckIdentity(rel, ivs) = Error \/ Sound(rel, ivs, Net!CheckIdentity(rel, ivs))
<1>1. rel.lhs \in Metric /\ rel.rhs \in Net!Expression \union Nested
  BY DEF Net!Relation, Nested
<1>2. PICK worth : worth = Net!Eval(rel.rhs, ivs)
  OBVIOUS
<1>3. Error \notin Net!Interval /\ Absent \notin Net!Interval /\ Absent # Error
  BY DEF Net!ConstraintAssumption
<1>4. CASE worth = Absent
  BY <1>2, <1>4, PassedSounds DEF Net!CheckIdentity
<1>5. CASE worth = Error
  BY <1>2, <1>3, <1>5 DEF Net!CheckIdentity
<1>6. CASE worth \notin {Absent, Error}
  <2>1. /\ worth \in Net!Interval
        /\ \A m \in MetricsIn(rel.rhs) : ivs[m] # Absent
        /\ \A x : Fits(ivs, x) => ValueOf(rel.rhs, x) \in Int /\ Net!Holds(worth, ValueOf(rel.rhs, x))
    BY <1>1, <1>2, <1>6, ExpressionValue
  <2>2. MetricsIn(rel.rhs) \subseteq Metric
    BY <1>1, SimpleIs DEF MetricsIn, Net!Expression, Nested
  <2>3. Net!MetricsOf(rel) = {rel.lhs} \union MetricsIn(rel.rhs)
    BY DEF Net!MetricsOf, MetricsIn
  <2>4. \A x : AsRead(rel, x) <=> x[rel.lhs] = ValueOf(rel.rhs, x)
    BY DEF AsRead, Net!Satisfies, ValueOf
  <2>5. ASSUME NEW iv \in Net!Interval,
               \A x : /\ Fits(ivs, x)
                      /\ x[rel.lhs] = ValueOf(rel.rhs, x)
                      => Net!Holds(iv, x[rel.lhs])
        PROVE  Sound(rel, ivs, Net!Passed([ivs EXCEPT ![rel.lhs] = iv]))
    <3>1. PICK now : now = [ivs EXCEPT ![rel.lhs] = iv]
      OBVIOUS
    <3>2. /\ now \in Net!Narrowed
          /\ now[rel.lhs] # Absent
          /\ \A m \in Metric : ivs[m] # Absent => now[m] # Absent
          /\ \A x : /\ Fits(ivs, x)
                    /\ x[rel.lhs] \in Int
                    /\ Net!Holds(iv, x[rel.lhs])
                    => Fits(now, x)
      BY <1>1, <3>1, OneNarrowed
    <3>3. \A m \in Net!MetricsOf(rel) : now[m] # Absent
      BY <2>1, <2>2, <2>3, <3>2
    <3>4. /\ Net!Passed(now) \in Net!Verdict
          /\ Net!Passed(now).ivs = now /\ Net!Passed(now).ok
      BY <3>2 DEF Net!Passed, Net!Verdict
    <3>5. ASSUME NEW x, Fits(ivs, x), AsRead(rel, x) PROVE Fits(now, x)
      BY <2>1, <2>4, <2>5, <3>2, <3>5
    <3> QED
      BY <3>1, <3>2, <3>3, <3>4, <3>5 DEF Sound
  <2>6. CASE ivs[rel.lhs] = Absent
    <3>1. Net!CheckIdentity(rel, ivs) = Net!Passed([ivs EXCEPT ![rel.lhs] = worth])
      BY <1>2, <1>6, <2>6 DEF Net!CheckIdentity
    <3> QED
      BY <2>1, <2>5, <3>1
  <2>7. CASE ivs[rel.lhs] # Absent
    <3>1. PICK A \in Net!Interval : A = ivs[rel.lhs]
      BY <1>1, <2>7, KnownIsRange
    <3>2. \A x : Fits(ivs, x) => x[rel.lhs] \in Int /\ Net!Holds(A, x[rel.lhs])
      BY <1>1, <2>7, <3>1 DEF Fits
    <3>3. CASE ~ Net!Overlap(A, worth)
      <4>1. Net!CheckIdentity(rel, ivs) = Net!Violated(ivs)
        BY <1>2, <1>6, <2>7, <3>1, <3>3 DEF Net!CheckIdentity
      <4>2. \A y \in Int : ~ (Net!Holds(A, y) /\ Net!Holds(worth, y))
        <5>1. /\ A.lo \in Int /\ A.hi \in Int /\ worth.lo \in Int /\ worth.hi \in Int
          BY <2>1 DEF Net!Interval
        <5> QED
          BY <3>3, <5>1 DEF Net!Overlap, Net!Holds
      <4>3. \A x : Fits(ivs, x) => ~ AsRead(rel, x)
        BY <2>1, <2>4, <3>2, <4>2
      <4>4. \A m \in Net!MetricsOf(rel) : ivs[m] # Absent
        BY <2>1, <2>3, <2>7
      <4>5. Net!Violated(ivs) \in Net!Verdict /\ Net!Violated(ivs).ivs = ivs
        BY DEF Net!Violated, Net!Verdict
      <4> QED
        BY <4>1, <4>3, <4>4, <4>5 DEF Sound
    <3>4. CASE Net!Overlap(A, worth)
      <4>1. Net!CheckIdentity(rel, ivs) = Net!Passed([ivs EXCEPT ![rel.lhs] = Net!Meet(A, worth)])
        BY <1>2, <1>6, <2>7, <3>1, <3>4 DEF Net!CheckIdentity
      <4>2. /\ Net!Meet(A, worth) \in Net!Interval
            /\ \A y \in Int : Net!Holds(A, y) /\ Net!Holds(worth, y) => Net!Holds(Net!Meet(A, worth), y)
        BY <2>1, <3>4, MeetIs
      <4>3. \A x : /\ Fits(ivs, x)
                   /\ x[rel.lhs] = ValueOf(rel.rhs, x)
                   => Net!Holds(Net!Meet(A, worth), x[rel.lhs])
        BY <2>1, <3>2, <4>2
      <4> QED
        BY <2>5, <4>1, <4>2, <4>3
    <3> QED
      BY <3>3, <3>4
  <2> QED
    BY <2>6, <2>7
<1> QED
  BY <1>4, <1>5, <1>6

\* What one relation makes of a report.
Advances(rel, acc, then) ==
    /\ then \in Net!Report
    /\ then.checked <= acc.checked + 1
    /\ \A m \in Metric : acc.known[m] # Absent => then.known[m] # Absent
    /\ \A x : /\ Fits(acc.known, x)
              /\ (\A m \in Net!MetricsOf(rel) : then.known[m] # Absent) => AsRead(rel, x)
              => Fits(then.known, x) /\ then.violations = acc.violations

\* An inequality that is looked at has two ranges.
LEMMA TwoKnown ==
    ASSUME NEW ivs, NEW a, NEW b, ~ (Net!Cardinality(Net!Known(ivs, {a, b})) < 2)
    PROVE  ivs[a] # Absent /\ ivs[b] # Absent
<1>1. SUFFICES ASSUME NEW c \in {a, b}, ivs[c] = Absent PROVE FALSE
  OBVIOUS
<1>2. PICK d : Net!Known(ivs, {a, b}) \subseteq {d}
  BY <1>1 DEF Net!Known
<1>3. IsFiniteSet({d}) /\ Cardinality({d}) = 1
  BY FS_Singleton
<1>4. Cardinality(Net!Known(ivs, {a, b})) \in Nat /\ Cardinality(Net!Known(ivs, {a, b})) <= 1
  BY <1>2, <1>3, FS_Subset, FS_CardinalityType
<1> QED
  BY <1>1, <1>4, RelationsCount

LEMMA StepAdvances ==
    ASSUME Net!ConstraintAssumption, NEW rel \in Net!Relation, NEW acc \in Net!Report
    PROVE  Net!Step(acc, rel) = Error \/ Advances(rel, acc, Net!Step(acc, rel))
<1>1. acc.known \in Net!Narrowed /\ acc.checked \in Nat /\ acc.violations \subseteq Net!Relation
  BY DEF Net!Report
<1>2. Error \notin Net!Report /\ Error \notin Net!Verdict
  BY DEF Net!ConstraintAssumption
<1>3. CASE Net!Cardinality(Net!Known(acc.known, Net!MetricsOf(rel))) < 2
  <2>1. Net!Step(acc, rel) = acc
    BY <1>2, <1>3 DEF Net!Step
  <2> QED
    BY <1>1, <2>1 DEF Advances
<1>4. CASE ~ (Net!Cardinality(Net!Known(acc.known, Net!MetricsOf(rel))) < 2)
  <2>1. PICK r : r = IF rel.type = "inequality" THEN Net!CheckInequality(rel, acc.known)
                     ELSE Net!CheckIdentity(rel, acc.known)
    OBVIOUS
  <2>2. Net!Step(acc, rel) =
            IF r = Error THEN Error
            ELSE [known |-> r.ivs, checked |-> acc.checked + 1,
                  violations |-> IF r.ok THEN acc.violations ELSE acc.violations \union {rel}]
    BY <1>2, <1>4, <2>1 DEF Net!Step
  <2>3. r = Error \/ Sound(rel, acc.known, r)
    <3>1. CASE rel.type = "inequality"
      <4>1. Net!MetricsOf(rel) = {rel.a, rel.b}
        BY <3>1 DEF Net!MetricsOf
      <4>2. acc.known[rel.a] # Absent /\ acc.known[rel.b] # Absent
        BY <1>4, <4>1, TwoKnown
      <4> QED
        BY <1>1, <2>1, <3>1, <4>2, InequalitySounds
    <3>2. CASE rel.type # "inequality"
      <4>1. rel.type = "identity"
        BY <3>2 DEF Net!Relation
      <4> QED
        BY <1>1, <2>1, <3>2, <4>1, IdentitySounds
    <3> QED
      BY <3>1, <3>2
  <2>4. CASE r # Error
    <3>1. Sound(rel, acc.known, r)
      BY <2>3, <2>4
    <3>2. r.ivs \in Net!Narrowed /\ r.ok \in BOOLEAN
      BY <3>1 DEF Sound, Net!Verdict
    <3>3. PICK then : then = Net!Step(acc, rel)
      OBVIOUS
    <3>4. /\ then.known = r.ivs /\ then.checked = acc.checked + 1
          /\ then.violations = IF r.ok THEN acc.violations ELSE acc.violations \union {rel}
          /\ then \in Net!Report
      BY <1>1, <2>2, <2>4, <3>2, <3>3 DEF Net!Report
    <3> QED
      BY <1>1, <3>1, <3>3, <3>4 DEF Advances, Sound
  <2> QED
    BY <2>2, <2>4
<1> QED
  BY <1>3, <1>4

\* The first k relations, checked one after another from the ranges ivs, gave the report r.
Checked(k, ivs, r) ==
    /\ r \in Net!Report
    /\ r.checked <= k
    /\ \A m \in Metric : ivs[m] # Absent => r.known[m] # Absent
    /\ \A x : /\ Fits(ivs, x)
              /\ \A i \in 1 .. k : (\A m \in Net!MetricsOf(Relations[i]) : r.known[m] # Absent)
                                      => AsRead(Relations[i], x)
              => Fits(r.known, x) /\ r.violations = {}

LEMMA MetricsAreMetrics ==
    ASSUME NEW rel \in Net!Relation
    PROVE  Net!MetricsOf(rel) \subseteq Metric
<1>1. CASE rel.type = "inequality"
  BY <1>1 DEF Net!MetricsOf, Net!Relation
<1>2. CASE rel.type # "inequality"
  <2>1. rel.lhs \in Metric /\ rel.rhs \in Net!Expression \union Nested
    BY <1>2 DEF Net!Relation, Nested
  <2>2. MetricsIn(rel.rhs) \subseteq Metric
    BY <2>1, SimpleIs DEF MetricsIn, Net!Expression, Nested
  <2> QED
    BY <1>2, <2>1, <2>2 DEF Net!MetricsOf, MetricsIn
<1> QED
  BY <1>1, <1>2

\* One relation more.
LEMMA OneMoreChecked ==
    ASSUME Net!ConstraintAssumption, NEW k \in Nat, k + 1 <= Len(Relations),
           NEW ivs, NEW r, r = Error \/ Checked(k, ivs, r)
    PROVE  \/ Net!Step(r, Relations[k + 1]) = Error
           \/ Checked(k + 1, ivs, Net!Step(r, Relations[k + 1]))
<1>1. /\ \A i \in 1 .. k + 1 : Relations[i] \in Net!Relation
      /\ k + 1 \in DOMAIN Relations
  BY DEF Net!ConstraintAssumption
<1>2. CASE r = Error
  BY <1>2 DEF Net!Step
<1>3. CASE Checked(k, ivs, r)
  <2>1. PICK rel \in Net!Relation : rel = Relations[k + 1]
    BY <1>1
  <2>3. PICK then : then = Net!Step(r, rel)
    OBVIOUS
  <2>4. CASE then # Error
    <3>1. Advances(rel, r, then)
      BY <1>3, <2>3, <2>4, StepAdvances DEF Checked
    <3>2. then \in Net!Report /\ then.checked <= k + 1
      BY <1>3, <3>1 DEF Advances, Checked, Net!Report
    <3>3. \A m \in Metric : ivs[m] # Absent => then.known[m] # Absent
      BY <1>3, <3>1 DEF Advances, Checked
    <3>4. ASSUME NEW x, Fits(ivs, x),
                 \A i \in 1 .. k + 1 : (\A m \in Net!MetricsOf(Relations[i]) : then.known[m] # Absent)
                                          => AsRead(Relations[i], x)
          PROVE  Fits(then.known, x) /\ then.violations = {}
      <4>1. ASSUME NEW i \in 1 .. k, \A m \in Net!MetricsOf(Relations[i]) : r.known[m] # Absent
            PROVE  AsRead(Relations[i], x)
        <5>1. i \in 1 .. k + 1 /\ Net!MetricsOf(Relations[i]) \subseteq Metric
          BY <1>1, MetricsAreMetrics
        <5>2. \A m \in Net!MetricsOf(Relations[i]) : then.known[m] # Absent
          BY <3>1, <4>1, <5>1 DEF Advances
        <5> QED
          BY <3>4, <5>1, <5>2
      <4>2. Fits(r.known, x) /\ r.violations = {}
        BY <1>3, <3>4, <4>1 DEF Checked
      <4>3. (\A m \in Net!MetricsOf(rel) : then.known[m] # Absent) => AsRead(rel, x)
        BY <2>1, <3>4
      <4> QED
        BY <3>1, <4>2, <4>3 DEF Advances
    <3>5. Checked(k + 1, ivs, then)
      BY <3>2, <3>3, <3>4 DEF Checked
    <3> QED
      BY <2>1, <2>3, <3>5
  <2> QED
    BY <2>1, <2>3, <2>4
<1> QED
  BY <1>2, <1>3

\* The recursion of a check is that of its steps.
LEMMA AllChecked ==
    ASSUME Net!ConstraintAssumption, NEW ivs \in Net!Narrowed
    PROVE  Net!Check(ivs) = Error \/ Checked(Len(Relations), ivs, Net!Check(ivs))
<1> DEFINE n == Len(Relations)
           F == Net!Report \union {Error}
           first == Net!Start(ivs)
           f == [k \in 1 .. n |-> [r \in F |-> Net!Step(r, Relations[k])]]
           G(a) == a = [k \in 0 .. n |-> IF k = 0 THEN first ELSE Net!Step(a[k - 1], Relations[k])]
           all == CHOOSE a : G(a)
<1>1. n \in Nat /\ \A k \in 1 .. n : Relations[k] \in Net!Relation /\ k \in DOMAIN Relations
  BY DEF Net!ConstraintAssumption
<1>2. Net!Check(ivs) = all[n]
  BY DEF Net!Check
<1>3. first \in Net!Report /\ Checked(0, ivs, first)
  <2>1. first.known = ivs /\ first.checked = 0 /\ first.violations = {} /\ first \in Net!Report
    BY DEF Net!Start, Net!Report
  <2> QED
    BY <2>1 DEF Checked
<1> HIDE DEF first, n, F
<1>4. \A r \in F, k \in 1 .. n : Net!Step(r, Relations[k]) \in F
  <2> SUFFICES ASSUME NEW r \in F, NEW k \in 1 .. n PROVE Net!Step(r, Relations[k]) \in F
    OBVIOUS
  <2>1. CASE r = Error
    BY <2>1 DEF Net!Step, F
  <2>2. CASE r \in Net!Report
    <3>1. PICK rel \in Net!Relation : rel = Relations[k]
      BY <1>1
    <3>2. Net!Step(r, rel) = Error \/ Advances(rel, r, Net!Step(r, rel))
      BY <2>2, <3>1, StepAdvances
    <3> QED
      BY <3>1, <3>2 DEF Advances, F
  <2> QED
    BY <2>1, <2>2 DEF F
<1>5. f \in [1 .. n -> [F -> F]]
  BY <1>4
<1>6. first \in F
  BY <1>3 DEF F
<1>7. PICK g : Trace(g, F, first, n, f)
  <2> HIDE DEF f
  <2> QED
    BY <1>1, <1>5, <1>6, StepsExist, Zenon
<1>8. g \in [0 .. n -> F] /\ g[0] = first /\ \A k \in 1 .. n : g[k] = f[k][g[k - 1]]
  <2> HIDE DEF f
  <2> QED
    BY <1>7 DEF Trace
<1>9. \A k \in 0 .. n : g[k] = IF k = 0 THEN first ELSE Net!Step(g[k - 1], Relations[k])
  <2> SUFFICES ASSUME NEW k \in 0 .. n, k # 0 PROVE g[k] = Net!Step(g[k - 1], Relations[k])
    BY <1>8
  <2>1. k \in 1 .. n /\ k - 1 \in 0 .. n
    BY <1>1
  <2>2. g[k - 1] \in F /\ g[k] = f[k][g[k - 1]]
    BY <1>8, <2>1
  <2> QED
    BY <2>1, <2>2
<1> HIDE DEF f
<1>10. G(g)
  <2>1. g = [k \in 0 .. n |-> g[k]]
    BY <1>8
  <2> QED
    BY <1>9, <2>1
<1>11. G(all)
  <2> HIDE DEF G
  <2> QED
    BY <1>10
<1>12. \A k \in 0 .. n : all[k] = IF k = 0 THEN first ELSE Net!Step(all[k - 1], Relations[k])
  <2> HIDE DEF all
  <2> QED
    BY <1>11
<1> HIDE DEF all, G
<1> DEFINE Good == {k \in Nat : k <= n => all[k] = Error \/ Checked(k, ivs, all[k])}
<1>13. 0 \in Good
  BY <1>1, <1>3, <1>12
<1>14. ASSUME NEW k \in Nat, k \in Good PROVE k + 1 \in Good
  <2>1. SUFFICES ASSUME k + 1 <= n PROVE all[k + 1] = Error \/ Checked(k + 1, ivs, all[k + 1])
    OBVIOUS
  <2>2. k <= n /\ k + 1 \in 0 .. n /\ k + 1 # 0 /\ (k + 1) - 1 = k
    BY <1>1, <2>1
  <2>3. all[k] = Error \/ Checked(k, ivs, all[k])
    BY <1>14, <2>2
  <2>4. all[k + 1] = Net!Step(all[k], Relations[k + 1])
    BY <1>12, <2>2
  <2>5. \/ Net!Step(all[k], Relations[k + 1]) = Error
        \/ Checked(k + 1, ivs, Net!Step(all[k], Relations[k + 1]))
    BY <2>1, <2>3, OneMoreChecked DEF n
  <2> QED
    BY <2>4, <2>5
<1>15. n \in Good
  <2>1. Nat \subseteq Good
    <3> HIDE DEF Good
    <3> QED
      BY <1>13, <1>14, CountingUp
  <2> HIDE DEF Good
  <2> QED
    BY <1>1, <2>1
<1>16. all[n] = Error \/ Checked(n, ivs, all[n])
  BY <1>1, <1>15
<1> QED
  BY <1>2, <1>16 DEF n

\* The ranges given are the caller's, and the answer is that of a check of them.
NetInv ==
    /\ given \in [Metric -> Ranges \union {Absent}]
    /\ report # Absent => report = Net!Check(given)

\* Every inequality that the call could look at is written with the greater side first.
GreaterFirst == \A i \in Net!Looked : Relations[i].type = "inequality" => Relations[i].sign = ">="

LEMMA NetAnswers ==
    ASSUME Net!ConstraintAssumption, NetInv
    PROVE  Net!TypeOK /\ (GreaterFirst => Net!NoSolutionIsLost)
<1>1. given \in Net!Narrowed
  BY DEF NetInv, Net!Narrowed, Net!ConstraintAssumption
<1>2. report \notin {Absent, Error} => Checked(Len(Relations), given, report)
  BY <1>1, AllChecked DEF NetInv
<1>3. Net!TypeOK
  <2>1. \A m \in Metric : given[m] \in Ranges \union {Absent}
    BY DEF NetInv
  <2>2. report \notin {Absent, Error} => report.checked \in 0 .. Len(Relations)
    BY <1>2 DEF Checked, Net!Report, Net!ConstraintAssumption
  <2> QED
    BY <2>1, <2>2 DEF Net!TypeOK
<1>4. ASSUME GreaterFirst, report \notin {Absent, Error}, NEW x \in Net!Solutions
      PROVE  Fits(report.known, x) /\ report.violations = {}
  <2>1. /\ x \in [Net!KnownNow -> Sample]
        /\ \A m \in Net!KnownNow : given[m] # Absent => Net!Holds(given[m], x[m])
        /\ \A i \in Net!Looked : Net!Satisfies(Relations[i], x)
    BY <1>4 DEF Net!Solutions, Net!Points
  <2>2. Net!KnownNow = {m \in Metric : report.known[m] # Absent}
    BY DEF Net!KnownNow, Net!Known
  <2>3. Fits(given, x)
    <3>1. \A m \in Metric : given[m] # Absent => m \in Net!KnownNow
      BY <1>2, <1>4, <2>2 DEF Checked
    <3>2. Sample \subseteq Int
      BY DEF Net!ConstraintAssumption
    <3> QED
      BY <2>1, <3>1, <3>2 DEF Fits
  <2>4. ASSUME NEW i \in 1 .. Len(Relations), \A m \in Net!MetricsOf(Relations[i]) : report.known[m] # Absent
        PROVE  AsRead(Relations[i], x)
    <3>1. DOMAIN Relations = 1 .. Len(Relations) /\ Relations[i] \in Net!Relation
      BY DEF Net!ConstraintAssumption
    <3>2. Net!MetricsOf(Relations[i]) \subseteq Net!KnownNow
      BY <2>2, <2>4, <3>1, MetricsAreMetrics
    <3>3. i \in Net!Looked
      BY <3>1, <3>2 DEF Net!Looked
    <3>4. Net!Satisfies(Relations[i], x)
      BY <2>1, <3>3
    <3>5. Relations[i].type = "inequality" => Relations[i].sign = ">="
      BY <1>4, <3>3 DEF GreaterFirst
    <3> QED
      BY <3>4, <3>5 DEF AsRead, Net!Satisfies
  <2> QED
    BY <1>2, <1>4, <2>3, <2>4 DEF Checked
<1>5. ASSUME GreaterFirst PROVE Net!NoSolutionIsLost
  <2>1. SUFFICES ASSUME report \notin {Absent, Error}
                 PROVE  /\ \A x \in Net!Solutions : \A m \in Net!KnownNow : Net!Holds(report.known[m], x[m])
                        /\ report.violations # {} => Net!Solutions = {}
    BY DEF Net!NoSolutionIsLost
  <2>2. \A m \in Net!KnownNow : m \in Metric /\ report.known[m] # Absent
    BY DEF Net!KnownNow, Net!Known
  <2> QED
    BY <1>4, <1>5, <2>1, <2>2 DEF Fits
<1> QED
  BY <1>3, <1>5

\* Whatever relations are declared and whatever ranges are given, a point of the given ranges that
\* satisfies every relation the check could look at lies in the narrowed ranges and in the derived
\* ones, and where there is one no relation is reported violated; unless an inequality among these
\* is written with the lesser side first, as the check reads each the other way (the ontology has
\* one such).
THEOREM NarrowingIsSound ==
    ASSUME Net!ConstraintAssumption
    PROVE  Net!Spec => [](Net!TypeOK /\ (GreaterFirst => Net!NoSolutionIsLost))
<1>1. Net!Init => NetInv
  BY DEF Net!Init, NetInv
<1>2. NetInv /\ [Net!Next]_Net!vars => NetInv'
  <2> SUFFICES ASSUME NetInv, [Net!Next]_Net!vars PROVE NetInv'
    OBVIOUS
  <2>1. CASE Net!CheckConstraints
    BY <2>1 DEF Net!CheckConstraints, NetInv
  <2>2. ASSUME NEW m \in Metric, NEW iv \in Ranges, Net!Give(m, iv) PROVE NetInv'
    BY <2>2 DEF Net!Give, NetInv
  <2>3. CASE UNCHANGED Net!vars
    BY <2>3 DEF Net!vars, NetInv
  <2> QED
    BY <2>1, <2>2, <2>3 DEF Net!Next
<1>3. NetInv => Net!TypeOK /\ (GreaterFirst => Net!NoSolutionIsLost)
  BY NetAnswers
<1> QED
  BY <1>1, <1>2, <1>3, PTL DEF Net!Spec
-----------------------------------------------------------------------------
(* Trees                                                                   *)

CONSTANTS Hint, Limits, Operation, LeafRange, MaxTrees, MaxChildren, Far, Infinity

VARIABLES trees, fitted, evaluation

Fermi == INSTANCE Fermi WITH answer <- evaluation

\* F gives, for a number and a function, a value that depends on those of greater numbers only.
FromAbove(F, S, n) ==
    /\ F \in [1 .. n -> [[1 .. n -> S] -> S]]
    /\ \A t \in 1 .. n : \A g, h \in [1 .. n -> S] :
            (\A u \in 1 .. n : u > t => g[u] = h[u]) => F[t][g] = F[t][h]

Solves(g, F, S, n) == g \in [1 .. n -> S] /\ \A t \in 1 .. n : g[t] = F[t][g]

\* A function that is defined like this exists.
LEMMA RecursionExists ==
    ASSUME NEW S, NEW any \in S, NEW n \in Nat, NEW F, FromAbove(F, S, n)
    PROVE  \E g : Solves(g, F, S, n)
<1> DEFINE G == [1 .. n -> S]
           base == [u \in 1 .. n |-> any]
           f == [i \in 1 .. n |-> [g \in G |-> [g EXCEPT ![n - i + 1] = F[n - i + 1][g]]]]
<1>f. /\ F \in [1 .. n -> [[1 .. n -> S] -> S]]
      /\ \A t \in 1 .. n : \A g, h \in G : (\A u \in 1 .. n : u > t => g[u] = h[u]) => F[t][g] = F[t][h]
  BY DEF FromAbove
<1>1. base \in G
  OBVIOUS
<1>2. f \in [1 .. n -> [G -> G]]
  <2> SUFFICES ASSUME NEW i \in 1 .. n, NEW g \in G
               PROVE  [g EXCEPT ![n - i + 1] = F[n - i + 1][g]] \in G
    OBVIOUS
  <2>1. n - i + 1 \in 1 .. n
    OBVIOUS
  <2>2. F[n - i + 1][g] \in S
    BY <1>f, <2>1
  <2> QED
    BY <2>2
<1>3. PICK a : Trace(a, G, base, n, f)
  <2> HIDE DEF G, base, f
  <2> QED
    BY <1>1, <1>2, StepsExist, Zenon
<1>4. a \in [0 .. n -> G] /\ \A i \in 1 .. n : a[i] = f[i][a[i - 1]]
  <2> HIDE DEF G, base, f
  <2> QED
    BY <1>3 DEF Trace
<1> DEFINE Done(i) == \A t \in 1 .. n : t > n - i => a[i][t] = F[t][a[i]]
           Reached == {i \in Nat : i <= n => Done(i)}
<1>5. 0 \in Reached
  OBVIOUS
<1>6. ASSUME NEW i \in Nat, i \in Reached PROVE i + 1 \in Reached
  <2>1. SUFFICES ASSUME i + 1 <= n PROVE Done(i + 1)
    <3> HIDE DEF Done
    <3> QED
      OBVIOUS
  <2>2. Done(i)
    <3> HIDE DEF Done
    <3> QED
      BY <1>6, <2>1
  <2>3. /\ i + 1 \in 1 .. n /\ (i + 1) - 1 = i /\ i \in 0 .. n /\ i + 1 \in 0 .. n
        /\ n - (i + 1) + 1 = n - i /\ n - i \in 1 .. n
    BY <2>1
  <2>4. a[i] \in G /\ a[i + 1] \in G
    BY <1>4, <2>3
  <2>5. a[i + 1] = [a[i] EXCEPT ![n - i] = F[n - i][a[i]]]
    <3>1. a[i + 1] = f[i + 1][a[i]]
      <4> HIDE DEF f
      <4> QED
        BY <1>4, <2>3
    <3>2. f[i + 1][a[i]] = [a[i] EXCEPT ![n - (i + 1) + 1] = F[n - (i + 1) + 1][a[i]]]
      BY <2>3, <2>4
    <3> QED
      BY <2>3, <3>1, <3>2
  <2>6. /\ a[i + 1][n - i] = F[n - i][a[i]]
        /\ \A u \in 1 .. n : u # n - i => a[i + 1][u] = a[i][u]
    BY <2>3, <2>4, <2>5
  <2>7. ASSUME NEW t \in 1 .. n, t > n - (i + 1) PROVE a[i + 1][t] = F[t][a[i + 1]]
    <3>1. \A u \in 1 .. n : u > t => u # n - i
      BY <2>3, <2>7
    <3>2. F[t][a[i]] = F[t][a[i + 1]]
      BY <1>f, <2>4, <2>6, <3>1
    <3>3. t = n - i \/ (t > n - i /\ t # n - i)
      BY <2>3, <2>7
    <3> QED
      BY <2>2, <2>6, <3>2, <3>3
  <2> QED
    BY <2>7
<1>7. n \in Reached
  <2>1. Nat \subseteq Reached
    <3> HIDE DEF Reached
    <3> QED
      BY <1>5, <1>6, CountingUp
  <2> HIDE DEF Reached
  <2> QED
    BY <2>1
<1>8. a[n] \in G /\ \A t \in 1 .. n : a[n][t] = F[t][a[n]]
  BY <1>4, <1>7
<1> QED
  BY <1>8 DEF Solves

\* Values folded from the first, by steps that stay within S.
Folding(a, s, f) == a[1] = s[1] /\ \A i \in DOMAIN s : i # 1 => a[i] = f[i][a[i - 1]]

LEMMA FoldExists ==
    ASSUME NEW S, NEW s \in Seq(S), s # <<>>, NEW f \in [DOMAIN s -> [S -> S]]
    PROVE  \E a \in [DOMAIN s -> S] : Folding(a, s, f)
<1> DEFINE n == Len(s)
           first == s[1]
           step == [i \in 1 .. (n - 1) |-> f[i + 1]]
<1>1. n \in Nat /\ n >= 1 /\ DOMAIN s = 1 .. n /\ n - 1 \in Nat
  OBVIOUS
<1>2. first \in S
  BY <1>1
<1>3. step \in [1 .. (n - 1) -> [S -> S]]
  BY <1>1
<1>4. PICK g : Trace(g, S, first, n - 1, step)
  <2> HIDE DEF first, step, n
  <2> QED
    BY <1>1, <1>2, <1>3, StepsExist, Zenon
<1>5. g \in [0 .. (n - 1) -> S] /\ g[0] = first /\ \A i \in 1 .. (n - 1) : g[i] = step[i][g[i - 1]]
  <2> HIDE DEF first, step, n
  <2> QED
    BY <1>4 DEF Trace
<1> HIDE DEF n, first
<1> DEFINE a == [i \in DOMAIN s |-> g[i - 1]]
<1>6. a \in [DOMAIN s -> S]
  <2>1. \A i \in 1 .. n : i - 1 \in 0 .. (n - 1)
    BY <1>1
  <2> QED
    BY <1>1, <1>5, <2>1
<1>7. a[1] = s[1]
  BY <1>1, <1>5 DEF first
<1>8. ASSUME NEW i \in DOMAIN s, i # 1 PROVE a[i] = f[i][a[i - 1]]
  <2>1. i - 1 \in 1 .. (n - 1) /\ i - 1 \in DOMAIN s /\ (i - 1) + 1 = i
    BY <1>1, <1>8
  <2>2. g[i - 1] = f[i][g[(i - 1) - 1]]
    BY <1>5, <2>1
  <2> QED
    BY <2>1, <2>2
<1> QED
  BY <1>6, <1>7, <1>8 DEF Folding

Ops == {"multiply", "add", "subtract", "divide"}
Ranged == Net!Interval \union {Error}

\* The arithmetic of ranges is one for trees and relations.
LEMMA SameArithmetic ==
    /\ Fermi!Interval = Net!Interval
    /\ \A a, b : /\ Fermi!Times(a, b) = Net!Times(a, b) /\ Fermi!Plus(a, b) = Net!Plus(a, b)
                 /\ Fermi!Less(a, b) = Net!Less(a, b) /\ Fermi!Over(a, b) = Net!Over(a, b)
                 /\ Fermi!Div(a, b) = Net!Div(a, b) /\ Fermi!Holds(a, b) = Net!Holds(a, b)
    /\ \A a : Fermi!HoldsZero(a) = Net!HoldsZero(a)
<1>1. \A S : Fermi!Min(S) = Net!Min(S) /\ Fermi!Max(S) = Net!Max(S)
  BY DEF Fermi!Min, Net!Min, Fermi!Max, Net!Max
<1>2. \A a, b : Fermi!Iv(a, b) = Net!Iv(a, b) /\ Fermi!Div(a, b) = Net!Div(a, b)
  BY DEF Fermi!Iv, Net!Iv, Fermi!Div, Net!Div
<1>3. \A S : Fermi!Spanning(S) = Net!Spanning(S)
  BY <1>1, <1>2 DEF Fermi!Spanning, Net!Spanning
<1>4. \A a, b : Fermi!Times(a, b) = Net!Times(a, b)
  BY <1>3 DEF Fermi!Times, Net!Times
<1>5. \A a, b : Fermi!Over(a, b) = Net!Over(a, b)
  BY <1>2, <1>3 DEF Fermi!Over, Net!Over
<1>6. \A a, b : Fermi!Plus(a, b) = Net!Plus(a, b) /\ Fermi!Less(a, b) = Net!Less(a, b)
  BY <1>2 DEF Fermi!Plus, Net!Plus, Fermi!Less, Net!Less
<1>7. /\ \A a, b : Fermi!Holds(a, b) = Net!Holds(a, b)
      /\ \A a : Fermi!HoldsZero(a) = Net!HoldsZero(a)
      /\ Fermi!Interval = Net!Interval
  BY DEF Fermi!Holds, Net!Holds, Fermi!HoldsZero, Net!HoldsZero, Fermi!Interval, Net!Interval
<1> QED
  BY <1>2, <1>4, <1>5, <1>6, <1>7

\* A quotient is a number.
LEMMA DivIsInt == \A x \in Int : \A y \in Int \ {0} : Net!Div(x, y) \in Int
<1> TAKE x \in Int
<1> TAKE y \in Int \ {0}
<1>1. CASE y > 0
  BY <1>1, QuotientIs DEF Net!Div
<1>2. CASE ~ (y > 0)
  <2>1. -x \in Int /\ -y \in Nat \ {0}
    BY <1>2
  <2>2. (-x) \div (-y) \in Int
    BY <2>1, QuotientIs
  <2> QED
    BY <1>2, <2>2 DEF Net!Div
<1> QED
  BY <1>1, <1>2

\* Two ranges combined hold what numbers of them make, if there is a result.
LEMMA CombineIs ==
    ASSUME Infinity \notin Int, NEW op \in Ops, NEW A \in Ranged, NEW B \in Ranged
    PROVE  /\ Fermi!Combine(op, A, B) \in Ranged
           /\ Fermi!Combine(op, A, B) # Error =>
                /\ A # Error /\ B # Error
                /\ \A x, y \in Int : Net!Holds(A, x) /\ Net!Holds(B, y) =>
                        /\ Fermi!SampleOp(op, x, y) \in Int
                        /\ Net!Holds(Fermi!Combine(op, A, B), Fermi!SampleOp(op, x, y))
<1>1. CASE Error \in {A, B}
  BY <1>1 DEF Fermi!Combine, Ranged
<1>2. CASE Error \notin {A, B}
  <2>1. A \in Net!Interval /\ B \in Net!Interval
    BY <1>2 DEF Ranged
  <2>2. A.lo \in Int /\ B.lo \in Int /\ Net!Holds(A, A.lo) /\ Net!Holds(B, B.lo)
    BY <2>1 DEF Net!Interval, Net!Holds
  <2>3. \A x, y \in Int : Infinity \notin {x, y}
    OBVIOUS
  <2>4. CASE op = "multiply"
    <3>1. /\ Fermi!Combine(op, A, B) = Net!Times(A, B)
          /\ \A x, y \in Int : Fermi!SampleOp(op, x, y) = x * y
      BY <1>2, <2>3, <2>4, SameArithmetic DEF Fermi!Combine, Fermi!SampleOp
    <3>2. Net!Times(A, B) \in Net!Interval
      BY <2>1, <2>2, ProductHolds
    <3>3. \A x, y \in Int : Net!Holds(A, x) /\ Net!Holds(B, y) => x * y \in Int /\ Net!Holds(Net!Times(A, B), x * y)
      BY <2>1, ProductHolds
    <3> QED
      BY <1>2, <3>1, <3>2, <3>3 DEF Ranged
  <2>5. CASE op = "add"
    <3>1. /\ Fermi!Combine(op, A, B) = Net!Plus(A, B)
          /\ \A x, y \in Int : Fermi!SampleOp(op, x, y) = x + y
      BY <1>2, <2>3, <2>5, SameArithmetic DEF Fermi!Combine, Fermi!SampleOp
    <3>2. Net!Plus(A, B) \in Net!Interval
      BY <2>1, <2>2, SumHolds
    <3>3. \A x, y \in Int : Net!Holds(A, x) /\ Net!Holds(B, y) => x + y \in Int /\ Net!Holds(Net!Plus(A, B), x + y)
      BY <2>1, SumHolds
    <3> QED
      BY <1>2, <3>1, <3>2, <3>3 DEF Ranged
  <2>6. CASE op = "subtract"
    <3>1. /\ Fermi!Combine(op, A, B) = Net!Less(A, B)
          /\ \A x, y \in Int : Fermi!SampleOp(op, x, y) = x - y
      BY <1>2, <2>3, <2>6, SameArithmetic DEF Fermi!Combine, Fermi!SampleOp
    <3>2. Net!Less(A, B) \in Net!Interval
      BY <2>1, <2>2, SumHolds
    <3>3. \A x, y \in Int : Net!Holds(A, x) /\ Net!Holds(B, y) => x - y \in Int /\ Net!Holds(Net!Less(A, B), x - y)
      BY <2>1, SumHolds
    <3> QED
      BY <1>2, <3>1, <3>2, <3>3 DEF Ranged
  <2>7. CASE op = "divide" /\ Net!HoldsZero(B)
    BY <1>2, <2>7, SameArithmetic DEF Fermi!Combine, Ranged
  <2>8. CASE op = "divide" /\ ~ Net!HoldsZero(B)
    <3>1. Fermi!Combine(op, A, B) = Net!Over(A, B)
      BY <1>2, <2>8, SameArithmetic DEF Fermi!Combine
    <3>2. Net!Over(A, B) \in Net!Interval
      BY <2>1, <2>2, <2>8, QuotientHolds
    <3>3. ASSUME NEW x \in Int, NEW y \in Int, Net!Holds(A, x), Net!Holds(B, y)
          PROVE  Fermi!SampleOp(op, x, y) \in Int /\ Net!Holds(Net!Over(A, B), Fermi!SampleOp(op, x, y))
      <4>1. y # 0
        BY <2>1, <2>8, <3>3 DEF Net!HoldsZero, Net!Holds
      <4>2. Fermi!SampleOp(op, x, y) = Net!Div(x, y)
        BY <2>3, <2>8, <4>1, SameArithmetic DEF Fermi!SampleOp
      <4> QED
        BY <2>1, <2>8, <3>3, <4>1, <4>2, DivIsInt, QuotientHolds
    <3> QED
      BY <1>2, <3>1, <3>2, <3>3 DEF Ranged
  <2> QED
    BY <2>4, <2>5, <2>6, <2>7, <2>8 DEF Ops
<1> QED
  BY <1>1, <1>2

\* Samples are numbers or infinite.
Sampled == Int \union {Infinity}

LEMMA SampleIs ==
    ASSUME NEW op \in Ops, NEW x \in Sampled, NEW y \in Sampled
    PROVE  Fermi!SampleOp(op, x, y) \in Sampled
<1>1. CASE Infinity \in {x, y}
  BY <1>1 DEF Fermi!SampleOp, Sampled
<1>2. CASE Infinity \notin {x, y}
  <2>1. x \in Int /\ y \in Int
    BY <1>2 DEF Sampled
  <2>2. CASE op = "divide"
    BY <1>2, <2>1, <2>2, DivIsInt, SameArithmetic DEF Fermi!SampleOp, Sampled
  <2>3. CASE op = "multiply"
    <3>1. x * y \in Int
      BY <2>1
    <3> QED
      BY <1>2, <2>3, <3>1 DEF Fermi!SampleOp, Sampled
  <2>4. CASE op = "add"
    BY <1>2, <2>1, <2>4 DEF Fermi!SampleOp, Sampled
  <2>5. CASE op = "subtract"
    BY <1>2, <2>1, <2>5 DEF Fermi!SampleOp, Sampled
  <2> QED
    BY <2>2, <2>3, <2>4, <2>5 DEF Ops
<1> QED
  BY <1>1, <1>2

\* A row that is folded by such steps where it is within S, is within S.
LEMMA FoldStays ==
    ASSUME NEW S, NEW s \in Seq(S), s # <<>>, NEW a, a[1] = s[1],
           \A i \in DOMAIN s : i # 1 /\ a[i - 1] \in S => a[i] \in S
    PROVE  \A i \in DOMAIN s : a[i] \in S
<1>1. DOMAIN s = 1 .. Len(s) /\ Len(s) \in Nat /\ 1 \in DOMAIN s
  OBVIOUS
<1> DEFINE Good == {k \in Nat : k + 1 \in DOMAIN s => a[k + 1] \in S}
<1>2. 0 \in Good
  BY <1>1
<1>3. ASSUME NEW k \in Nat, k \in Good PROVE k + 1 \in Good
  <2>1. SUFFICES ASSUME k + 1 + 1 \in DOMAIN s PROVE a[k + 1 + 1] \in S
    OBVIOUS
  <2>2. k + 1 \in DOMAIN s /\ k + 1 + 1 # 1 /\ (k + 1 + 1) - 1 = k + 1
    BY <1>1, <2>1
  <2> QED
    BY <1>3, <2>1, <2>2
<1>4. Nat \subseteq Good
  <2> HIDE DEF Good
  <2> QED
    BY <1>2, <1>3, CountingUp
<1> SUFFICES ASSUME NEW i \in DOMAIN s PROVE a[i] \in S
  OBVIOUS
<1>5. i - 1 \in Nat /\ (i - 1) + 1 = i
  BY <1>1
<1>6. i - 1 \in Good
  <2> HIDE DEF Good
  <2> QED
    BY <1>4, <1>5
<1> QED
  BY <1>5, <1>6

\* What holds of a number when it holds of the greater ones holds of all.
LEMMA CountingDown ==
    ASSUME NEW n \in Nat, NEW T,
           \A t \in 1 .. n : (\A u \in 1 .. n : u > t => u \in T) => t \in T
    PROVE  1 .. n \subseteq T
<1> DEFINE Good == {k \in Nat : \A t \in 1 .. n : t > n - k => t \in T}
<1>1. 0 \in Good
  OBVIOUS
<1>2. ASSUME NEW k \in Nat, k \in Good PROVE k + 1 \in Good
  <2> SUFFICES ASSUME NEW t \in 1 .. n, t > n - (k + 1) PROVE t \in T
    OBVIOUS
  <2>1. \A u \in 1 .. n : u > t => u > n - k
    OBVIOUS
  <2> QED
    BY <1>2, <2>1
<1>3. n \in Good
  <2>1. Nat \subseteq Good
    <3> HIDE DEF Good
    <3> QED
      BY <1>1, <1>2, CountingUp
  <2> HIDE DEF Good
  <2> QED
    BY <2>1
<1> QED
  BY <1>3

\* What combining one after another is: the last of a row of ranges, each the one before combined
\* with the next child.
Combining(a, op, kids) ==
    /\ a[1] = kids[1]
    /\ \A i \in DOMAIN kids : /\ a[i] \in Ranged
                              /\ i # 1 => a[i] = Fermi!Combine(op, a[i - 1], kids[i])

LEMMA CombinedIs ==
    ASSUME Infinity \notin Int, NEW op \in Ops, NEW kids \in Seq(Ranged), kids # <<>>
    PROVE  \E a : Combining(a, op, kids) /\ Fermi!Combined(op, kids) = a[Len(kids)]
<1> DEFINE f == [i \in DOMAIN kids |-> [A \in Ranged |-> Fermi!Combine(op, A, kids[i])]]
           G(a) == a = [i \in DOMAIN kids |-> IF i = 1 THEN kids[1] ELSE Fermi!Combine(op, a[i - 1], kids[i])]
           all == CHOOSE a : G(a)
<1>1. DOMAIN kids = 1 .. Len(kids) /\ Len(kids) \in Nat /\ \A i \in DOMAIN kids : kids[i] \in Ranged
  OBVIOUS
<1>2. Fermi!Combined(op, kids) = all[Len(kids)]
  BY DEF Fermi!Combined
<1>3. f \in [DOMAIN kids -> [Ranged -> Ranged]]
  BY <1>1, CombineIs
<1>4. PICK a \in [DOMAIN kids -> Ranged] : Folding(a, kids, f)
  <2> HIDE DEF f
  <2> QED
    BY <1>3, FoldExists
<1>5. \A i \in DOMAIN kids : a[i] = IF i = 1 THEN kids[1] ELSE Fermi!Combine(op, a[i - 1], kids[i])
  <2> SUFFICES ASSUME NEW i \in DOMAIN kids, i # 1 PROVE a[i] = Fermi!Combine(op, a[i - 1], kids[i])
    BY <1>4 DEF Folding
  <2>1. i - 1 \in DOMAIN kids
    BY <1>1
  <2>2. a[i - 1] \in Ranged /\ a[i] = f[i][a[i - 1]]
    <3> HIDE DEF f
    <3> QED
      BY <1>4, <2>1 DEF Folding
  <2> QED
    BY <2>2
<1> HIDE DEF f
<1>6. G(a)
  <2>1. a = [i \in DOMAIN kids |-> a[i]]
    OBVIOUS
  <2> QED
    BY <1>5, <2>1
<1>7. G(all)
  <2> HIDE DEF G
  <2> QED
    BY <1>6
<1>8. \A i \in DOMAIN kids : all[i] = IF i = 1 THEN kids[1] ELSE Fermi!Combine(op, all[i - 1], kids[i])
  <2> HIDE DEF all
  <2> QED
    BY <1>7
<1> HIDE DEF all, G
<1>9. 1 \in DOMAIN kids /\ all[1] = kids[1]
  BY <1>1, <1>8
<1>10. \A i \in DOMAIN kids : i # 1 /\ all[i - 1] \in Ranged => all[i] \in Ranged
  BY <1>1, <1>8, CombineIs
<1>11. \A i \in DOMAIN kids : all[i] \in Ranged
  BY <1>9, <1>10, FoldStays
<1> QED
  BY <1>2, <1>8, <1>9, <1>11 DEF Combining

LEMMA AppliedIs ==
    ASSUME NEW op \in Ops, NEW A \in SUBSET Sampled, NEW B \in SUBSET Sampled
    PROVE  Fermi!ApplySamples(op, A, B) \subseteq Sampled
BY SampleIs DEF Fermi!ApplySamples

\* The same of the samples.
Sampling(a, op, kids) ==
    /\ a[1] = kids[1]
    /\ \A i \in DOMAIN kids :
            i # 1 => a[i] = Fermi!ApplySamples(op, a[i - 1], kids[i])

LEMMA SamplesCombinedIs ==
    ASSUME NEW op \in Ops, NEW kids \in Seq(SUBSET Sampled), kids # <<>>
    PROVE  /\ Fermi!SamplesCombined(op, kids) \subseteq Sampled
           /\ \E a : Sampling(a, op, kids) /\ Fermi!SamplesCombined(op, kids) = a[Len(kids)]
<1> DEFINE S == SUBSET Sampled
           f == [i \in DOMAIN kids |-> [A \in S |-> Fermi!ApplySamples(op, A, kids[i])]]
           G(a) == a = [i \in DOMAIN kids |-> IF i = 1 THEN kids[1]
                                              ELSE Fermi!ApplySamples(op, a[i - 1], kids[i])]
           all == CHOOSE a : G(a)
<1>1. DOMAIN kids = 1 .. Len(kids) /\ Len(kids) \in Nat /\ \A i \in DOMAIN kids : kids[i] \in S
  OBVIOUS
<1>2. Fermi!SamplesCombined(op, kids) = all[Len(kids)]
  BY DEF Fermi!SamplesCombined
<1>3. f \in [DOMAIN kids -> [S -> S]]
  <2> SUFFICES ASSUME NEW i \in DOMAIN kids, NEW A \in S
               PROVE  Fermi!ApplySamples(op, A, kids[i]) \in S
    OBVIOUS
  <2> QED
    BY <1>1, AppliedIs
<1>4. PICK a \in [DOMAIN kids -> S] : Folding(a, kids, f)
  <2> HIDE DEF f, S
  <2> QED
    BY <1>3, FoldExists DEF S
<1>5. \A i \in DOMAIN kids : a[i] = IF i = 1 THEN kids[1]
                                    ELSE Fermi!ApplySamples(op, a[i - 1], kids[i])
  <2> SUFFICES ASSUME NEW i \in DOMAIN kids, i # 1
               PROVE  a[i] = Fermi!ApplySamples(op, a[i - 1], kids[i])
    BY <1>4 DEF Folding
  <2>1. i - 1 \in DOMAIN kids
    BY <1>1
  <2>2. a[i - 1] \in S /\ a[i] = f[i][a[i - 1]]
    <3> HIDE DEF f
    <3> QED
      BY <1>4, <2>1 DEF Folding
  <2> QED
    BY <2>2
<1> HIDE DEF f
<1>6. G(a)
  <2>1. a = [i \in DOMAIN kids |-> a[i]]
    OBVIOUS
  <2> QED
    BY <1>5, <2>1
<1>7. G(all)
  <2> HIDE DEF G
  <2> QED
    BY <1>6
<1>8. \A i \in DOMAIN kids : all[i] = IF i = 1 THEN kids[1]
                                      ELSE Fermi!ApplySamples(op, all[i - 1], kids[i])
  <2> HIDE DEF all
  <2> QED
    BY <1>7
<1> HIDE DEF all, G
<1>9. 1 \in DOMAIN kids /\ Len(kids) \in DOMAIN kids /\ all[1] = kids[1]
  BY <1>1, <1>8
<1>10. \A i \in DOMAIN kids : i # 1 /\ all[i - 1] \in S => all[i] \in S
  <2> SUFFICES ASSUME NEW i \in DOMAIN kids, i # 1, all[i - 1] \in S PROVE all[i] \in S
    OBVIOUS
  <2>1. all[i] = Fermi!ApplySamples(op, all[i - 1], kids[i])
    BY <1>8
  <2> QED
    BY <1>1, <2>1, AppliedIs
<1>11. \A i \in DOMAIN kids : all[i] \in S
  <2> HIDE DEF S
  <2> QED
    BY <1>9, <1>10, FoldStays DEF S
<1> QED
  BY <1>2, <1>8, <1>9, <1>11 DEF Sampling

\* What a sum is: the last of a row that adds one number after another.
Adding(a, kids) == a[0] = 0 /\ \A i \in 1 .. Len(kids) : a[i] = a[i - 1] + kids[i] /\ a[i] \in Nat

LEMMA TotalIs ==
    ASSUME NEW kids \in Seq(Nat)
    PROVE  /\ Fermi!Total(kids) \in Nat
           /\ \E a : Adding(a, kids) /\ Fermi!Total(kids) = a[Len(kids)]
<1> DEFINE n == Len(kids)
           f == [i \in 1 .. n |-> [k \in Nat |-> k + kids[i]]]
           G(a) == a = [i \in 0 .. n |-> IF i = 0 THEN 0 ELSE a[i - 1] + kids[i]]
           all == CHOOSE a : G(a)
<1>1. n \in Nat
  OBVIOUS
<1>2. Fermi!Total(kids) = all[n]
  BY DEF Fermi!Total
<1> HIDE DEF n
<1>3. f \in [1 .. n -> [Nat -> Nat]]
  BY DEF n
<1>4. PICK a : Trace(a, Nat, 0, n, f)
  <2> HIDE DEF f
  <2> QED
    BY <1>1, <1>3, StepsExist, Zenon
<1>5. a \in [0 .. n -> Nat] /\ a[0] = 0 /\ \A i \in 1 .. n : a[i] = f[i][a[i - 1]]
  <2> HIDE DEF f
  <2> QED
    BY <1>4 DEF Trace
<1>6. \A i \in 1 .. n : a[i] = a[i - 1] + kids[i]
  <2> SUFFICES ASSUME NEW i \in 1 .. n PROVE a[i] = a[i - 1] + kids[i]
    OBVIOUS
  <2>1. i - 1 \in 0 .. n
    BY <1>1
  <2>2. a[i - 1] \in Nat /\ a[i] = f[i][a[i - 1]]
    <3> HIDE DEF f
    <3> QED
      BY <1>5, <2>1
  <2> QED
    BY <2>2
<1> HIDE DEF f
<1>7. G(a)
  <2>1. a = [i \in 0 .. n |-> a[i]]
    BY <1>5
  <2>2. \A i \in 0 .. n : i # 0 => i \in 1 .. n
    BY <1>1
  <2> QED
    BY <1>5, <1>6, <2>1, <2>2
<1>8. G(all)
  <2> HIDE DEF G
  <2> QED
    BY <1>7
<1>9. \A i \in 0 .. n : all[i] = IF i = 0 THEN 0 ELSE all[i - 1] + kids[i]
  <2> HIDE DEF all
  <2> QED
    BY <1>8
<1> HIDE DEF all, G
<1>10. all[0] = 0 /\ \A i \in 1 .. n : all[i] = all[i - 1] + kids[i]
  <2>1. 0 \in 0 .. n /\ \A i \in 1 .. n : i \in 0 .. n /\ i # 0
    BY <1>1
  <2> QED
    BY <1>9, <2>1
<1> DEFINE Good == {i \in Nat : i <= n => all[i] \in Nat}
<1>11. 0 \in Good
  BY <1>10
<1>12. ASSUME NEW i \in Nat, i \in Good PROVE i + 1 \in Good
  <2>1. SUFFICES ASSUME i + 1 <= n PROVE all[i + 1] \in Nat
    OBVIOUS
  <2>2. i + 1 \in 1 .. n /\ (i + 1) - 1 = i /\ all[i] \in Nat
    BY <1>1, <1>12, <2>1
  <2> QED
    BY <1>10, <2>2 DEF n
<1>13. \A i \in 0 .. n : all[i] \in Nat
  <2>1. Nat \subseteq Good
    <3> HIDE DEF Good
    <3> QED
      BY <1>11, <1>12, CountingUp
  <2> SUFFICES ASSUME NEW i \in 0 .. n PROVE all[i] \in Nat
    OBVIOUS
  <2>2. i \in Nat /\ i <= n
    BY <1>1
  <2>3. i \in Good
    <3> HIDE DEF Good
    <3> QED
      BY <2>1, <2>2
  <2> QED
    BY <2>2, <2>3
<1>14. \A i \in 1 .. n : i \in 0 .. n
  BY <1>1
<1> QED
  BY <1>1, <1>2, <1>10, <1>13, <1>14 DEF Adding, n

-----------------------------------------------------------------------------
(* The trees as they stand *)

Child == Fermi!Leaf \union [type : {"subtree"}, id : Nat]
TreeNode == [op : Operation, children : Seq(Child), evaluated : BOOLEAN, result : Ranged \union {Absent}]
Distribution == [kind : {"uniform", "beta", "lognormal"}, iv : Net!Interval]

\* A subtree is younger than its parent.
Younger ==
    \A t \in DOMAIN trees : \A i \in DOMAIN trees[t].children :
        trees[t].children[i].type = "subtree" =>
            trees[t].children[i].id > t /\ trees[t].children[i].id \in DOMAIN trees

Forest == trees \in Seq(TreeNode) /\ Younger

FitsTyped == fitted \in [Variable -> Distribution \union {Absent}]

LEMMA NodeIs ==
    ASSUME Fermi!FermiAssumption, Forest, NEW t \in DOMAIN trees
    PROVE  /\ DOMAIN trees = 1 .. Len(trees) /\ Len(trees) \in Nat
           /\ trees[t].op \in Ops /\ trees[t].children \in Seq(Child)
           /\ \A i \in DOMAIN trees[t].children :
                \/ trees[t].children[i].type = "leaf" /\ trees[t].children[i] \in Fermi!Leaf
                \/ /\ trees[t].children[i].type = "subtree" /\ trees[t].children[i].id > t
                   /\ trees[t].children[i].id \in DOMAIN trees
<1>1. trees[t] \in TreeNode
  BY DEF Forest
<1>2. \A c \in Child : (c.type = "leaf" /\ c \in Fermi!Leaf) \/ c.type = "subtree"
  BY DEF Child, Fermi!Leaf
<1>3. trees[t].op \in Ops /\ trees[t].children \in Seq(Child)
  BY <1>1 DEF TreeNode, Ops, Fermi!FermiAssumption
<1>4. \A i \in DOMAIN trees[t].children : trees[t].children[i] \in Child
  BY <1>3
<1> QED
  BY <1>2, <1>3, <1>4 DEF Forest, Younger

LEMMA LeafIs ==
    ASSUME Fermi!FermiAssumption, FitsTyped, NEW leaf \in Fermi!Leaf
    PROVE  /\ leaf.iv \in Net!Interval /\ leaf.type = "leaf"
           /\ Fermi!LeafSamples(leaf) \subseteq Int
           /\ fitted[leaf.var] = Absent => \A x \in Fermi!LeafSamples(leaf) : Net!Holds(leaf.iv, x)
<1>1. leaf.iv \in Net!Interval /\ leaf.var \in Variable /\ leaf.type = "leaf"
  BY SameArithmetic DEF Fermi!Leaf, Fermi!FermiAssumption
<1>2. leaf.iv.lo \in Int /\ leaf.iv.hi \in Int /\ leaf.iv.lo <= leaf.iv.hi
  BY <1>1 DEF Net!Interval
<1>3. CASE fitted[leaf.var] = Absent
  BY <1>1, <1>2, <1>3 DEF Fermi!LeafSamples, Net!Holds
<1>4. CASE fitted[leaf.var] # Absent
  <2>1. PICK d \in Distribution : d = fitted[leaf.var]
    BY <1>1, <1>4 DEF FitsTyped
  <2>2. Fermi!LeafSamples(leaf) = Fermi!Support(d, Limits[leaf.var])
    BY <1>4, <2>1 DEF Fermi!LeafSamples
  <2>3. d.iv.lo \in Int /\ d.iv.hi \in Int /\ d.kind \in {"uniform", "beta", "lognormal"}
    BY DEF Distribution, Net!Interval
  <2>4. Limits[leaf.var] = Absent \/ (Limits[leaf.var].lo \in Int /\ Limits[leaf.var].hi \in Int)
    BY <1>1 DEF Fermi!FermiAssumption
  <2>5. Far \in Int
    BY DEF Fermi!FermiAssumption
  <2>6. Fermi!Support(d, Limits[leaf.var]) \subseteq Int
    <3>1. CASE d.kind = "uniform"
      BY <2>3, <3>1 DEF Fermi!Support
    <3>2. CASE d.kind = "beta"
      BY <2>4, <3>2 DEF Fermi!Support
    <3>3. CASE d.kind = "lognormal"
      BY <2>5, <3>3 DEF Fermi!Support
    <3> QED
      BY <2>3, <3>1, <3>2, <3>3
  <2> QED
    BY <1>1, <1>4, <2>2, <2>6
<1> QED
  BY <1>3, <1>4

\* What the children of t give, when the younger trees have values.
LEMMA KidsAre ==
    ASSUME Fermi!FermiAssumption, Forest, FitsTyped, NEW t \in DOMAIN trees, NEW g, NEW marked
    PROVE  /\ (\A u \in DOMAIN trees : u > t => g[u] \in Ranged) => Fermi!KidRanges(t, g) \in Seq(Ranged)
           /\ (\A u \in DOMAIN trees : u > t => g[u] \in SUBSET Sampled) =>
                    Fermi!KidSamples(t, g) \in Seq(SUBSET Sampled)
           /\ (\A u \in DOMAIN trees : u > t => g[u] \in Nat) => Fermi!KidCounts(t, marked, g) \in Seq(Nat)
<1> DEFINE kids == trees[t].children
<1>1. /\ kids \in Seq(Child)
      /\ \A i \in DOMAIN kids : \/ kids[i].type = "leaf" /\ kids[i] \in Fermi!Leaf
                                \/ kids[i].type = "subtree" /\ kids[i].id > t /\ kids[i].id \in DOMAIN trees
  BY NodeIs
<1>2. DOMAIN kids = 1 .. Len(kids) /\ Len(kids) \in Nat
  BY <1>1
<1>3. Fermi!KidRanges(t, g) = [i \in DOMAIN kids |-> IF kids[i].type = "leaf" THEN kids[i].iv ELSE g[kids[i].id]]
  BY DEF Fermi!KidRanges
<1>4. Fermi!KidSamples(t, g) = [i \in DOMAIN kids |-> IF kids[i].type = "leaf" THEN Fermi!LeafSamples(kids[i])
                                                      ELSE g[kids[i].id]]
  BY DEF Fermi!KidSamples
<1>5. Fermi!KidCounts(t, marked, g) = [i \in DOMAIN kids |-> IF kids[i].type = "leaf"
                                            THEN IF kids[i] \in marked THEN 1 ELSE 0 ELSE g[kids[i].id]]
  BY DEF Fermi!KidCounts
<1> HIDE DEF kids
<1>6. ASSUME \A u \in DOMAIN trees : u > t => g[u] \in Ranged PROVE Fermi!KidRanges(t, g) \in Seq(Ranged)
  <2>1. \A i \in DOMAIN kids : (IF kids[i].type = "leaf" THEN kids[i].iv ELSE g[kids[i].id]) \in Ranged
    BY <1>1, <1>6, LeafIs DEF Ranged
  <2> QED
    BY <1>2, <1>3, <2>1
<1>7. ASSUME \A u \in DOMAIN trees : u > t => g[u] \in SUBSET Sampled
      PROVE  Fermi!KidSamples(t, g) \in Seq(SUBSET Sampled)
  <2>1. \A i \in DOMAIN kids : (IF kids[i].type = "leaf" THEN Fermi!LeafSamples(kids[i]) ELSE g[kids[i].id])
                                    \in SUBSET Sampled
    BY <1>1, <1>7, LeafIs DEF Sampled
  <2> QED
    BY <1>2, <1>4, <2>1
<1>8. ASSUME \A u \in DOMAIN trees : u > t => g[u] \in Nat PROVE Fermi!KidCounts(t, marked, g) \in Seq(Nat)
  <2>1. \A i \in DOMAIN kids : (IF kids[i].type = "leaf" THEN IF kids[i] \in marked THEN 1 ELSE 0
                                ELSE g[kids[i].id]) \in Nat
    BY <1>1, <1>8
  <2> QED
    BY <1>2, <1>5, <2>1
<1> QED
  BY <1>6, <1>7, <1>8

\* The children of t give the same, if the younger trees have the same values.
LEMMA KidsAgree ==
    ASSUME Fermi!FermiAssumption, Forest, NEW t \in DOMAIN trees, NEW g, NEW h,
           \A u \in DOMAIN trees : u > t => g[u] = h[u]
    PROVE  /\ Fermi!KidRanges(t, g) = Fermi!KidRanges(t, h)
           /\ Fermi!KidSamples(t, g) = Fermi!KidSamples(t, h)
<1>1. \A i \in DOMAIN trees[t].children :
            trees[t].children[i].type # "leaf" => g[trees[t].children[i].id] = h[trees[t].children[i].id]
  BY NodeIs
<1>2. Fermi!KidRanges(t, g) = Fermi!KidRanges(t, h)
  BY <1>1 DEF Fermi!KidRanges
<1>3. Fermi!KidSamples(t, g) = Fermi!KidSamples(t, h)
  BY <1>1 DEF Fermi!KidSamples
<1> QED
  BY <1>2, <1>3

\* The three recursive functions of the trees are what they say.
LEMMA NodeValueIs ==
    ASSUME Fermi!FermiAssumption, Forest, FitsTyped
    PROVE  \A t \in DOMAIN trees :
                Fermi!NodeValue[t] = IF trees[t].children = <<>> THEN Error
                                     ELSE Fermi!Combined(trees[t].op, Fermi!KidRanges(t, Fermi!NodeValue))
<1> DEFINE n == Len(trees)
           Body(t, g) == IF trees[t].children = <<>> THEN Error
                         ELSE Fermi!Combined(trees[t].op, Fermi!KidRanges(t, g))
           F == [t \in 1 .. n |-> [g \in [1 .. n -> Ranged] |-> Body(t, g)]]
           G(v) == v = [t \in DOMAIN trees |-> Body(t, v)]
           all == CHOOSE v : G(v)
<1>1. DOMAIN trees = 1 .. n /\ n \in Nat
  BY DEF Forest
<1>2. Fermi!NodeValue = all
  BY DEF Fermi!NodeValue, Fermi!Tree
<1> HIDE DEF n
<1>3. \A t \in 1 .. n : \A g \in [1 .. n -> Ranged] : Body(t, g) \in Ranged
  <2> SUFFICES ASSUME NEW t \in 1 .. n, NEW g \in [1 .. n -> Ranged], trees[t].children # <<>>
               PROVE  Fermi!Combined(trees[t].op, Fermi!KidRanges(t, g)) \in Ranged
    BY DEF Ranged
  <2>1. Fermi!KidRanges(t, g) \in Seq(Ranged)
    BY <1>1, KidsAre
  <2>2. DOMAIN Fermi!KidRanges(t, g) = DOMAIN trees[t].children /\ trees[t].children \in Seq(Child)
    BY <1>1, NodeIs DEF Fermi!KidRanges
  <2>3. Fermi!KidRanges(t, g) # <<>> /\ Len(Fermi!KidRanges(t, g)) \in DOMAIN Fermi!KidRanges(t, g)
    BY <2>1, <2>2
  <2>4. trees[t].op \in Ops /\ Infinity \notin Int
    BY <1>1, NodeIs DEF Fermi!FermiAssumption
  <2> QED
    BY <2>1, <2>3, <2>4, CombinedIs DEF Combining
<1>4. \A t \in 1 .. n : \A g, h \in [1 .. n -> Ranged] :
            (\A u \in 1 .. n : u > t => g[u] = h[u]) => Body(t, g) = Body(t, h)
  BY <1>1, KidsAgree
<1> HIDE DEF Body
<1>5. FromAbove(F, Ranged, n)
  BY <1>3, <1>4 DEF FromAbove
<1>6. PICK g : Solves(g, F, Ranged, n)
  <2>1. Error \in Ranged
    BY DEF Ranged
  <2> HIDE DEF F
  <2> QED
    BY <1>1, <1>5, <2>1, RecursionExists, Zenon
<1>7. g \in [1 .. n -> Ranged] /\ \A t \in 1 .. n : g[t] = Body(t, g)
  BY <1>6 DEF Solves
<1> HIDE DEF F
<1>8. G(g)
  <2>1. g = [t \in DOMAIN trees |-> g[t]]
    BY <1>1, <1>7
  <2> QED
    BY <1>1, <1>7, <2>1
<1>9. G(all)
  <2> HIDE DEF G
  <2> QED
    BY <1>8
<1>10. \A t \in DOMAIN trees : all[t] = Body(t, all)
  <2> HIDE DEF all
  <2> QED
    BY <1>9
<1> HIDE DEF all
<1> QED
  BY <1>2, <1>10 DEF Body

LEMMA SamplesAre ==
    ASSUME Fermi!FermiAssumption, Forest, FitsTyped
    PROVE  \A t \in DOMAIN trees :
                Fermi!Samples[t] = IF trees[t].children = <<>> THEN {}
                                   ELSE Fermi!SamplesCombined(trees[t].op, Fermi!KidSamples(t, Fermi!Samples))
<1> DEFINE n == Len(trees)
           Body(t, g) == IF trees[t].children = <<>> THEN {}
                         ELSE Fermi!SamplesCombined(trees[t].op, Fermi!KidSamples(t, g))
           F == [t \in 1 .. n |-> [g \in [1 .. n -> SUBSET Sampled] |-> Body(t, g)]]
           G(v) == v = [t \in DOMAIN trees |-> Body(t, v)]
           all == CHOOSE v : G(v)
<1>1. DOMAIN trees = 1 .. n /\ n \in Nat
  BY DEF Forest
<1>2. Fermi!Samples = all
  BY DEF Fermi!Samples, Fermi!Tree
<1> HIDE DEF n
<1>3. \A t \in 1 .. n : \A g \in [1 .. n -> SUBSET Sampled] : Body(t, g) \in SUBSET Sampled
  <2> SUFFICES ASSUME NEW t \in 1 .. n, NEW g \in [1 .. n -> SUBSET Sampled], trees[t].children # <<>>
               PROVE  Fermi!SamplesCombined(trees[t].op, Fermi!KidSamples(t, g)) \in SUBSET Sampled
    OBVIOUS
  <2>1. Fermi!KidSamples(t, g) \in Seq(SUBSET Sampled)
    BY <1>1, KidsAre
  <2>2. DOMAIN Fermi!KidSamples(t, g) = DOMAIN trees[t].children /\ trees[t].children \in Seq(Child)
    BY <1>1, NodeIs DEF Fermi!KidSamples
  <2>3. Fermi!KidSamples(t, g) # <<>> /\ Len(Fermi!KidSamples(t, g)) \in DOMAIN Fermi!KidSamples(t, g)
    BY <2>1, <2>2
  <2>4. trees[t].op \in Ops
    BY <1>1, NodeIs
  <2> QED
    BY <2>1, <2>3, <2>4, SamplesCombinedIs
<1>4. \A t \in 1 .. n : \A g, h \in [1 .. n -> SUBSET Sampled] :
            (\A u \in 1 .. n : u > t => g[u] = h[u]) => Body(t, g) = Body(t, h)
  BY <1>1, KidsAgree
<1> HIDE DEF Body
<1>5. FromAbove(F, SUBSET Sampled, n)
  BY <1>3, <1>4 DEF FromAbove
<1>6. PICK g : Solves(g, F, SUBSET Sampled, n)
  <2>1. {} \in SUBSET Sampled
    OBVIOUS
  <2> HIDE DEF F
  <2> QED
    BY <1>1, <1>5, <2>1, RecursionExists, Zenon
<1>7. g \in [1 .. n -> SUBSET Sampled] /\ \A t \in 1 .. n : g[t] = Body(t, g)
  BY <1>6 DEF Solves
<1> HIDE DEF F
<1>8. G(g)
  <2>1. g = [t \in DOMAIN trees |-> g[t]]
    BY <1>1, <1>7
  <2> QED
    BY <1>1, <1>7, <2>1
<1>9. G(all)
  <2> HIDE DEF G
  <2> QED
    BY <1>8
<1>10. \A t \in DOMAIN trees : all[t] = Body(t, all)
  <2> HIDE DEF all
  <2> QED
    BY <1>9
<1> HIDE DEF all
<1> QED
  BY <1>2, <1>10 DEF Body

LEMMA CountsAre ==
    ASSUME Fermi!FermiAssumption, Forest, FitsTyped, NEW marked
    PROVE  \A t \in DOMAIN trees :
                Fermi!CountOf(marked)[t] = Fermi!Total(Fermi!KidCounts(t, marked, Fermi!CountOf(marked)))
<1> DEFINE n == Len(trees)
           Body(t, g) == Fermi!Total(Fermi!KidCounts(t, marked, g))
           F == [t \in 1 .. n |-> [g \in [1 .. n -> Nat] |-> Body(t, g)]]
           G(v) == v = [t \in DOMAIN trees |-> Body(t, v)]
           all == CHOOSE v : G(v)
<1>1. DOMAIN trees = 1 .. n /\ n \in Nat
  BY DEF Forest
<1>2. Fermi!CountOf(marked) = all
  BY DEF Fermi!CountOf, Fermi!Tree
<1> HIDE DEF n
<1>3. \A t \in 1 .. n : \A g \in [1 .. n -> Nat] : Body(t, g) \in Nat
  <2> SUFFICES ASSUME NEW t \in 1 .. n, NEW g \in [1 .. n -> Nat] PROVE Body(t, g) \in Nat
    OBVIOUS
  <2>1. Fermi!KidCounts(t, marked, g) \in Seq(Nat)
    BY <1>1, KidsAre
  <2> QED
    BY <2>1, TotalIs
<1>4. \A t \in 1 .. n : \A g, h \in [1 .. n -> Nat] :
            (\A u \in 1 .. n : u > t => g[u] = h[u]) => Body(t, g) = Body(t, h)
  <2> SUFFICES ASSUME NEW t \in 1 .. n, NEW g, NEW h, \A u \in 1 .. n : u > t => g[u] = h[u]
               PROVE  Body(t, g) = Body(t, h)
    OBVIOUS
  <2>1. t \in DOMAIN trees /\ \A u \in DOMAIN trees : u > t => g[u] = h[u]
    BY <1>1
  <2>2. Fermi!KidCounts(t, marked, g) = Fermi!KidCounts(t, marked, h)
    <3>1. \A i \in DOMAIN trees[t].children :
            trees[t].children[i].type # "leaf" => g[trees[t].children[i].id] = h[trees[t].children[i].id]
      BY <2>1, NodeIs
    <3> QED
      BY <3>1 DEF Fermi!KidCounts
  <2> QED
    BY <2>2
<1> HIDE DEF Body
<1>5. FromAbove(F, Nat, n)
  BY <1>3, <1>4 DEF FromAbove
<1>6. PICK g : Solves(g, F, Nat, n)
  <2>1. 0 \in Nat
    OBVIOUS
  <2> HIDE DEF F
  <2> QED
    BY <1>1, <1>5, <2>1, RecursionExists, Zenon
<1>7. g \in [1 .. n -> Nat] /\ \A t \in 1 .. n : g[t] = Body(t, g)
  BY <1>6 DEF Solves
<1> HIDE DEF F
<1>8. G(g)
  <2>1. g = [t \in DOMAIN trees |-> g[t]]
    BY <1>1, <1>7
  <2> QED
    BY <1>1, <1>7, <2>1
<1>9. G(all)
  <2> HIDE DEF G
  <2> QED
    BY <1>8
<1>10. \A t \in DOMAIN trees : all[t] = Body(t, all)
  <2> HIDE DEF all
  <2> QED
    BY <1>9
<1> HIDE DEF all
<1> QED
  BY <1>2, <1>10 DEF Body

\* What a tree's range owes its samples, when u of its n leaves are sampled from their own ranges.
Truly(range, samples, u, n) ==
    /\ u \in Nat /\ n \in Nat /\ u <= n
    /\ range # Error /\ u = n => \A x \in samples : x \in Int /\ Net!Holds(range, x)

\* What holds of the children holds of what they are combined to: all leaves are sampled from
\* their own ranges if those of each child are.
LEMMA FoldsAreTrue ==
    ASSUME Infinity \notin Int, NEW op \in Ops, NEW ranges \in Seq(Ranged), ranges # <<>>,
           NEW samples \in Seq(SUBSET Sampled), NEW us \in Seq(Nat), NEW ns \in Seq(Nat),
           Len(samples) = Len(ranges), Len(us) = Len(ranges), Len(ns) = Len(ranges),
           \A i \in DOMAIN ranges : Truly(ranges[i], samples[i], us[i], ns[i])
    PROVE  Truly(Fermi!Combined(op, ranges), Fermi!SamplesCombined(op, samples),
                 Fermi!Total(us), Fermi!Total(ns))
<1> DEFINE n == Len(ranges)
<1>1. n \in Nat /\ n >= 1 /\ DOMAIN ranges = 1 .. n /\ DOMAIN samples = 1 .. n /\ samples # <<>>
  OBVIOUS
<1>2. PICK a : Combining(a, op, ranges) /\ Fermi!Combined(op, ranges) = a[n]
  BY CombinedIs
<1>3. PICK b : Sampling(b, op, samples) /\ Fermi!SamplesCombined(op, samples) = b[n]
  BY <1>1, SamplesCombinedIs
<1>4. PICK c : Adding(c, us) /\ Fermi!Total(us) = c[n]
  BY TotalIs
<1>5. PICK d : Adding(d, ns) /\ Fermi!Total(ns) = d[n]
  BY TotalIs
<1>6. \A i \in 1 .. n : /\ ranges[i] \in Ranged /\ samples[i] \in SUBSET Sampled
                        /\ us[i] \in Nat /\ ns[i] \in Nat
  BY <1>1
<1>7. \A i \in 1 .. n : Truly(ranges[i], samples[i], us[i], ns[i])
  BY <1>1
<1>8. /\ a[1] = ranges[1] /\ b[1] = samples[1] /\ c[0] = 0 /\ d[0] = 0
      /\ \A i \in 1 .. n : /\ a[i] \in Ranged
                           /\ i # 1 => a[i] = Fermi!Combine(op, a[i - 1], ranges[i])
                           /\ i # 1 => b[i] = Fermi!ApplySamples(op, b[i - 1], samples[i])
                           /\ c[i] = c[i - 1] + us[i] /\ d[i] = d[i - 1] + ns[i]
                           /\ c[i] \in Nat /\ d[i] \in Nat
  BY <1>1, <1>2, <1>3, <1>4, <1>5 DEF Combining, Sampling, Adding
<1> HIDE DEF n
<1> DEFINE Good == {k \in Nat : k + 1 <= n => Truly(a[k + 1], b[k + 1], c[k + 1], d[k + 1])}
<1>9. 0 \in Good
  <2>1. 1 \in 1 .. n /\ 1 - 1 = 0
    BY <1>1
  <2>2. c[1] = us[1] /\ d[1] = ns[1]
    BY <1>6, <1>8, <2>1
  <2> QED
    BY <1>7, <1>8, <2>1, <2>2
<1>10. ASSUME NEW k \in Nat, k \in Good PROVE k + 1 \in Good
  <2>1. SUFFICES ASSUME k + 1 + 1 <= n
                 PROVE  Truly(a[k + 1 + 1], b[k + 1 + 1], c[k + 1 + 1], d[k + 1 + 1])
    OBVIOUS
  <2>2. PICK i \in 1 .. n, j \in 1 .. n : i = k + 1 + 1 /\ j = k + 1 /\ i # 1 /\ i - 1 = j
    BY <1>1, <2>1
  <2>3. Truly(a[j], b[j], c[j], d[j]) /\ Truly(ranges[i], samples[i], us[i], ns[i])
    BY <1>1, <1>7, <1>10, <2>2
  <2>4. /\ a[i] = Fermi!Combine(op, a[j], ranges[i]) /\ b[i] = Fermi!ApplySamples(op, b[j], samples[i])
        /\ c[i] = c[j] + us[i] /\ d[i] = d[j] + ns[i] /\ a[j] \in Ranged /\ ranges[i] \in Ranged
    BY <1>6, <1>8, <2>2
  <2>5. /\ c[j] \in Nat /\ d[j] \in Nat /\ us[i] \in Nat /\ ns[i] \in Nat
        /\ c[j] <= d[j] /\ us[i] <= ns[i]
    BY <2>3 DEF Truly
  <2>6. c[i] \in Nat /\ d[i] \in Nat /\ c[i] <= d[i] /\ (c[i] = d[i] => c[j] = d[j] /\ us[i] = ns[i])
    <3>1. \A p, q, r, w \in Nat : p <= q /\ r <= w =>
            /\ p + r \in Nat /\ q + w \in Nat /\ p + r <= q + w
            /\ p + r = q + w => p = q /\ r = w
      OBVIOUS
    <3>2. c[j] + us[i] = d[j] + ns[i] => c[j] = d[j] /\ us[i] = ns[i]
      BY <2>5, <3>1
    <3>3. c[j] + us[i] \in Nat /\ d[j] + ns[i] \in Nat /\ c[j] + us[i] <= d[j] + ns[i]
      BY <2>5, <3>1
    <3> QED
      BY <2>4, <3>2, <3>3
  <2>7. ASSUME a[i] # Error, c[i] = d[i], NEW z \in b[i] PROVE z \in Int /\ Net!Holds(a[i], z)
    <3>1. /\ a[j] # Error /\ ranges[i] # Error
          /\ \A x, y \in Int : Net!Holds(a[j], x) /\ Net!Holds(ranges[i], y) =>
                /\ Fermi!SampleOp(op, x, y) \in Int
                /\ Net!Holds(a[i], Fermi!SampleOp(op, x, y))
      BY <2>4, <2>7, CombineIs
    <3>2. PICK x \in b[j], y \in samples[i] : z = Fermi!SampleOp(op, x, y)
      BY <2>4, <2>7 DEF Fermi!ApplySamples
    <3>3. x \in Int /\ Net!Holds(a[j], x) /\ y \in Int /\ Net!Holds(ranges[i], y)
      BY <2>3, <2>6, <2>7, <3>1 DEF Truly
    <3> QED
      BY <3>1, <3>2, <3>3
  <2>8. Truly(a[i], b[i], c[i], d[i])
    BY <2>6, <2>7 DEF Truly
  <2> QED
    BY <2>2, <2>8
<1>11. Truly(a[n], b[n], c[n], d[n])
  <2>1. Nat \subseteq Good
    <3> HIDE DEF Good
    <3> QED
      BY <1>9, <1>10, CountingUp
  <2>2. n - 1 \in Nat /\ (n - 1) + 1 = n
    BY <1>1
  <2>3. n - 1 \in Good
    <3> HIDE DEF Good
    <3> QED
      BY <2>1, <2>2
  <2> QED
    BY <1>1, <2>2, <2>3
<1> QED
  BY <1>2, <1>3, <1>4, <1>5, <1>11 DEF n

\* The leaves that are sampled from their own ranges.
Uniform == {leaf \in Fermi!Leaf : fitted[leaf.var] = Absent}

\* The range of a tree holds all its samples when every leaf is sampled from its own.
LEMMA TreesAreTrue ==
    ASSUME Fermi!FermiAssumption, Forest, FitsTyped
    PROVE  \A t \in DOMAIN trees :
                /\ Fermi!NodeValue[t] \in Ranged
                /\ Fermi!Samples[t] \subseteq Sampled
                /\ Truly(Fermi!NodeValue[t], Fermi!Samples[t], Fermi!CountOf(Uniform)[t],
                         Fermi!CountOf(Fermi!Leaf)[t])
<1> DEFINE n == Len(trees)
           v == Fermi!NodeValue
           s == Fermi!Samples
           us == Fermi!CountOf(Uniform)
           ns == Fermi!CountOf(Fermi!Leaf)
           Settled == {t \in DOMAIN trees : /\ v[t] \in Ranged /\ s[t] \subseteq Sampled
                                         /\ Truly(v[t], s[t], us[t], ns[t])}
<1>1. DOMAIN trees = 1 .. n /\ n \in Nat
  BY DEF Forest
<1>2. ASSUME NEW t \in 1 .. n, \A u \in 1 .. n : u > t => u \in Settled PROVE t \in Settled
  <2> DEFINE kids == trees[t].children
             op == trees[t].op
             vs == Fermi!KidRanges(t, v)
             ss == Fermi!KidSamples(t, s)
             ku == Fermi!KidCounts(t, Uniform, us)
             kn == Fermi!KidCounts(t, Fermi!Leaf, ns)
  <2>1. \A u \in DOMAIN trees : u > t => /\ v[u] \in Ranged /\ s[u] \in SUBSET Sampled
                                         /\ us[u] \in Nat /\ ns[u] \in Nat
                                         /\ Truly(v[u], s[u], us[u], ns[u])
    BY <1>1, <1>2 DEF Truly
  <2>2. /\ kids \in Seq(Child) /\ op \in Ops
        /\ \A i \in DOMAIN kids : \/ kids[i].type = "leaf" /\ kids[i] \in Fermi!Leaf
                                  \/ kids[i].type = "subtree" /\ kids[i].id > t /\ kids[i].id \in DOMAIN trees
    BY <1>1, NodeIs
  <2>3. vs \in Seq(Ranged) /\ ss \in Seq(SUBSET Sampled)
    <3> HIDE DEF v, s
    <3> QED
      BY <1>1, <2>1, KidsAre
  <2>4. ku \in Seq(Nat)
    <3> HIDE DEF us
    <3> QED
      BY <1>1, <2>1, KidsAre
  <2>5. kn \in Seq(Nat)
    <3> HIDE DEF ns
    <3> QED
      BY <1>1, <2>1, KidsAre
  <2>6. /\ v[t] = IF kids = <<>> THEN Error ELSE Fermi!Combined(op, vs)
        /\ s[t] = IF kids = <<>> THEN {} ELSE Fermi!SamplesCombined(op, ss)
        /\ us[t] = Fermi!Total(ku) /\ ns[t] = Fermi!Total(kn)
    BY <1>1, NodeValueIs, SamplesAre, CountsAre
  <2>7. \A i \in DOMAIN kids :
            /\ vs[i] = IF kids[i].type = "leaf" THEN kids[i].iv ELSE v[kids[i].id]
            /\ ss[i] = IF kids[i].type = "leaf" THEN Fermi!LeafSamples(kids[i]) ELSE s[kids[i].id]
            /\ ku[i] = IF kids[i].type = "leaf" THEN IF kids[i] \in Uniform THEN 1 ELSE 0 ELSE us[kids[i].id]
            /\ kn[i] = IF kids[i].type = "leaf" THEN IF kids[i] \in Fermi!Leaf THEN 1 ELSE 0 ELSE ns[kids[i].id]
    BY DEF Fermi!KidRanges, Fermi!KidSamples, Fermi!KidCounts
  <2>8. DOMAIN vs = DOMAIN kids /\ DOMAIN ss = DOMAIN kids /\ DOMAIN ku = DOMAIN kids /\ DOMAIN kn = DOMAIN kids
    BY DEF Fermi!KidRanges, Fermi!KidSamples, Fermi!KidCounts
  <2> HIDE DEF kids, op, vs, ss, ku, kn, v, s, us, ns
  <2>9. Len(vs) = Len(kids) /\ Len(ss) = Len(kids) /\ Len(ku) = Len(kids) /\ Len(kn) = Len(kids)
    BY <2>2, <2>3, <2>4, <2>5, <2>8
  <2>10. \A i \in DOMAIN kids : Truly(vs[i], ss[i], ku[i], kn[i])
    <3> SUFFICES ASSUME NEW i \in DOMAIN kids PROVE Truly(vs[i], ss[i], ku[i], kn[i])
      OBVIOUS
    <3>1. CASE kids[i].type = "leaf" /\ kids[i] \in Fermi!Leaf
      <4>1. /\ vs[i] = kids[i].iv /\ ss[i] = Fermi!LeafSamples(kids[i])
            /\ ku[i] = (IF kids[i] \in Uniform THEN 1 ELSE 0) /\ kn[i] = 1
        BY <2>7, <3>1
      <4>2. ss[i] \subseteq Int
        BY <3>1, <4>1, LeafIs
      <4>3. kids[i] \in Uniform => \A x \in ss[i] : Net!Holds(vs[i], x)
        BY <3>1, <4>1, LeafIs DEF Uniform
      <4> QED
        BY <4>1, <4>2, <4>3 DEF Truly
    <3>2. CASE kids[i].type = "subtree" /\ kids[i].id > t /\ kids[i].id \in DOMAIN trees
      BY <2>1, <2>7, <3>2
    <3> QED
      BY <2>2, <3>1, <3>2
  <2>11. CASE kids = <<>>
    <3>1. ku = <<>> /\ kn = <<>>
      BY <2>4, <2>5, <2>9, <2>11
    <3>2. Fermi!Total(ku) \in Nat /\ Fermi!Total(kn) \in Nat /\ Fermi!Total(ku) = Fermi!Total(kn)
      BY <2>4, <2>5, <3>1, TotalIs
    <3>3. v[t] = Error /\ s[t] = {}
      BY <2>6, <2>11
    <3> QED
      BY <1>1, <2>6, <3>2, <3>3 DEF Truly, Ranged
  <2>12. CASE kids # <<>>
    <3>1. vs # <<>> /\ ss # <<>> /\ Len(vs) \in DOMAIN vs
      BY <2>2, <2>3, <2>8, <2>9, <2>12
    <3>2. Infinity \notin Int
      BY DEF Fermi!FermiAssumption
    <3>3. v[t] \in Ranged
      BY <2>2, <2>3, <2>6, <2>12, <3>1, <3>2, CombinedIs DEF Combining
    <3>4. s[t] \subseteq Sampled
      BY <2>2, <2>3, <2>6, <2>12, <3>1, SamplesCombinedIs
    <3>5. Truly(v[t], s[t], us[t], ns[t])
      BY <2>2, <2>3, <2>4, <2>5, <2>6, <2>8, <2>9, <2>10, <2>12, <3>1, <3>2, FoldsAreTrue
    <3> QED
      BY <1>1, <3>3, <3>4, <3>5
  <2> QED
    BY <2>11, <2>12
<1> HIDE DEF n, Settled
<1>3. 1 .. n \subseteq Settled
  BY <1>1, <1>2, CountingDown
<1> QED
  BY <1>1, <1>3 DEF Settled

-----------------------------------------------------------------------------
(* Trees over time *)

\* A tree that is marked and has leaves only holds what they give.
Stored(node) ==
    node.evaluated /\ (\A i \in DOMAIN node.children : node.children[i].type # "subtree")
        => /\ node.children # <<>>
           /\ node.result = Fermi!Combined(node.op, [i \in DOMAIN node.children |-> node.children[i].iv])

\* The t-th of n trees.
Rooted(t, node, n) ==
    /\ node \in TreeNode /\ Len(node.children) <= MaxChildren /\ Stored(node)
    /\ \A i \in DOMAIN node.children :
            node.children[i].type = "subtree" => node.children[i].id > t /\ node.children[i].id \in 1 .. n

Woods(all, n) == all \in Seq(TreeNode) /\ \A t \in DOMAIN all : Rooted(t, all[t], n)

Grown == Woods(trees, Len(trees)) /\ Len(trees) <= MaxTrees /\ FitsTyped

LEMMA GrownIsForest == ASSUME Grown PROVE Forest /\ FitsTyped
<1>1. trees \in Seq(TreeNode) /\ DOMAIN trees = 1 .. Len(trees)
  BY DEF Grown, Woods
<1>2. Younger
  BY <1>1 DEF Grown, Woods, Rooted, Younger
<1> QED
  BY <1>1, <1>2 DEF Grown, Forest

\* What follows of a tree and of the last answer.
LEMMA GrownIsSound ==
    ASSUME Fermi!FermiAssumption, Grown
    PROVE  Fermi!TypeOK /\ Fermi!StaleOnlyThroughSubtrees
<1>1. Forest /\ FitsTyped /\ trees \in Seq(TreeNode) /\ DOMAIN trees = 1 .. Len(trees)
  BY GrownIsForest DEF Grown, Woods
<1>2. Fermi!TypeOK
  <2>1. \A t \in DOMAIN trees : Len(trees[t].children) <= MaxChildren
    BY DEF Grown, Woods, Rooted
  <2>2. \A t \in DOMAIN trees : \A u \in Fermi!Subtrees(t) : u \in DOMAIN trees
    BY <1>1 DEF Forest, Younger, Fermi!Subtrees
  <2>3. \A v \in Variable : fitted[v] = Absent \/ fitted[v].kind \in {"uniform", "beta", "lognormal"}
    BY <1>1 DEF FitsTyped, Distribution
  <2> QED
    BY <2>1, <2>2, <2>3 DEF Grown, Fermi!TypeOK, Fermi!Tree
<1>3. ASSUME NEW t \in DOMAIN trees, trees[t].evaluated, Fermi!Subtrees(t) = {}
      PROVE  trees[t].result = Fermi!NodeValue[t]
  <2>1. \A i \in DOMAIN trees[t].children : trees[t].children[i].type # "subtree"
    BY <1>3 DEF Fermi!Subtrees
  <2>2. /\ trees[t].children # <<>>
        /\ trees[t].result = Fermi!Combined(trees[t].op,
                                [i \in DOMAIN trees[t].children |-> trees[t].children[i].iv])
    <3>1. Stored(trees[t])
      BY DEF Grown, Woods, Rooted
    <3> QED
      BY <1>3, <2>1, <3>1 DEF Stored
  <2>3. Fermi!KidRanges(t, Fermi!NodeValue)
            = [i \in DOMAIN trees[t].children |-> trees[t].children[i].iv]
    BY <1>1, <2>1, NodeIs DEF Fermi!KidRanges
  <2> QED
    BY <1>1, <2>2, <2>3, NodeValueIs
<1> QED
  BY <1>2, <1>3 DEF Fermi!StaleOnlyThroughSubtrees, Fermi!Tree

\* A tree more, and a child more.
LEMMA WoodsGrow ==
    ASSUME Fermi!FermiAssumption, NEW n \in Nat, NEW all, Woods(all, n)
    PROVE  /\ Woods(all, n + 1)
           /\ \A op \in Operation : Len(all) <= n => Woods(Append(all, Fermi!NewTree(op)), n)
<1>1. \A t \in DOMAIN all : Rooted(t, all[t], n)
  BY DEF Woods
<1>2. Woods(all, n + 1)
  <2>1. \A i \in 1 .. n : i \in 1 .. (n + 1)
    OBVIOUS
  <2> QED
    BY <1>1, <2>1 DEF Woods, Rooted
<1>3. ASSUME NEW op \in Operation PROVE Woods(Append(all, Fermi!NewTree(op)), n)
  <2> DEFINE new == Fermi!NewTree(op)
  <2>1. new = [op |-> op, children |-> <<>>, evaluated |-> FALSE, result |-> Absent]
    BY DEF Fermi!NewTree
  <2>2. new \in TreeNode /\ new.evaluated = FALSE /\ new.children = <<>> /\ DOMAIN new.children = {}
    BY <2>1 DEF TreeNode
  <2>3. Len(new.children) <= MaxChildren
    BY <2>2 DEF Fermi!FermiAssumption
  <2> HIDE DEF new
  <2>4. \A t : Rooted(t, new, n)
    BY <2>2, <2>3 DEF Rooted, Stored
  <2>5. /\ all \in Seq(TreeNode) /\ Append(all, new) \in Seq(TreeNode)
        /\ DOMAIN Append(all, new) = 1 .. (Len(all) + 1) /\ DOMAIN all = 1 .. Len(all) /\ Len(all) \in Nat
        /\ \A t \in DOMAIN all : Append(all, new)[t] = all[t]
        /\ Append(all, new)[Len(all) + 1] = new
    BY <2>2 DEF Woods
  <2>6. \A t \in 1 .. (Len(all) + 1) : t \in DOMAIN all \/ t = Len(all) + 1
    BY <2>5
  <2> QED
    BY <1>1, <2>4, <2>5, <2>6 DEF Woods, new
<1> QED
  BY <1>2, <1>3

LEMMA ChildAdded ==
    ASSUME Fermi!FermiAssumption, NEW n \in Nat, Woods(trees, n), NEW t \in DOMAIN trees, NEW child \in Child,
           child.type = "subtree" => child.id > t /\ child.id \in 1 .. n,
           Len(trees[t].children) < MaxChildren
    PROVE  Woods(Fermi!WithChild(t, child), n) /\ Len(Fermi!WithChild(t, child)) = Len(trees)
<1> DEFINE all == Fermi!WithChild(t, child)
           kids == trees[t].children
<1>1. trees \in Seq(TreeNode) /\ trees[t] \in TreeNode /\ Rooted(t, trees[t], n)
  BY DEF Woods
<1>2. all = [trees EXCEPT ![t] = [trees[t] EXCEPT !.children = Append(kids, child), !.evaluated = FALSE]]
  BY <1>1 DEF Fermi!WithChild, TreeNode
<1>3. /\ kids \in Seq(Child) /\ Append(kids, child) \in Seq(Child)
      /\ Len(Append(kids, child)) = Len(kids) + 1 /\ Len(kids) \in Nat
      /\ \A i \in 1 .. (Len(kids) + 1) : \/ i \in DOMAIN kids /\ Append(kids, child)[i] = kids[i]
                                         \/ Append(kids, child)[i] = child
      /\ DOMAIN Append(kids, child) = 1 .. (Len(kids) + 1)
  BY <1>1 DEF TreeNode
<1> DEFINE new == [trees[t] EXCEPT !.children = Append(kids, child), !.evaluated = FALSE]
<1>4. new \in TreeNode /\ new.children = Append(kids, child) /\ new.evaluated = FALSE
  BY <1>1, <1>3 DEF TreeNode
<1>5. Len(Append(kids, child)) <= MaxChildren
  BY <1>3 DEF Fermi!FermiAssumption
<1>6. all \in Seq(TreeNode) /\ DOMAIN all = DOMAIN trees /\ Len(all) = Len(trees)
  BY <1>1, <1>2, <1>4
<1>7. all[t] = new /\ \A u \in DOMAIN trees : u # t => all[u] = trees[u]
  BY <1>1, <1>2
<1> HIDE DEF all, kids, new
<1>8. Rooted(t, new, n)
  <2>1. \A i \in DOMAIN kids : kids[i].type = "subtree" => kids[i].id > t /\ kids[i].id \in 1 .. n
    BY <1>1 DEF Rooted, kids
  <2> QED
    BY <1>3, <1>4, <1>5, <2>1 DEF Rooted, Stored
<1> QED
  BY <1>6, <1>7, <1>8 DEF Woods, all

TreesSound == Grown /\ Fermi!SamplesWithin

LEMMA TreesBegin == ASSUME Fermi!FermiAssumption, Fermi!Init PROVE TreesSound
<1>1. trees = <<>> /\ fitted = [v \in Variable |-> Absent] /\ evaluation = Absent
  BY DEF Fermi!Init
<1>2. Woods(trees, Len(trees)) /\ Len(trees) <= MaxTrees
  BY <1>1 DEF Woods, Fermi!FermiAssumption
<1>3. FitsTyped
  BY <1>1 DEF FitsTyped
<1> QED
  BY <1>1, <1>2, <1>3 DEF TreesSound, Grown, Fermi!SamplesWithin

LEMMA TreesEvaluated ==
    ASSUME Fermi!FermiAssumption, Grown, NEW t \in DOMAIN trees, Fermi!EvaluateTree(t)
    PROVE  TreesSound'
<1>1. Forest /\ FitsTyped /\ Woods(trees, Len(trees)) /\ trees \in Seq(TreeNode)
  BY GrownIsForest DEF Grown, Woods
<1>2. CASE trees[t].children = <<>> \/ Fermi!HasCycle(t) \/ Fermi!NodeValue[t] = Error
  <2>1. evaluation' = Absent /\ trees' = trees /\ fitted' = fitted
    BY <1>2 DEF Fermi!EvaluateTree
  <2>2. Grown'
    BY <2>1 DEF Grown, FitsTyped
  <2> QED
    BY <2>1, <2>2 DEF TreesSound, Fermi!SamplesWithin
<1>3. CASE ~ (trees[t].children = <<>> \/ Fermi!HasCycle(t) \/ Fermi!NodeValue[t] = Error)
  <2> DEFINE v == Fermi!NodeValue[t]
             new == [trees[t] EXCEPT !.evaluated = TRUE, !.result = v]
  <2>1. /\ evaluation' = Fermi!Answer(t) /\ fitted' = fitted /\ v # Error /\ trees[t].children # <<>>
        /\ trees' = [trees EXCEPT ![t].evaluated = TRUE, ![t].result = v]
    BY <1>3 DEF Fermi!EvaluateTree
  <2>2. v \in Ranged /\ Truly(v, Fermi!Samples[t], Fermi!UniformLeaves(t), Fermi!Leaves(t))
    BY <1>1, TreesAreTrue DEF Fermi!UniformLeaves, Fermi!Leaves, Uniform
  <2>3. v = Fermi!Combined(trees[t].op, Fermi!KidRanges(t, Fermi!NodeValue))
    BY <1>1, <2>1, NodeValueIs
  <2>4. trees[t] \in TreeNode /\ Rooted(t, trees[t], Len(trees))
    BY <1>1 DEF Woods
  <2> HIDE DEF v
  <2>5. /\ new \in TreeNode /\ new.children = trees[t].children /\ new.op = trees[t].op
        /\ new.result = v
    BY <2>2, <2>4 DEF TreeNode
  <2>6. trees' = [trees EXCEPT ![t] = new]
    BY <1>1, <2>1, <2>4 DEF TreeNode
  <2> HIDE DEF new
  <2>7. Stored(new)
    <3> SUFFICES ASSUME \A i \in DOMAIN trees[t].children : trees[t].children[i].type # "subtree"
                 PROVE  v = Fermi!Combined(trees[t].op,
                                [i \in DOMAIN trees[t].children |-> trees[t].children[i].iv])
      BY <2>1, <2>5 DEF Stored
    <3>1. Fermi!KidRanges(t, Fermi!NodeValue)
            = [i \in DOMAIN trees[t].children |-> trees[t].children[i].iv]
      BY <1>1, NodeIs DEF Fermi!KidRanges
    <3> QED
      BY <2>3, <3>1
  <2>8. Rooted(t, new, Len(trees))
    BY <2>4, <2>5, <2>7 DEF Rooted
  <2>9. /\ trees' \in Seq(TreeNode) /\ DOMAIN trees' = DOMAIN trees /\ Len(trees') = Len(trees)
        /\ trees'[t] = new /\ \A u \in DOMAIN trees : u # t => trees'[u] = trees[u]
    BY <1>1, <2>5, <2>6
  <2>10. Grown'
    <3>1. Woods(trees', Len(trees'))
      BY <1>1, <2>8, <2>9 DEF Woods
    <3> QED
      BY <2>1, <2>9, <3>1 DEF Grown, FitsTyped
  <2>11. Fermi!SamplesWithin'
    <3>1. /\ evaluation'.result = v /\ evaluation'.samples = Fermi!Samples[t]
          /\ evaluation'.uniform = Fermi!UniformLeaves(t) /\ evaluation'.leaves = Fermi!Leaves(t)
      BY <2>1 DEF Fermi!Answer, v
    <3>2. Fermi!UniformLeaves(t) = Fermi!Leaves(t) =>
            \A x \in Fermi!Samples[t] : x \in Int /\ Net!Holds(v, x)
      BY <2>1, <2>2 DEF Truly
    <3>3. \A x \in Int : x # Infinity
      BY DEF Fermi!FermiAssumption
    <3> QED
      BY <3>1, <3>2, <3>3, SameArithmetic DEF Fermi!SamplesWithin
  <2> QED
    BY <2>10, <2>11 DEF TreesSound
<1> QED
  BY <1>2, <1>3

LEMMA TreesStep ==
    ASSUME Fermi!FermiAssumption, TreesSound, [Fermi!Next]_(Fermi!vars)
    PROVE  TreesSound'
<1>1. Woods(trees, Len(trees)) /\ Len(trees) <= MaxTrees /\ FitsTyped /\ trees \in Seq(TreeNode)
  BY DEF TreesSound, Grown, Woods
<1>2. Len(trees) \in Nat /\ MaxTrees \in Nat /\ DOMAIN trees = 1 .. Len(trees)
  BY <1>1 DEF Fermi!FermiAssumption
<1>3. evaluation' = evaluation => Fermi!SamplesWithin'
  BY SameArithmetic DEF TreesSound, Fermi!SamplesWithin, Fermi!Holds
<1>4. CASE UNCHANGED Fermi!vars
  BY <1>1, <1>3, <1>4 DEF Fermi!vars, TreesSound, Grown, FitsTyped
<1>5. ASSUME NEW op \in Operation, Fermi!CreateTree(op) PROVE TreesSound'
  <2>1. /\ trees' = Append(trees, Fermi!NewTree(op)) /\ fitted' = fitted /\ evaluation' = evaluation
        /\ Len(trees) < MaxTrees
    BY <1>5 DEF Fermi!CreateTree
  <2>2. Len(trees') = Len(trees) + 1 /\ Len(trees) + 1 <= MaxTrees /\ Len(trees) + 1 \in Nat
    BY <1>1, <1>2, <2>1
  <2>3. Woods(trees, Len(trees) + 1)
    BY <1>1, <1>2, WoodsGrow
  <2>4. Woods(trees', Len(trees) + 1)
    BY <1>2, <2>1, <2>2, <2>3, WoodsGrow
  <2> QED
    BY <1>1, <1>3, <2>1, <2>2, <2>4 DEF TreesSound, Grown, FitsTyped
<1>6. ASSUME NEW t \in DOMAIN trees, NEW v \in Variable, NEW iv \in LeafRange, Fermi!AddLeaf(t, v, iv)
      PROVE  TreesSound'
  <2> DEFINE child == [type |-> "leaf", var |-> v, iv |-> iv]
  <2>1. /\ trees' = Fermi!WithChild(t, child) /\ fitted' = fitted /\ evaluation' = evaluation
        /\ Len(trees[t].children) < MaxChildren
    BY <1>6 DEF Fermi!AddLeaf
  <2>2. child \in Child /\ child.type # "subtree"
    BY DEF Child, Fermi!Leaf
  <2> HIDE DEF child
  <2>3. Woods(trees', Len(trees)) /\ Len(trees') = Len(trees)
    BY <1>1, <1>2, <2>1, <2>2, ChildAdded
  <2> QED
    BY <1>1, <1>3, <2>1, <2>3 DEF TreesSound, Grown, FitsTyped
<1>7. ASSUME NEW t \in DOMAIN trees, NEW op \in Operation, Fermi!AddSubtree(t, op) PROVE TreesSound'
  <2> DEFINE n == Len(trees) + 1
             child == [type |-> "subtree", id |-> n]
             all == Fermi!WithChild(t, child)
  <2>1. /\ trees' = Append(all, Fermi!NewTree(op)) /\ fitted' = fitted /\ evaluation' = evaluation
        /\ Len(trees[t].children) < MaxChildren /\ Len(trees) < MaxTrees
    BY <1>7 DEF Fermi!AddSubtree
  <2>2. n \in Nat /\ n \in 1 .. n /\ n > t /\ n <= MaxTrees /\ Len(trees) <= n
    BY <1>2, <2>1
  <2>3. child \in Child /\ child.id = n
    BY <2>2 DEF Child
  <2>4. Woods(trees, n)
    BY <1>1, <1>2, WoodsGrow
  <2> HIDE DEF child, n
  <2>5. Woods(all, n) /\ Len(all) = Len(trees) /\ all \in Seq(TreeNode)
    BY <2>1, <2>2, <2>3, <2>4, ChildAdded DEF Woods
  <2> HIDE DEF all
  <2>6. Woods(trees', n)
    BY <2>1, <2>2, <2>5, WoodsGrow
  <2>7. Len(trees') = n
    BY <2>1, <2>5 DEF n
  <2> QED
    BY <1>1, <1>3, <2>1, <2>2, <2>6, <2>7 DEF TreesSound, Grown, FitsTyped
<1>8. ASSUME NEW t \in DOMAIN trees, Fermi!EvaluateTree(t) PROVE TreesSound'
  BY <1>8, TreesEvaluated DEF TreesSound
<1>9. ASSUME NEW v \in Variable, NEW iv \in LeafRange, Fermi!Estimated(v, iv) PROVE TreesSound'
  <2>1. PICK d \in Fermi!Fits(v, iv) : fitted' = [fitted EXCEPT ![v] = d]
    BY <1>9 DEF Fermi!Estimated
  <2>2. trees' = trees /\ evaluation' = evaluation
    BY <1>9 DEF Fermi!Estimated
  <2>3. iv \in Net!Interval
    BY SameArithmetic DEF Fermi!FermiAssumption
  <2>4. Fermi!FitKinds(Hint[v], iv, Limits[v]) \subseteq {"uniform", "beta", "lognormal"}
    BY DEF Fermi!FitKinds
  <2>5. d \in Distribution \union {Absent}
    BY <2>3, <2>4 DEF Fermi!Fits, Fermi!Fitted, Distribution
  <2>6. FitsTyped'
    BY <1>1, <2>1, <2>5 DEF FitsTyped
  <2> QED
    BY <1>1, <1>3, <2>2, <2>6 DEF TreesSound, Grown
<1> QED
  BY <1>4, <1>5, <1>6, <1>7, <1>8, <1>9 DEF Fermi!Next, Fermi!Tree

\* The trees are typed.  A tree is evaluated twice, over ranges and over samples: if every leaf was
\* sampled from its own range, every sample of the tree lies in its range, through any number of
\* subtrees; and what a tree without subtrees stores is what its leaves give.
THEOREM TreesAreSound ==
    ASSUME Fermi!FermiAssumption
    PROVE  Fermi!Spec => [](Fermi!TypeOK /\ Fermi!FermiIsSound)
<1>1. Fermi!Init => TreesSound
  BY TreesBegin
<1>2. TreesSound /\ [Fermi!Next]_(Fermi!vars) => TreesSound'
  BY TreesStep
<1>3. TreesSound => Fermi!TypeOK /\ Fermi!FermiIsSound
  BY GrownIsSound DEF TreesSound, Fermi!FermiIsSound
<1> QED
  BY <1>1, <1>2, <1>3, PTL DEF Fermi!Spec
=============================================================================
