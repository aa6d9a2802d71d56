----------------------------- MODULE WorldGraph -----------------------------
(***************************************************************************)
(* The reality graph of cmis_core: the store of a process                  *)
(* (reality_graph_store.py) and the files behind it                        *)
(* (reality_graph_backend.py), evidence that becomes nodes                 *)
(* (evidence_mapper.py, actor_resolver.py), the overlay of a company's own *)
(* context (project_overlay_store.py) and the snapshots that               *)
(* world_engine.py cuts of all this and caches.                            *)
(*                                                                         *)
(* A date is a number, 0 the oldest; the clock counts in the same unit.  A *)
(* node carries what the code reads: its date, what it is about, the       *)
(* segments an actor matches, the identifiers the actor is known by, and   *)
(* its place in the order of insertion.  Whom a record is really about     *)
(* ("of") is for the properties alone; the code goes by what is told.  A   *)
(* snapshot shares its nodes with the store, so what the store later       *)
(* changes in place is changed in it too; one that nothing was filtered    *)
(* out of is the store's own graph.                                        *)
(***************************************************************************)
EXTENDS Integers, Sequences, FiniteSets, SequencesExt, FiniteSetsExt, Functions, TLC

CONSTANTS Domain,
          Seed,       \* [domain |-> the graph and the date of its seed file]
          Base,       \* [name |-> what an identifier has of it, 20 letters]
          Likeness,   \* [<<name, name>> |-> how alike they are, in tenths]
          Unknown,    \* the name of what has none
          Context,    \* [context |-> its company's node, the date of its baseline, its assets]
          Slice,      \* [slice |-> [hops, edges]]
          Question,   \* [domain, segment, asOf, context, slice]: what callers ask
          Batch,      \* sequences of records of evidence: [kind, of, told, year, at], where
                      \* "of" is the company meant and "told" the identifiers that name it
          UseBackend,
          Lifetime,   \* of a cached snapshot
          MaxBatches, MaxClock,
          Absent, Latest, Torn

VARIABLES graphs, overlays, cache,  \* of the process
          disk, index,              \* of the backend
          now,
          answer,                   \* the last snapshot, with the question it was returned for
          taken                     \* history: the batches each domain took in, one after the
                                    \* other, since the process began

memory == <<graphs, overlays, cache>>
vars == <<memory, disk, index, now, answer, taken>>

-----------------------------------------------------------------------------
(***************************************************************************)
(* Graphs.                                                                 *)
(***************************************************************************)
EmptyGraph == [nodes |-> <<>>, edges |-> {}]
Of(g, type) == {i \in DOMAIN g.nodes : g.nodes[i].type = type}
Only(g, ids) == [nodes |-> Restrict(g.nodes, ids),
                 edges |-> {e \in g.edges : {e.from, e.to} \subseteq ids}]

\* A node that is there keeps its place and takes the new data.
Upsert(g, id, node) ==
    LET place == IF id \in DOMAIN g.nodes THEN g.nodes[id].place ELSE Cardinality(DOMAIN g.nodes) + 1
    IN  [g EXCEPT !.nodes = (id :> [node EXCEPT !.place = place]) @@ @]

\* Mutant: every state that is old enough is kept.
AsOfAll(g, date) == Only(g, {i \in DOMAIN g.nodes : g.nodes[i].at <= date})

\* What is not newer than the date, and of the states of one target only the newest, the first of
\* these if there are more.
AsOf(g, date) ==
    LET old == {i \in DOMAIN g.nodes : g.nodes[i].at <= date}
        better(i, j) == \/ g.nodes[i].at > g.nodes[j].at
                        \/ g.nodes[i].at = g.nodes[j].at /\ g.nodes[i].place < g.nodes[j].place
        passed == {i \in Of(g, "state") \intersect old :
                    \E j \in Of(g, "state") \intersect old :
                        g.nodes[j].about = g.nodes[i].about /\ better(j, i)}
    IN  Only(g, old \ passed)

\* The segment's actors, those who deal with them, and what is about either; everything if the
\* segment has no actor.
Dealing(g, ids) == UNION {g.nodes[f].about : f \in {f \in Of(g, "money_flow") :
                                                     g.nodes[f].about \intersect ids # {}}}

OfSegment(g, segment) ==
    LET own == {i \in Of(g, "actor") : segment \in g.nodes[i].segments}
        related == own \union Dealing(g, own)
        kept == {i \in DOMAIN g.nodes :
                    CASE g.nodes[i].type = "actor" -> i \in related
                      [] g.nodes[i].type \in {"money_flow", "state"} ->
                            g.nodes[i].about \intersect related # {}
                      [] OTHER -> TRUE}
    IN  IF own = {} THEN g ELSE Only(g, kept)

\* Nodes of the overlay take the place of those of the base.
Merged(g, own) == [g EXCEPT !.nodes = own @@ @]

\* The actors at most so many edges away.
Around(g, focal, hops, types) ==
    LET next(S) == S \union {i \in Of(g, "actor") : \E e \in g.edges :
                                e.type \in types /\ \/ e.from = i /\ e.to \in S
                                                    \/ e.to = i /\ e.from \in S}
        ring[k \in 0 .. hops] == IF k = 0 THEN {focal} ELSE next(ring[k - 1])
    IN  ring[hops]

\* What is about the focal actor and about the actors around it.  The flows come first, and a state
\* may be about one of them.
Subgraph(g, focal, slice) ==
    LET actors == Around(g, focal, slice.hops, slice.edges)
        first == actors \union {i \in DOMAIN g.nodes :
                    /\ g.nodes[i].type \in {"state", "money_flow", "contract"}
                    /\ focal \in g.nodes[i].about}
        flows == first \union {i \in Of(g, "money_flow") : g.nodes[i].about \intersect first # {}}
    IN  Only(g, flows \union {i \in Of(g, "state") : g.nodes[i].about \intersect flows # {}})

-----------------------------------------------------------------------------
(***************************************************************************)
(* Evidence.                                                               *)
(***************************************************************************)
Node(type, at, about) == [type |-> type, at |-> at, about |-> about, of |-> Absent, segments |-> {},
                          known |-> Absent, place |-> 0]

\* The actors with a value of an identifier, and of these the one inserted last, which has
\* overwritten the others in the index.
Carrying(g, k, v) == {i \in Of(g, "actor") : k \in DOMAIN g.nodes[i].known /\ g.nodes[i].known[k] = v}
LastOf(g, ids) == CHOOSE i \in ids : \A j \in ids : g.nodes[j].place <= g.nodes[i].place

\* The threshold of a likeness, 0.9.
Alike == 9

\* The actor whose name is the most like the given one, if it is like enough; of names that are
\* equally like it the one that came into the index first.
Likest(g, name, enough) ==
    LET alike == {n \in {g.nodes[i].known.name : i \in Of(g, "actor")} : Likeness[<<name, n>>] >= enough}
        first(n) == Min({g.nodes[i].place : i \in Carrying(g, "name", n)})
        before(n, m) == \/ Likeness[<<name, n>>] > Likeness[<<name, m>>]
                        \/ Likeness[<<name, n>>] = Likeness[<<name, m>>] /\ first(n) < first(m)
    IN  IF alike = {} THEN Absent
        ELSE LastOf(g, Carrying(g, "name", CHOOSE n \in alike : \A m \in alike \ {n} : before(n, m)))

\* Mutant: a lower threshold.
SimilarActorLoosely(g, name) == Likest(g, name, Alike - 1)

SimilarActor(g, name) == Likest(g, name, Alike)

\* The actor that the graph had when the batch began, for the indexes are built once: by the
\* registration number, else by the stock code, else by the name.
Resolved(before, told) ==
    LET known == {k \in DOMAIN told \ {"name"} : Carrying(before, k, told[k]) # {}}
    IN  CASE "crn" \in known -> LastOf(before, Carrying(before, "crn", told.crn))
          [] known = {"stock"} -> LastOf(before, Carrying(before, "stock", told.stock))
          [] known = {} /\ "name" \in DOMAIN told -> SimilarActor(before, told.name)
          [] OTHER -> Absent

NameTold(told) == IF "name" \in DOMAIN told THEN told.name ELSE Unknown

\* The first identifier of the name that the graph does not have.
NewActorId(g, told) ==
    LET id(n) == <<"ACT", Base[NameTold(told)], n>>
    IN  id(CHOOSE n \in 0 .. Cardinality(DOMAIN g.nodes) :
            id(n) \notin DOMAIN g.nodes /\ \A k \in 0 .. n - 1 : id(k) \in DOMAIN g.nodes)

ActorFor(before, g, told) ==
    IF Resolved(before, told) # Absent THEN Resolved(before, told) ELSE NewActorId(g, told)

Either(date, other) == IF date # Absent THEN date ELSE other

\* Figures of a company; its actor is not made for them.
WithFigure(before, g, r, at) ==
    LET actor == ActorFor(before, g, r.told)
    IN  Upsert(g, <<"STATE", actor, r.kind, r.year>>, [Node("state", at, {actor}) EXCEPT !.of = r.of])

WithFinancial(before, g, r) == WithFigure(before, g, r, Either(r.year, r.at))
WithCustomers(before, g, r) == WithFigure(before, g, r, Either(r.at, now))
WithRevenue(before, g, r) == WithFigure(before, g, r, Either(r.at, r.year))
WithMarket(g, r) == Upsert(g, <<"STATE", <<"MARKET">>, r.kind, r.year>>,
                           Node("state", Either(r.year, r.at), {<<"MARKET">>}))

\* A company that is known stays as it is, whatever else the record tells of it: merge_actor_data is
\* for actors that the mapper returns, and it returns none that is known.
WithCompany(before, g, r) ==
    IF Resolved(before, r.told) # Absent THEN g
    ELSE Upsert(g, NewActorId(g, r.told),
                [Node("actor", now, {}) EXCEPT !.of = r.of, !.known = r.told @@ [name |-> Unknown]])

\* A deal becomes a flow, and no edge.
WithDeal(g, r) ==
    LET ends == {<<"ACT", Base[n], 0>> : n \in {r.told.name, r.with}}
    IN  Upsert(g, <<"MFL", ends, r.year>>, Node("money_flow", Either(r.at, now), ends))

WithRecord(before, g, r) ==
    CASE r.kind = "financial" -> WithFinancial(before, g, r)
      [] r.kind = "market"    -> WithMarket(g, r)
      [] r.kind = "customers" -> WithCustomers(before, g, r)
      [] r.kind = "revenue"   -> WithRevenue(before, g, r)
      [] r.kind = "company"   -> WithCompany(before, g, r)
      [] r.kind = "deal"      -> WithDeal(g, r)
      [] OTHER                -> g

Ingested(before, batch) == FoldLeft(LAMBDA g, r : WithRecord(before, g, r), before, batch)

-----------------------------------------------------------------------------
(***************************************************************************)
(* The store and its files.                                                *)
(***************************************************************************)
Dates == {Seed[d].date : d \in Domain}

Init ==
    /\ graphs = [d \in Domain |-> Absent]
    /\ overlays = [c \in DOMAIN Context |-> Absent]
    /\ cache = <<>>
    /\ disk = [d \in Domain |-> Absent]
    /\ index = [t \in Dates |-> {}]
    /\ now = 0 /\ answer = Absent
    /\ taken = [d \in Domain |-> <<>>]

SeedGraph(d) == [nodes |-> Seed[d].nodes, edges |-> Seed[d].edges]

\* ingest_seed, the only one to write the files.
IngestSeed(d) ==
    /\ graphs' = [graphs EXCEPT ![d] = SeedGraph(d)]
    /\ IF UseBackend
       THEN /\ disk' = [disk EXCEPT ![d] = SeedGraph(d)]
            /\ index' = [index EXCEPT ![Seed[d].date] = @ \union {d}]
       ELSE UNCHANGED <<disk, index>>

\* get_graph: a file that is torn raises.
GetGraph(d) ==
    /\ graphs[d] = Absent /\ UseBackend /\ disk[d] \notin {Absent, Torn}
    /\ graphs' = [graphs EXCEPT ![d] = disk[d]]
    /\ UNCHANGED <<overlays, cache, disk, index, now, answer, taken>>

\* ingest_evidence: a domain that the memory lacks starts empty, whatever the files have.
IngestEvidence(d, batch) ==
    LET before == IF graphs[d] = Absent THEN EmptyGraph ELSE graphs[d]
    IN  /\ FoldFunction(LAMBDA batches, n : Len(batches) + n, 0, taken) < MaxBatches
        /\ graphs' = [graphs EXCEPT ![d] = Ingested(before, batch)]
        /\ taken' = [taken EXCEPT ![d] = Append(@, batch)]
        /\ UNCHANGED <<overlays, cache, disk, index, now, answer>>

\* backend.clear of one domain.
ClearFiles(d) ==
    /\ UseBackend /\ disk[d] # Absent
    /\ disk' = [disk EXCEPT ![d] = Absent]
    /\ index' = [t \in Dates |-> index[t] \ {d}]
    /\ UNCHANGED <<memory, now, answer, taken>>

\* ingest_focal_actor_context: the overlay of the context is made anew, of its company's node and
\* of a state for the baseline and each kind of assets, dated today.
OwnNodes(c) ==
    LET actor == Context[c].actor
        state(part, at) == <<"OWN", c, part>> :> Node("state", at, {actor})
    IN  (actor :> [Node("actor", now, {}) EXCEPT !.of = c])
        @@ (IF Context[c].baseline = Absent THEN <<>> ELSE state("baseline", Context[c].baseline))
        @@ FoldSet(LAMBDA part, all : state(part, now) @@ all, <<>>, Context[c].assets)

IngestContext(c) ==
    /\ overlays' = [overlays EXCEPT ![c] = OwnNodes(c)]
    /\ UNCHANGED <<graphs, cache, disk, index, now, answer, taken>>

-----------------------------------------------------------------------------
(***************************************************************************)
(* Snapshots.                                                              *)
(***************************************************************************)
\* Mutant: the cache does not tell dates apart.
KeyOfPlace(q) == [domain |-> q.domain, segment |-> q.segment, context |-> q.context]

\* The slice is not part of it.
Key(q) == [domain |-> q.domain, segment |-> q.segment, asOf |-> q.asOf, context |-> q.context]

HasOverlay(q) == q.context # Absent /\ overlays[q.context] # Absent

Filtered(g, q) ==
    LET dated == IF q.asOf = Absent THEN g ELSE AsOf(g, IF q.asOf = Latest THEN now ELSE q.asOf)
    IN  IF q.segment = Absent THEN dated ELSE OfSegment(dated, q.segment)

Cut(g, q) ==
    IF HasOverlay(q)
    THEN Subgraph(Merged(Filtered(g, q), overlays[q.context]), Context[q.context].actor, Slice[q.slice])
    ELSE Filtered(g, q)

Counts(nodes) == [t \in {"actor", "money_flow", "state"} |->
                    Cardinality({i \in DOMAIN nodes : nodes[i].type = t})]

\* "whole" if it is the graph of the store itself; "seen" is history.
Seen(q) == <<taken[q.domain], IF q.context = Absent THEN Absent ELSE overlays[q.context]>>

Snapshot(g, q) ==
    LET cut == Cut(g, q)
    IN  [question |-> q, whole |-> q.asOf = Absent /\ ~HasOverlay(q) /\ cut = g,
         ids |-> DOMAIN cut.nodes, edges |-> cut.edges,
         own |-> IF HasOverlay(q) THEN overlays[q.context] ELSE <<>>,
         counts |-> Counts(cut.nodes), at |-> now, seen |-> Seen(q)]

\* The nodes of a snapshot as they are now.
Nodes(s, g) == IF s.whole THEN g.nodes ELSE Restrict(s.own @@ g.nodes, s.ids)

FreshHit(q) == Key(q) \in DOMAIN cache /\ now - cache[Key(q)].at <= Lifetime

Return(q, s) == answer' = [asked |-> q, snapshot |-> s]

\* The cache answers.
ServeCached(q) ==
    /\ FreshHit(q)
    /\ Return(q, cache[Key(q)])
    /\ UNCHANGED <<memory, disk, index, now, taken>>

\* Mutant: the seed is read whenever a snapshot is cut.
EnsureDomainAnew(d) == IngestSeed(d)

\* The domain is looked for in the memory alone; the seed is read if it is not there.
EnsureDomain(d) ==
    IF graphs[d] # Absent THEN UNCHANGED <<graphs, disk, index>> ELSE IngestSeed(d)

\* A date is compared with none, which raises; the domain that was made sure of stays.
Incomparable(g, q) == q.asOf # Absent /\ \E i \in Of(g, "state") : g.nodes[i].at = Absent

TakeSnapshot(q) ==
    /\ ~FreshHit(q)
    /\ EnsureDomain(q.domain)
    /\ IF Incomparable(graphs'[q.domain], q) THEN UNCHANGED <<cache, answer>>
       ELSE LET s == Snapshot(graphs'[q.domain], q)
            IN  cache' = (Key(q) :> s) @@ cache /\ Return(q, s)
    /\ UNCHANGED <<overlays, now, taken>>

Tick ==
    /\ now < MaxClock
    /\ now' = now + 1
    /\ UNCHANGED <<memory, disk, index, answer, taken>>

\* The process ends, perhaps while it writes the files of a domain or
\* the index, which then counts as empty, and another begins.
Restart ==
    /\ graphs' = [d \in Domain |-> Absent]
    /\ overlays' = [c \in DOMAIN Context |-> Absent]
    /\ cache' = <<>> /\ answer' = Absent
    /\ disk' \in {disk} \union {[disk EXCEPT ![d] = Torn] : d \in {e \in Domain : disk[e] # Absent}}
    /\ index' \in IF disk' = disk THEN {index, [t \in Dates |-> {}]} ELSE {index}
    /\ taken' = [d \in Domain |-> <<>>]
    /\ UNCHANGED now

Next ==
    \/ \E d \in Domain : GetGraph(d) \/ ClearFiles(d) \/ \E b \in Batch : IngestEvidence(d, b)
    \/ \E c \in DOMAIN Context : IngestContext(c)
    \/ \E q \in Question : ServeCached(q) \/ TakeSnapshot(q)
    \/ Tick \/ Restart

Spec == Init /\ [][Next]_vars

-----------------------------------------------------------------------------
(***************************************************************************)
(* Properties.                                                             *)
(***************************************************************************)
GraphOK(g) ==
    \A i \in DOMAIN g.nodes : g.nodes[i].type \in {"actor", "state", "money_flow", "contract"}

TypeOK ==
    /\ \A d \in Domain : graphs[d] = Absent \/ GraphOK(graphs[d])
    /\ \A d \in Domain : disk[d] \in {Absent, Torn} \/ GraphOK(disk[d])
    /\ index \in [Dates -> SUBSET Domain] /\ now \in 0 .. MaxClock
    /\ \A k \in DOMAIN cache : cache[k].at \in 0 .. now

Current(s) == s.seen = Seen(s.question)

\* A snapshot that the cache holds is the one that would be cut now, counts and all, unless since it
\* was cut the domain took in evidence or the context was projected again, which leave the cache
\* alone; and one that is returned was cut for the same question, but perhaps for another slice,
\* which the cache does not tell apart.
ServedIsCurrent ==
    /\ \A k \in DOMAIN cache :
        LET s == cache[k]
            g == graphs[s.question.domain]
        IN  (Current(s) /\ s.question.asOf # Latest) =>
                /\ Nodes(s, g) = Cut(g, s.question).nodes
                /\ s.counts = Counts(Nodes(s, g))
    /\ answer # Absent => [answer.snapshot.question EXCEPT !.slice = answer.asked.slice] = answer.asked

\* A path of so many edges between actors, looked for edge by edge.
Reaches(s, nodes, from, to, hops, types) ==
    \E k \in 0 .. hops : \E path \in [0 .. k -> {i \in DOMAIN nodes : nodes[i].type = "actor"}] :
        /\ path[0] = from /\ path[k] = to
        /\ \A j \in 0 .. k - 1 : \E e \in s.edges :
            e.type \in types /\ {e.from, e.to} = {path[j], path[j + 1]}

\* A snapshot in which nothing has changed shows the state of its date: nothing of the base is
\* newer, no target has two states; an edge of a part of the graph has both its ends in it; and around a company's own context
\* every actor is as near as the slice says, though the context itself may be newer than the date.
SnapshotIsSound ==
    (answer # Absent /\ Current(answer.snapshot)) =>
        LET s == answer.snapshot
            q == s.question
            nodes == Nodes(s, graphs[q.domain])
            base == {i \in DOMAIN nodes : i \notin DOMAIN s.own}
        IN  /\ q.asOf \notin {Absent, Latest} =>
                /\ \A i \in base : nodes[i].at <= q.asOf
                /\ \A i, j \in base : (i # j /\ nodes[i].type = "state" /\ nodes[j].type = "state")
                        => nodes[i].about # nodes[j].about
            /\ ~s.whole => \A e \in s.edges : {e.from, e.to} \subseteq DOMAIN nodes
            /\ s.own # <<>> =>
                \A i \in DOMAIN nodes : nodes[i].type = "actor" =>
                    Reaches(s, nodes, Context[q.context].actor, i, Slice[q.slice].hops,
                            Slice[q.slice].edges)

\* A domain's graph is not lost while the process lives: what it took in stays, and it is never
\* replaced by the seed or by what the files have.
EvidenceStays ==
    [][\A d \in Domain : graphs[d] # Absent =>
        IF graphs'[d] = Absent THEN answer' = Absent
        ELSE DOMAIN graphs[d].nodes \subseteq DOMAIN graphs'[d].nodes]_vars

\* The records of companies that the graph of a domain took in, each with the number of its batch.
Heard(d) == {<<n, r>> \in UNION {{n} \X ToSet(taken[d][n]) : n \in DOMAIN taken[d]} :
                r.kind \in {"company", "financial", "customers", "revenue"}}

\* What a company's actor is known by, and since which batch: the seed, or the first record made it.
SeedActors(d, c) == {i \in Of(Seed[d], "actor") : i \in DOMAIN graphs[d].nodes /\ Seed[d].nodes[i].of = c}
Origin(d, c) ==
    LET seeds == {<<0, Seed[d].nodes[i].known>> : i \in SeedActors(d, c)}
        records == {<<h[1], h[2].told>> : h \in {h \in Heard(d) : h[2].kind = "company" /\ h[2].of = c}}
    IN  IF seeds # {} THEN seeds ELSE {o \in records : \A p \in records : o[1] <= p[1]}

\* A record has a code its company was known by before, and, of the others, the name.
ByCode(d, h) == \E o \in Origin(d, h[2].of) : o[1] < h[1] /\
    \E k \in {"crn", "stock"} \intersect DOMAIN h[2].told : k \in DOMAIN o[2] /\ o[2][k] = h[2].told[k]
SeedNames(d, c) == {Seed[d].nodes[i].known.name : i \in SeedActors(d, c)}
NamesOf(d, c) == SeedNames(d, c) \union {NameTold(h[2].told) : h \in {h \in Heard(d) : h[2].of = c /\ ~ByCode(d, h)}}

Companies(d) == {h[2].of : h \in Heard(d)} \union {c \in {Seed[d].nodes[i].of : i \in Of(Seed[d], "actor")} :
                                                    SeedActors(d, c) # {}}

\* A company is told apart if what comes of it has a code that it was known by before, or a name,
\* always the same or one like that of the seed, that is not like another's; and what has only the
\* name comes in different batches.
ToldApart(d, c) ==
    LET names == NamesOf(d, c)
        others == UNION {NamesOf(d, o) : o \in Companies(d) \ {c}}
    IN  /\ Unknown \notin names
        /\ \/ Cardinality(names) <= 1
           \/ \E s \in SeedNames(d, c) : \A n \in names : Likeness[<<n, s>>] >= Alike
        /\ \A n \in names, o \in others :
            Base[n] # Base[o] /\ Likeness[<<n, o>>] < Alike /\ Likeness[<<o, n>>] < Alike
        /\ \A b \in DOMAIN taken[d] : Cardinality({i \in DOMAIN taken[d][b] :
                taken[d][b][i].of = c /\ ~ByCode(d, <<b, taken[d][b][i]>>)}) <= 1

\* The actors of a company and those its figures are about.
Identities(d, c) ==
    LET nodes == graphs[d].nodes
    IN  {i \in DOMAIN nodes : nodes[i].type = "actor" /\ nodes[i].of = c}
        \union UNION {nodes[i].about : i \in {j \in DOMAIN nodes : nodes[j].type = "state" /\ nodes[j].of = c}}

\* A company that can be told apart has one identity in a domain, which its figures are about, even
\* those that came before it, and which nobody else has.
OneIdentity ==
    \A d \in Domain : graphs[d] # Absent =>
        \A c \in Companies(d) : ToldApart(d, c) =>
            /\ Cardinality(Identities(d, c)) <= 1
            /\ \A o \in Companies(d) \ {c} : Identities(d, c) \intersect Identities(d, o) = {}

\* A number or code that a record tells of a company together with its name is that company's from
\* then on: alone it leads to the actor that the name leads to.
CodesAreLearned ==
    \A d \in Domain : \A told \in {h[2].told : h \in {h \in Heard(d) : h[2].kind = "company"}} :
        "name" \in DOMAIN told =>
            \A k \in {"crn", "stock"} \intersect DOMAIN told :
                Resolved(graphs[d], k :> told[k]) = Resolved(graphs[d], [name |-> told.name])
=============================================================================
