-------------------------------- MODULE Packs --------------------------------
(***************************************************************************)
(* Packs (BPK): versions of lists of references to curated bundles, from    *)
(* which the evidence source chooses a bundle unless a focal actor context  *)
(* (PRJ) names one (pack_store.py, curated_internal_source.py, verify.py).  *)
(* What it then finds in the bundle is the subject of Curated.              *)
(*                                                                         *)
(* Each client has a connection to brownfield.db.  append_version reads the *)
(* latest version and then inserts the next; the insert opens a transaction *)
(* that lasts until the caller commits or closes, and SQLite makes the      *)
(* other writers fail meanwhile.  A fetch reads on connections of its own,  *)
(* first the reference and then the bundle.                                 *)
(***************************************************************************)
EXTENDS Integers, Sequences, FiniteSets, FiniteSetsExt, SequencesExt, Functions

CONSTANTS
    Client,      \* connections that write
    Pack, Base,  \* packs, and focal actor contexts without their version
    Bundle,      \* bundles that may be curated; a bundle's digest goes by its name
    PackSpec,    \* what packs may say: [entries, mode]
    Lineage,     \* the primary bundles that contexts are saved with
    Question,    \* what is asked for: [context, pin, pack, selector, pivot]
    MaxVersions, MaxContexts,
    Absent

Entry == [bundle : Bundle \cup {Absent}, digest : Bundle \cup {Absent}, asOf : Nat \cup {Absent},
          status : {"draft", "validated", Absent}]

\* Nothing that is there is Absent, and a version that is asked for is one of a context.
PackAssumption ==
    /\ MaxVersions \in Nat
    /\ Absent \notin Client \cup Bundle \cup Base \cup Nat
    /\ \A s \in PackSpec : s.entries \in Seq(Entry)
    /\ \A s \in PackSpec : \A i \in DOMAIN s.entries :
        [bundle |-> s.entries[i].bundle, digest |-> s.entries[i].digest] # Absent
    /\ \A l \in Lineage \ {Absent} : {l.bundle, l.digest} \subseteq Bundle \cup {Absent}
    /\ \A q \in Question : q.context \in Base \cup {Absent} /\ q.pivot \in Nat \cup {Absent}
    /\ \A q \in Question : q.pin # Absent => q.context # Absent

VARIABLES
    tables,      \* packs and bundles as the writer sees them
    saved,       \* as they are committed
    writer,      \* the client whose transaction is open
    held,        \* the row that each client is about to insert
    contexts,    \* the lineages of each context, by version
    asked,       \* the fetch between its two reads
    answer,      \* the last fetch
    verified,    \* history: the references that a verification passed
    served       \* history: the bundles that questions about a version were answered from

vars == <<tables, saved, writer, held, contexts, asked, answer, verified, served>>

\* An entry of a pack, and a lineage, refers to a bundle and the digest it is to have.
Reference(e) == [bundle |-> e.bundle, digest |-> e.digest]
Whole(r) == r.bundle # Absent /\ r.digest # Absent

\* Mutant: a bundle of this name is enough.
ServesByName(t, r) == r.bundle \in t.bundles

\* The bundle is there with the digest that is expected of it.
Serves(t, r) == r.bundle \in t.bundles /\ r.bundle = r.digest

\* The latest version of pack p, 0 if it has none.
LastVersion(t, p) == Max({0} \cup {k[2] : k \in {k \in DOMAIN t.packs : k[1] = p}})

Init ==
    /\ tables = [packs |-> <<>>, bundles |-> {}] /\ saved = tables
    /\ writer = Absent /\ held = [c \in Client |-> Absent]
    /\ contexts = [b \in Base |-> <<>>]
    /\ asked = Absent /\ answer = Absent /\ verified = {} /\ served = {}

-----------------------------------------------------------------------------
(* Selection: the positions of entries in a pack's list                    *)

Dated(es, I) == {i \in I : es[i].asOf # Absent}

\* The validated entries, and one without a status is; all of them if none is.
Candidates(es) ==
    LET validated == {i \in DOMAIN es : es[i].status \in {Absent, "validated"}}
    IN  IF validated # {} THEN validated ELSE DOMAIN es

\* The sorts are stable: of the latest the last one, of the earliest the first one.
LastOf(es, I) == Max({i \in I : \A j \in I : es[j].asOf <= es[i].asOf})
FirstOf(es, I) == Min({i \in I : \A j \in I : es[i].asOf <= es[j].asOf})

\* Mutant: a bundle of the very day is not taken.
NearestBefore(es, I, pivot) ==
    LET before == {i \in I : es[i].asOf < pivot} IN IF before # {} THEN LastOf(es, before) ELSE FirstOf(es, I)

\* The closest at the pivot or before it, else the earliest.
Nearest(es, I, pivot) ==
    LET before == {i \in I : es[i].asOf <= pivot} IN IF before # {} THEN LastOf(es, before) ELSE FirstOf(es, I)

\* select_bundle_from_pack_spec: the position of the entry; 0 where it raises.
Select(es, mode, pivot) ==
    LET I == Candidates(es)
        D == Dated(es, I)
    IN  IF es = <<>> THEN 0
        ELSE CASE mode = "latest_validated" -> IF D # {} THEN LastOf(es, D) ELSE Max(I)
               [] mode \in {"fixed_date", "user_select"} ->
                    IF pivot = Absent \/ D = {} THEN 0 ELSE Nearest(es, D, pivot)
               [] OTHER -> 0

-----------------------------------------------------------------------------
(* Writing                                                                 *)

Seen(c) == IF writer = c THEN tables ELSE saved
MayWrite(c) == writer \in {Absent, c}
Reads == <<contexts, asked, answer, served>>

\* create reads nothing, append_version reads the latest version.
Start(c, p, s, version) ==
    /\ held[c] = Absent /\ version <= MaxVersions
    /\ held' = [held EXCEPT ![c] = [key |-> <<p, version>>, spec |-> s]]
    /\ UNCHANGED <<tables, saved, writer, verified, Reads>>

Create(c, p, s) == Start(c, p, s, 1)
AppendVersion(c, p, s) == Start(c, p, s, LastVersion(Seen(c), p) + 1)

\* Mutant: INSERT OR REPLACE.
WithRowReplaced(packs, key, s) ==
    [k \in DOMAIN packs \cup {key} |-> IF k = key THEN s ELSE packs[k]]

\* The primary key refuses a version that is there.
WithRow(packs, key, s) ==
    [k \in DOMAIN packs \cup {key} |-> IF k \in DOMAIN packs THEN packs[k] ELSE s]

\* A refused insert, too, leaves the transaction open.
Insert(c) ==
    /\ held[c] # Absent /\ MayWrite(c)
    /\ tables' = [tables EXCEPT !.packs = WithRow(@, held[c].key, held[c].spec)]
    /\ writer' = c /\ held' = [held EXCEPT ![c] = Absent]
    /\ UNCHANGED <<saved, verified, Reads>>

\* The database is locked until the call gives up.
Locked(c) ==
    /\ held[c] # Absent /\ ~MayWrite(c)
    /\ held' = [held EXCEPT ![c] = Absent]
    /\ UNCHANGED <<tables, saved, writer, verified, Reads>>

\* A bundle is curated; its transactions are those of Curated.
PutBundle(c, b) ==
    /\ held[c] = Absent /\ MayWrite(c) /\ b \notin tables.bundles
    /\ tables' = [tables EXCEPT !.bundles = @ \cup {b}]
    /\ writer' = c
    /\ UNCHANGED <<saved, held, verified, Reads>>

Commit(c) ==
    /\ writer = c /\ held[c] = Absent
    /\ saved' = tables /\ writer' = Absent
    /\ UNCHANGED <<tables, held, verified, Reads>>

\* The caller rolls back or closes; or its process ends, in whatever it does.
Close(c) ==
    /\ writer = c \/ held[c] # Absent
    /\ IF writer = c THEN tables' = saved /\ writer' = Absent ELSE UNCHANGED <<tables, writer>>
    /\ held' = [held EXCEPT ![c] = Absent]
    /\ UNCHANGED <<saved, verified, Reads>>

\* Mutant: the migration leaves the caller's transaction open.
NothingMigrated(c) == UNCHANGED <<saved, writer>>

\* migrate_brownfield_db ends with a commit, also of what the caller has written.
Migrate(c) ==
    IF writer = c THEN saved' = tables /\ writer' = Absent ELSE UNCHANGED <<saved, writer>>

\* verify_pack on the caller's connection passes if the version has entries and each finds its
\* bundle; passed or not, it has migrated.
VerifyPack(c, p, version) ==
    /\ held[c] = Absent
    /\ LET packs == Seen(c).packs
           refs == IF <<p, version>> \in DOMAIN packs
                   THEN {Reference(e) : e \in ToSet(packs[<<p, version>>].entries)} ELSE {}
           passes == refs # {} /\ \A r \in refs : Whole(r) /\ Serves(Seen(c), r)
       IN  verified' = IF passes THEN verified \cup refs ELSE verified
    /\ Migrate(c)
    /\ UNCHANGED <<tables, held, Reads>>

\* A context is saved; how it is published is the subject of Brownfield.
SaveContext(b, l) ==
    /\ Len(contexts[b]) < MaxContexts
    /\ contexts' = [contexts EXCEPT ![b] = Append(@, l)]
    /\ UNCHANGED <<tables, saved, writer, held, verified, asked, answer, served>>

\* verify_prj, on a connection of its own, passes; the context names its builder's version.
VerifyContext(b, version) ==
    /\ version \in DOMAIN contexts[b]
    /\ LET l == contexts[b][version]
       IN  l # Absent /\ Whole(l) /\ Serves(saved, l) /\ verified' = verified \cup {l}
    /\ UNCHANGED <<tables, saved, writer, held, Reads>>

-----------------------------------------------------------------------------
(* Reading                                                                 *)

\* Mutant: the version of the context's name is not looked at.
LatestContext(q) == LET of == contexts[q.context] IN IF of = <<>> THEN Absent ELSE Last(of)

\* _load_prj: the version that is pinned, else the latest, and the bundle its lineage names.
ContextOf(q) ==
    LET of == contexts[q.context]
        version == IF q.pin = Absent THEN Len(of) ELSE q.pin
    IN  IF version \in DOMAIN of THEN of[version] ELSE Absent

\* _select_bundle_from_pack: the latest version of the pack; the question's selector goes before
\* the pack's.
PackOf(q) == LET v == LastVersion(saved, q.pack) IN IF v = 0 THEN Absent ELSE saved.packs[<<q.pack, v>>]
ModeOf(q, spec) ==
    IF q.selector # Absent THEN q.selector
    ELSE IF spec.mode # Absent THEN spec.mode ELSE "latest_validated"
Choice(q) ==
    LET spec == PackOf(q) IN IF spec = Absent THEN 0 ELSE Select(spec.entries, ModeOf(q, spec), q.pivot)

\* fetch: the reference, from the context if one is asked about, also if it has none.
Chosen(q) ==
    IF q.context # Absent THEN ContextOf(q)
    ELSE IF Choice(q) # 0 THEN Reference(PackOf(q).entries[Choice(q)]) ELSE Absent

Ask(q) ==
    /\ asked = Absent
    /\ LET r == Chosen(q)
           from == [question |-> q, spec |-> IF q.context = Absent THEN PackOf(q) ELSE Absent,
                    entry |-> IF q.context = Absent THEN Choice(q) ELSE 0, sure |-> r \in verified]
       IN  IF r # Absent /\ Whole(r) THEN asked' = [from |-> from, ref |-> r] /\ UNCHANGED answer
           ELSE asked' = Absent /\ answer' = [from |-> from, bundle |-> Absent]
    /\ UNCHANGED <<tables, saved, writer, held, verified, contexts, served>>

\* The bundle is looked up, and its digest compared.
Look ==
    /\ asked # Absent
    /\ LET found == IF Serves(saved, asked.ref) THEN asked.ref.bundle ELSE Absent
       IN  /\ answer' = [from |-> asked.from, bundle |-> found]
           /\ served' = IF found = Absent \/ asked.from.question.pin = Absent THEN served
                        ELSE served \cup {<<asked.from.question, found>>}
    /\ asked' = Absent
    /\ UNCHANGED <<tables, saved, writer, held, verified, contexts>>

Next ==
    \/ \E c \in Client :
        \/ \E p \in Pack, s \in PackSpec : Create(c, p, s) \/ AppendVersion(c, p, s)
        \/ Insert(c) \/ Locked(c) \/ Commit(c) \/ Close(c)
        \/ \E b \in Bundle : PutBundle(c, b)
        \/ \E p \in Pack, v \in 1..MaxVersions : VerifyPack(c, p, v)
    \/ \E b \in Base : \/ \E l \in Lineage : SaveContext(b, l)
                       \/ \E v \in 1..MaxContexts : VerifyContext(b, v)
    \/ \E q \in Question : Ask(q)
    \/ Look

Spec == Init /\ [][Next]_vars
-----------------------------------------------------------------------------
Tables == [packs : UNION {[K -> PackSpec] : K \in SUBSET (Pack \X (1..MaxVersions))}, bundles : SUBSET Bundle]

TypeOK ==
    /\ tables \in Tables /\ saved \in Tables
    /\ writer \in Client \cup {Absent} /\ (writer = Absent => saved = tables)
    /\ contexts \in [Base -> Seq(Lineage)]
    /\ \A s \in served : s[1] \in Question /\ s[2] \in Bundle

\* The versions of a pack have no gaps, whoever appends at the same time and fails ...
VersionsAreDense ==
    \A k \in DOMAIN saved.packs : \A v \in 1..k[2] : <<k[1], v>> \in DOMAIN saved.packs

\* ... and a version that is committed never changes (pack_store.py: append-only).
PackVersionsStay == [][saved.packs = Restrict(saved'.packs, DOMAIN saved.packs)]_vars

\* A reference that a verification passed leads to its bundle from then on, also when the
\* verifying caller rolls back what it has written, and a fetch by it is answered.
VerifiedIsServed ==
    /\ \A r \in verified : r.bundle \in saved.bundles /\ r.digest = r.bundle
    /\ answer # Absent /\ answer.from.sure => answer.bundle # Absent

\* A question about a version of a context is answered from one bundle for ever, whatever is
\* published, appended or curated.
PinnedStaysPut ==
    \A s, t \in served : s[1] = t[1] => s[2] = t[2]

\* Of the entries of a pack that may be taken, none lies between the pivot and the one that is,
\* and an entry after the pivot is taken only if all are; without a pivot none is later.
SelectedIsNearest ==
    answer # Absent /\ answer.from.entry # 0 =>
        LET q == answer.from.question
            es == answer.from.spec.entries
            e == es[answer.from.entry]
            rivals == {d \in ToSet(es) : d.status \in {Absent, "validated"} /\ d.asOf # Absent}
            at == IF ModeOf(q, answer.from.spec) = "latest_validated" THEN Max({0} \cup {d.asOf : d \in rivals})
                  ELSE q.pivot
        IN  rivals # {} =>
                /\ e \in rivals
                /\ \A d \in rivals : /\ d.asOf <= at => e.asOf <= at /\ d.asOf <= e.asOf
                                     /\ e.asOf > at => e.asOf <= d.asOf
=============================================================================
