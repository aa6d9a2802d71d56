------------------------------- MODULE Curated -------------------------------
(***************************************************************************)
(* The data of brownfield.db after an import: curated data (CUR), bundles  *)
(* of them (CUB) and data override patches (DOP), and what the evidence    *)
(* source finds of them (curated_store.py, dop_store.py,                   *)
(* curated_internal_source.py).                                            *)
(*                                                                         *)
(* Data and bundles are never changed: patches are applied to a bundle by  *)
(* writing new data and a new bundle whose chain lists the patches.        *)
(* Identifiers are the positions in the tables; a digest is the content it *)
(* is taken of.  A payload is one number that patches are about.           *)
(*                                                                         *)
(* Changes are made by one connection.  Python's sqlite3 opens a           *)
(* transaction with the first change and keeps it open until the caller    *)
(* commits; SQLite makes the other writers wait until then.  The evidence  *)
(* source has a connection of its own and sees what is committed.          *)
(***************************************************************************)
EXTENDS Naturals, Sequences, SequencesExt

CONSTANTS
    Key,        \* semantic keys
    Import,     \* the items a bundle may be made of: lists of keys and payloads
    Change,     \* what a patch may do to a payload: [op, value]
    MaxNumber,  \* bounds: numbers in payloads,
    MaxPatches, \* patches,
    MaxBundles, \* bundles
    MaxRun      \* and patches applied in one call

Number(i) == [kind |-> "number", n |-> i]
Absent == [kind |-> "absent", n |-> 0]
Payload == [kind : {"number"}, n : 0 .. MaxNumber] \cup [kind : {"text", "absent"}, n : {0}]

Mode == {"reporting_strict", "decision_balanced", "exploration_friendly"}

CuratedAssumption ==
    /\ MaxNumber \in Nat /\ MaxPatches \in Nat /\ MaxBundles \in Nat /\ MaxRun \in Nat
    /\ Import \subseteq Seq([key : Key, payload : Payload]) \ {<<>>}
    /\ \A m \in Import : \A i, j \in DOMAIN m : m[i].key = m[j].key => i = j
    /\ Change \subseteq [op : {"set", "add", "multiply", "delete"}, value : Payload \ {Absent}]

VARIABLES
    now,    \* the tables as the connection sees them
    saved,  \* as they are committed
    open    \* is a transaction open?

vars == <<now, saved, open>>

\* A datum's lineage: the datum it was patched from (0: none) and the patches.
Datum == [key : Key, payload : Payload, from : Nat, patches : Seq(Nat)]
Bundle == [chain : Seq(Nat), items : UNION {[K -> Payload] : K \in SUBSET Key}]
Patch == [bundle : Nat \ {0}, datum : Nat, change : Change, approved : {"yes", "no"}]

Tables == [data : Seq(Datum), bundles : Seq(Bundle), patches : Seq(Patch)]

Init ==
    /\ now = [data |-> <<>>, bundles |-> <<>>, patches |-> <<>>]
    /\ saved = now
    /\ open = "no"

-----------------------------------------------------------------------------
(* Rows: what is already there is not written again                        *)

\* The data with this key and payload; there is one at most.
Find(data, k, x) == {i \in DOMAIN data : data[i].key = k /\ data[i].payload = x}

\* Mutant: a datum that is there already gets the new lineage.
PutLineage(data, d) ==
    IF Find(data, d.key, d.payload) = {} THEN Append(data, d)
    ELSE [i \in DOMAIN data |->
            IF i \in Find(data, d.key, d.payload) THEN [data[i] EXCEPT !.patches = d.patches] ELSE data[i]]

Put(data, d) == IF Find(data, d.key, d.payload) = {} THEN Append(data, d) ELSE data

\* One row after the other.
PutAll(data, rows) ==
    LET put[i \in 0 .. Len(rows)] == IF i = 0 THEN data ELSE Put(put[i - 1], rows[i])
    IN  put[Len(rows)]

PutBundle(bundles, b) == IF b \in ToSet(bundles) THEN bundles ELSE Append(bundles, b)

\* A statement that changes rows opens a transaction if none is open.
Write(tables) == now' = tables /\ open' = "yes" /\ UNCHANGED saved

-----------------------------------------------------------------------------
(* Applying patches                                                        *)

\* Can the change be made to payload x?
Applicable(x, c) ==
    \/ c.op = "set"
    \/ c.op = "delete" /\ x # Absent
    \/ c.op \in {"add", "multiply"} /\ x.kind = "number" /\ c.value.kind = "number"

After(x, c) ==
    CASE c.op = "set" -> c.value
      [] c.op = "delete" -> Absent
      [] c.op = "add" -> Number(x.n + c.value.n)
      [] OTHER -> Number(x.n * c.value.n)

Changes(patches, qs) == [i \in DOMAIN qs |-> patches[qs[i]].change]

\* What becomes of payload x under the changes cs, one after the other.
History(x, cs) ==
    LET after[i \in 0 .. Len(cs)] == IF i = 0 THEN x ELSE After(after[i - 1], cs[i])
    IN  after

Result(x, cs) == History(x, cs)[Len(cs)]

\* None of them fails; a failure is never made good.
Succeeds(x, cs) == \A i \in DOMAIN cs : Applicable(History(x, cs)[i - 1], cs[i])

\* The item of bundle b that patch p is for: the one its datum is the payload
\* of, or the only one if the patch names no datum.
Target(t, b, p) ==
    LET items == t.bundles[b].items
        d == t.patches[p].datum
    IN  {k \in DOMAIN items :
            IF d = 0 THEN DOMAIN items = {k} ELSE d \in Find(t.data, k, items[k])}

\* The checks before anything is written.
Admissible(t, b, ps, mode) ==
    /\ \A p \in ToSet(ps) :
        /\ t.patches[p].bundle = b
        /\ mode = "reporting_strict" => t.patches[p].approved = "yes"
        /\ p \notin ToSet(t.bundles[b].chain)
        /\ Target(t, b, p) # {}
    /\ \A k \in DOMAIN t.bundles[b].items : Find(t.data, k, t.bundles[b].items[k]) # {}

ItemOf(t, b, p) == CHOOSE k \in Target(t, b, p) : TRUE

\* The members of s at the places I, in their order.
Selected(s, I) ==
    LET taken[i \in 0 .. Len(s)] ==
            IF i = 0 THEN <<>> ELSE IF i \in I THEN Append(taken[i - 1], s[i]) ELSE taken[i - 1]
    IN  taken[Len(s)]

\* The patches of one item, and what they make of it.
Of(t, b, ps, k) == Selected(ps, {i \in DOMAIN ps : k \in Target(t, b, ps[i])})
ChangesOf(t, b, ps, k) == Changes(t.patches, Of(t, b, ps, k))
Runs(t, b, ps, k) == Succeeds(t.bundles[b].items[k], ChangesOf(t, b, ps, k))
Patched(t, b, ps) ==
    [k \in DOMAIN t.bundles[b].items |-> Result(t.bundles[b].items[k], ChangesOf(t, b, ps, k))]

\* The datum that is written for item k.
Row(t, b, ps, k) ==
    LET d == CHOOSE i \in Find(t.data, k, t.bundles[b].items[k]) : TRUE
    IN  [key |-> k, payload |-> Patched(t, b, ps)[k], from |-> d,
         patches |-> t.data[d].patches \o Of(t, b, ps, k)]

\* The rows of the items in the order they are first met in the first n patches.  At a patch of
\* an item met before there is nothing to do: its row is there.
Rows(t, b, ps, n) == [i \in 1 .. n |-> Row(t, b, ps, ItemOf(t, b, ps[i]))]

-----------------------------------------------------------------------------
(* Operations                                                              *)

\* One datum per item of m and a bundle of them without patches.
Items(m) == [k \in {m[i].key : i \in DOMAIN m} |-> m[CHOOSE i \in DOMAIN m : m[i].key = k].payload]
NewRows(m) ==
    [i \in DOMAIN m |-> [key |-> m[i].key, payload |-> m[i].payload, from |-> 0, patches |-> <<>>]]
Bundled(m) ==
    [now EXCEPT !.data = PutAll(@, NewRows(m)),
                !.bundles = PutBundle(@, [chain |-> <<>>, items |-> Items(m)])]

\* commit_import_run: the one table of a file, in a transaction of its own.
CommitImport(m) ==
    /\ open = "no" /\ Len(now.bundles) < MaxBundles
    /\ Len(m) = 1
    /\ now' = Bundled(m) /\ saved' = now'
    /\ UNCHANGED open

\* A caller of the stores curates a bundle of its own.
Curate(m) == Len(now.bundles) < MaxBundles /\ Write(Bundled(m))

\* DataOverridePatchStore.create: a patch with this content is not made again.
Create(b, d, c, approved) ==
    /\ Len(now.patches) < MaxPatches
    /\ \A p \in DOMAIN now.patches :
        now.patches[p].bundle # b \/ now.patches[p].datum # d \/ now.patches[p].change # c
    /\ Write([now EXCEPT !.patches =
                    Append(@, [bundle |-> b, datum |-> d, change |-> c, approved |-> approved])])

\* DataOverridePatchStore.approve.
Approve(p) == Write([now EXCEPT !.patches[p].approved = "yes"])

\* apply_data_override_patches_to_bundle: the new data and the new bundle, in a
\* transaction of its own unless one is open.
Apply(b, ps, mode) ==
    /\ Len(now.bundles) < MaxBundles
    /\ Admissible(now, b, ps, mode)
    /\ \A k \in DOMAIN now.bundles[b].items :
        Runs(now, b, ps, k) /\ Patched(now, b, ps)[k].n <= MaxNumber
    /\ now' = [now EXCEPT !.data = PutAll(@, Rows(now, b, ps, Len(ps))),
                          !.bundles = PutBundle(@, [chain |-> now.bundles[b].chain \o ps,
                                                    items |-> Patched(now, b, ps)])]
    /\ saved' = IF open = "no" THEN now' ELSE saved
    /\ UNCHANGED open

\* It raises at the first item that fails.  Its own transaction is rolled back; in the
\* caller's the data of the items met before, among the first n patches, stay.
ApplyFails(b, ps, mode) ==
    /\ open = "yes"
    /\ Admissible(now, b, ps, mode)
    /\ \E n \in 0 .. Len(ps) - 1 :
        /\ \A i \in 1 .. n : LET k == ItemOf(now, b, ps[i])
                            IN  Runs(now, b, ps, k) /\ Patched(now, b, ps)[k].n <= MaxNumber
        /\ ~ Runs(now, b, ps, ItemOf(now, b, ps[n + 1]))
        /\ now' = [now EXCEPT !.data = PutAll(@, Rows(now, b, ps, n))]
    /\ UNCHANGED <<saved, open>>

\* The caller commits; so does migrate_brownfield_db in verify_prj
\* and verify_pack when they are given the caller's connection.
Commit == open = "yes" /\ saved' = now /\ open' = "no" /\ UNCHANGED now

\* The caller rolls back, closes the connection or dies.
Close == open = "yes" /\ now' = saved /\ open' = "no" /\ UNCHANGED saved

PatchLists == UNION {[1 .. i -> DOMAIN now.patches] : i \in 1 .. MaxRun}

Next ==
    \/ \E m \in Import : CommitImport(m) \/ Curate(m)
    \/ \E b \in DOMAIN now.bundles, d \in {0} \cup DOMAIN now.data, c \in Change, a \in {"yes", "no"} :
        Create(b, d, c, a)
    \/ \E p \in DOMAIN now.patches : Approve(p)
    \/ \E b \in DOMAIN now.bundles, ps \in PatchLists, mode \in Mode :
        Apply(b, ps, mode) \/ ApplyFails(b, ps, mode)
    \/ Commit \/ Close

Spec == Init /\ [][Next]_vars
-----------------------------------------------------------------------------
(* Properties                                                              *)

\* The tables hold rows of the right types.
TypeOK ==
    /\ now \in Tables /\ saved \in Tables
    /\ open \in {"yes", "no"}

\* The bundle a chain of patches starts from.
Root(t, b) ==
    IF t.bundles[b].chain = <<>> THEN b ELSE t.patches[Head(t.bundles[b].chain)].bundle

\* Each patch of a chain was written for the bundle of the patches before it.
InTurn(t, b) ==
    LET chain == t.bundles[b].chain
    IN  \A i \in DOMAIN chain :
            LET base == t.bundles[t.patches[chain[i]].bundle].chain
            IN  Len(base) < i /\ IsPrefix(base, chain)

\* What the items of bundle b are by its chain alone: those of the root, each
\* patch in its turn applied to the item whose datum it names.
KeyOf(t, b, p) ==
    IF t.patches[p].datum = 0 THEN CHOOSE k \in DOMAIN t.bundles[b].items : TRUE
    ELSE t.data[t.patches[p].datum].key
Steps(t, b) ==
    [i \in DOMAIN t.bundles[b].chain |->
        [key |-> KeyOf(t, b, t.bundles[b].chain[i]), change |-> t.patches[t.bundles[b].chain[i]].change]]
Replay(items, steps) ==
    LET after[i \in 0 .. Len(steps)] ==
            IF i = 0 THEN items
            ELSE [after[i - 1] EXCEPT ![steps[i].key] = After(@, steps[i].change)]
    IN  after[Len(steps)]
Replayed(t, b) == Replay(t.bundles[Root(t, b)].items, Steps(t, b))

\* A bundle is what its chain says: although patches are applied item by item,
\* in several calls, and rows are shared, its items are those of the bundle the
\* chain starts from with the patches applied in the chain's order
\* (dop_store.py apply_data_override_patches_to_bundle).
ChainReplays == \A b \in DOMAIN now.bundles : InTurn(now, b) /\ now.bundles[b].items = Replayed(now, b)

\* What the evidence source finds for an item of a committed bundle is the
\* payload its chain says, also after a failed application, a rollback or a
\* crash (curated_internal_source.py fetch, curated_store.py find_datum_id).
ServedAsReplayed ==
    \A b \in DOMAIN saved.bundles : \A k \in DOMAIN saved.bundles[b].items :
        \E i \in Find(saved.data, k, saved.bundles[b].items[k]) :
            saved.data[i].payload = Replayed(saved, b)[k]

\* The lineage of a datum is a true history: the datum it was patched from with
\* the patches added since gives its payload (dop_store.py:510-525).
LineageOf(t, i) ==
    LET d == t.data[i]
        f == t.data[d.from]
        cs == Changes(t.patches, SubSeq(d.patches, Len(f.patches) + 1, Len(d.patches)))
    IN  IF d.from = 0 THEN d.patches = <<>>
        ELSE /\ d.from < i /\ f.key = d.key /\ IsPrefix(f.patches, d.patches)
             /\ Succeeds(f.payload, cs) /\ Result(f.payload, cs) = d.payload
LineageIsTrue == \A i \in DOMAIN now.data : LineageOf(now, i)

=============================================================================
