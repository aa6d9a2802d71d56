------------------------------ MODULE Feedback ------------------------------
(***************************************************************************)
(* The learning of cmis_core: outcomes are compared with what a strategy    *)
(* predicted, and a focal actor context (PRJ) gets a new version with what  *)
(* was observed (learning_engine.py, outcome_comparator.py,                 *)
(* metric_learner.py, context_learner.py, focal_actor_context_store.py).    *)
(*                                                                         *)
(* An engine is a process with the stores of contexts and outcomes, which   *)
(* other engines write too.  In memory the versions of a context share the  *)
(* list of outcomes in their lineage and their margins; the store has       *)
(* copies.  Differences from predictions are percentages.                   *)
(***************************************************************************)
EXTENDS Integers, Sequences, FiniteSetsExt, SequencesExt

CONSTANTS
    Engine,
    Given,           \* the names under which users register contexts, as their version 1
    Outcome, About,  \* outcomes, and what each is: [strategy, deltas, revenue, margin]
    MaxUpdates, MaxNotes,
    Absent

\* A name without its trailing "-v<number>", which is 0 where it has none: PRJ-a-vip-v2 is the
\* stem <<"a", "ip">> and the number 2.
Name(stem, number) == [stem |-> stem, version |-> number]

\* What is before the first "-v" of a stem.
First(stem) == <<stem[1]>>

\* Users name the first version, with its number or without one; the stems of all names.
Stems == {name.stem : name \in Given} \cup {First(name.stem) : name \in Given}
FeedbackAssumption ==
    /\ \A name \in Given : \E number \in {0, 1} : name = Name(name.stem, number)
    /\ MaxUpdates \in Nat /\ MaxNotes \in Nat
    /\ Absent \notin Seq(Outcome)
    /\ \A o \in Outcome : About[o].deltas \in Seq(Int)

VARIABLES
    strategies,      \* the strategies each engine was told
    inMemory,        \* the contexts of each engine, by name
    lists, margins,  \* the objects that the contexts of an engine refer to
    rows,            \* the store of contexts, by stem and version
    outcomeRows,     \* the store of outcomes
    notes,           \* what each engine has learned
    updates,         \* how many there were
    applied,         \* history: the outcomes that contexts of a stem were updated from,
    straight         \* and whether each went from the newest version to one of the same stem

vars == <<strategies, inMemory, lists, margins, rows, outcomeRows, notes, updates, applied, straight>>
contextVars == <<inMemory, lists, margins, rows, updates, applied, straight>>

\* A function with one more pair.
With(f, x, y) == [z \in DOMAIN f \cup {x} |-> IF z = x THEN y ELSE f[z]]

Init ==
    /\ strategies = [e \in Engine |-> {}]
    /\ inMemory = [e \in Engine |-> <<>>]
    /\ lists = [e \in Engine |-> <<>>] /\ margins = [e \in Engine |-> <<>>]
    /\ rows = <<>> /\ outcomeRows = {} /\ notes = [e \in Engine |-> <<>>]
    /\ updates = 0 /\ applied = [stem \in Stems |-> <<>>] /\ straight = TRUE

-----------------------------------------------------------------------------
(* Comparison with a prediction                                            *)

Absolute(i) == IF i < 0 THEN -i ELSE i

Total(numbers) ==
    LET sum[i \in 0 .. Len(numbers)] == IF i = 0 THEN 0 ELSE sum[i - 1] + numbers[i]
    IN  sum[Len(numbers)]

\* Is a difference further from the mean than so many standard deviations?  Both sides are
\* squared and multiplied by the square of the number.
Beyond(ds, times) ==
    LET n == Len(ds)
        sum == Total(ds)
        squares == Total([i \in DOMAIN ds |-> ds[i] * ds[i]])
    IN  \E i \in DOMAIN ds : (n * ds[i] - sum) * (n * ds[i] - sum) > times * times * (n * squares - sum * sum)

\* Mutant: two standard deviations.
IsOutlierAtTwo(ds) == Len(ds) > 1 /\ Beyond(ds, 2)

\* detect_outlier; a single difference is its own mean.
IsOutlier(ds) == Len(ds) > 1 /\ Beyond(ds, 3)

\* What one outcome teaches: the differences that change benchmarks and qualities, unless it is an
\* outlier, and whether it is remembered as drift.  The belief in a metric is never adjusted, as
\* that takes three samples and each outcome is one.
Lesson(o) ==
    LET ds == About[o].deltas
    IN  [outcome |-> o, outlier |-> IsOutlier(ds),
         learned |-> IF IsOutlier(ds) THEN {} ELSE {i \in DOMAIN ds : Absolute(ds[i]) > 30},
         drift |-> \E i \in DOMAIN ds : Absolute(ds[i]) > 50]
DirectLesson(o) == [outcome |-> o, outlier |-> FALSE, learned |-> {}, drift |-> FALSE]

-----------------------------------------------------------------------------
(* Operations                                                              *)

\* An outcome is told to one engine, and in the store every engine finds it.
RegisterOutcome(o) ==
    /\ o \notin outcomeRows /\ outcomeRows' = outcomeRows \cup {o}
    /\ UNCHANGED <<strategies, notes, contextVars>>

\* Strategies have no store.
RegisterStrategy(e, s) ==
    /\ strategies' = [strategies EXCEPT ![e] = @ \cup {s}]
    /\ UNCHANGED <<outcomeRows, notes, contextVars>>

\* update_from_outcomes_api for one outcome; one whose strategy is not known is passed over.
Learn(e, o) ==
    /\ o \in outcomeRows /\ Len(notes[e]) < MaxNotes
    /\ About[o].strategy = Absent \/ About[o].strategy \in strategies[e]
    /\ notes' = [notes EXCEPT ![e] = Append(@, IF About[o].strategy = Absent THEN DirectLesson(o) ELSE Lesson(o))]
    /\ UNCHANGED <<strategies, outcomeRows, contextVars>>

\* save, of a copy: the number in the name goes before the version of the record.
Key(c) == <<c.name.stem, IF c.name.version # 0 THEN c.name.version ELSE c.version>>
Row(c, ls, ms) ==
    [c EXCEPT !.from = IF @ = 0 THEN Absent ELSE ls[@], !.margin = IF @ = 0 THEN Absent ELSE ms[@]]
Saved(c, ls, ms) == With(rows, Key(c), Row(c, ls, ms))

Versions(stem) == {k[2] : k \in {k \in DOMAIN rows : k[1] = stem}}
Newest(stem) == rows[<<stem, Max(Versions(stem))>>]

\* A user registers a context that is not there yet, without a lineage of outcomes.
RegisterContext(e, name) ==
    LET c == [name |-> name, version |-> 1, previous |-> Absent, revenue |-> Absent, margin |-> 0, from |-> 0]
    IN  /\ Versions(name.stem) = {}
        /\ inMemory' = [inMemory EXCEPT ![e] = With(@, name, c)]
        /\ rows' = Saved(c, <<>>, <<>>)
        /\ UNCHANGED <<strategies, outcomeRows, lists, margins, notes, updates, applied, straight>>

\* _load_focal_actor_context: the context of that name in memory; else the newest in the store,
\* whatever the number in the name, as new objects.
Found(e, name) == name \in DOMAIN inMemory[e] \/ Versions(name.stem) # {}
Load(e, name) ==
    IF name \in DOMAIN inMemory[e] THEN [c |-> inMemory[e][name], lists |-> lists[e], margins |-> margins[e]]
    ELSE LET r == Newest(name.stem)
             ls == IF r.from = Absent THEN lists[e] ELSE Append(lists[e], r.from)
             ms == IF r.margin = Absent THEN margins[e] ELSE Append(margins[e], r.margin)
         IN  [c |-> [r EXCEPT !.from = IF @ = Absent THEN 0 ELSE Len(ls),
                              !.margin = IF @ = Absent THEN 0 ELSE Len(ms)],
              lists |-> ls, margins |-> ms]

\* A value is put into the object that is referred to, or into a new one.
PutInto(objects, ref, x) == IF ref = 0 THEN Append(objects, x) ELSE [objects EXCEPT ![ref] = x]
RefAfter(objects, ref) == IF ref = 0 THEN Len(objects) + 1 ELSE ref

\* Mutant: the list of outcomes begins anew with each version.
OutcomesAnew(l, o) == <<o>>

Outcomes(l, o) == Append(IF l.c.from = 0 THEN <<>> ELSE l.lists[l.c.from], o)

\* update_baseline_state: the next version, under the first part of the stem.
Updated(l, o) ==
    LET c == l.c
        noted == About[o].margin # Absent
    IN  [c |-> [name |-> Name(First(c.name.stem), c.version + 1), version |-> c.version + 1,
                previous |-> c.name,
                revenue |-> IF About[o].revenue # Absent THEN About[o].revenue ELSE c.revenue,
                margin |-> IF noted THEN RefAfter(l.margins, c.margin) ELSE c.margin,
                from |-> RefAfter(l.lists, c.from)],
         lists |-> PutInto(l.lists, c.from, Outcomes(l, o)),
         margins |-> IF noted THEN PutInto(l.margins, c.margin, About[o].margin) ELSE l.margins]

\* update_focal_actor_context_from_outcome_api: the version is saved in place of one that is there.
Update(e, o, name) ==
    /\ o \in outcomeRows /\ Found(e, name) /\ updates < MaxUpdates
    /\ LET l == Load(e, name)
           u == Updated(l, o)
           stem == l.c.name.stem
       IN  /\ inMemory' = [inMemory EXCEPT ![e] = With(@, u.c.name, u.c)]
           /\ lists' = [lists EXCEPT ![e] = u.lists] /\ margins' = [margins EXCEPT ![e] = u.margins]
           /\ rows' = Saved(u.c, u.lists, u.margins)
           /\ updates' = updates + 1
           /\ applied' = [applied EXCEPT ![stem] = Append(@, o)]
           /\ straight' = (straight /\ u.c.name.stem = stem /\ u.c.previous = Newest(stem).name)
    /\ UNCHANGED <<strategies, outcomeRows, notes>>

\* The process ends and another one starts.
Restart(e) ==
    /\ strategies' = [strategies EXCEPT ![e] = {}]
    /\ inMemory' = [inMemory EXCEPT ![e] = <<>>]
    /\ lists' = [lists EXCEPT ![e] = <<>>] /\ margins' = [margins EXCEPT ![e] = <<>>]
    /\ notes' = [notes EXCEPT ![e] = <<>>]
    /\ UNCHANGED <<rows, outcomeRows, updates, applied, straight>>

Names == Given \cup UNION {DOMAIN inMemory[e] : e \in Engine}

Next ==
    \/ \E o \in Outcome : RegisterOutcome(o)
    \/ \E e \in Engine :
        \/ \E o \in Outcome : Learn(e, o) \/ \E name \in Names : Update(e, o, name)
        \/ \E s \in {About[o].strategy : o \in Outcome} \ {Absent} : RegisterStrategy(e, s)
        \/ \E name \in Given : RegisterContext(e, name)
        \/ Restart(e)

Spec == Init /\ [][Next]_vars
-----------------------------------------------------------------------------
TypeOK ==
    /\ outcomeRows \subseteq Outcome
    /\ \A e \in Engine : \A n \in DOMAIN inMemory[e] :
        LET c == inMemory[e][n]
        IN  c.name = n /\ c.from \in {0} \cup DOMAIN lists[e] /\ c.margin \in {0} \cup DOMAIN margins[e]
    /\ updates <= MaxUpdates /\ straight \in BOOLEAN

\* Is x what the last of the outcomes that has one says, and Absent if none has?
SaysLast(os, said, x) ==
    \/ x = Absent /\ \A i \in DOMAIN os : said[os[i]] = Absent
    \/ \E i \in DOMAIN os :
        /\ x = said[os[i]] /\ x # Absent
        /\ \A j \in DOMAIN os : j > i => said[os[j]] = Absent
Revenues == [o \in Outcome |-> About[o].revenue]
Margins == [o \in Outcome |-> About[o].margin]

\* The newest version of a context names every outcome that was applied to it, in their order, and
\* holds what the last of them say, although versions share objects, engines share the store and
\* processes end; as long as each update was asked of the newest version and the name has no "-v"
\* within.  Otherwise one update replaces the version another one made.
NothingLearnedIsLost ==
    straight => \A k \in DOMAIN rows :
        LET r == Newest(k[1])
            os == applied[k[1]]
        IN  /\ r.from = IF os = <<>> THEN Absent ELSE os
            /\ SaysLast(os, Revenues, r.revenue)
            /\ SaysLast(os, Margins, r.margin)

\* An outcome of fewer than ten metrics is never put aside as an outlier: each large difference
\* counts (outcome_comparator.py detect_outlier, a population's deviation with its own outlier).
FewAreNoOutliers ==
    \A e \in Engine : \A n \in ToSet(notes[e]) :
        LET ds == About[n.outcome].deltas
        IN  Len(ds) < 10 /\ About[n.outcome].strategy # Absent =>
                n.learned = {i \in DOMAIN ds : Absolute(ds[i]) > 30}
=============================================================================
