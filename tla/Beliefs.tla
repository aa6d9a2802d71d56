------------------------------ MODULE Beliefs ------------------------------
(***************************************************************************)
(* The beliefs that cmis_core keeps about one metric in one context:       *)
(* PriorManager's files in the value store and its cache with a lifetime,  *)
(* in each of several processes, and BeliefEngine, which answers a prior   *)
(* and updates it with observations.  A file does not keep how many        *)
(* observations a belief rests on.  A distribution is abstracted to its    *)
(* kind and the observations that it is computed from.                     *)
(***************************************************************************)
EXTENDS Integers, Sequences, FiniteSets, FiniteSetsExt, Functions

CONSTANTS Process,
          Lifetime,      \* of a cached belief
          MaxClock, MaxFiles, MaxObservations,
          Absent         \* nothing cached, or no prior

\* Nothing that is there is Absent.
BeliefAssumption ==
    {Lifetime, MaxClock, MaxFiles, MaxObservations} \subseteq Nat \ {0} /\ Absent \notin Nat

VARIABLES files,         \* the beliefs saved, in order; the index is the identifier
          torn,          \* the files that a process ended in the middle of writing
          cache,         \* of each process: the belief and when it was cached
          now, given,    \* the clock; how many observations have been given
          answer         \* what query_prior_api last answered, when and to whom

vars == <<files, torn, cache, now, given, answer>>

Belief(kind, obs, n, from) == [kind |-> kind, obs |-> obs, n |-> n, from |-> from, widened |-> FALSE]

\* _generate_uninformative_prior: loguniform or uniform, of no observation.
Uninformative == Belief("wide", {}, 0, Absent)

Init ==
    /\ files = <<>> /\ torn = {} /\ now = 1 /\ given = 0 /\ answer = Absent
    /\ cache = [p \in Process |-> Absent]

\* _load_from_value_store: the file with the latest time of those that can be read, any one of
\* them when several have that time; without the number of observations.
Whole(i) == i \in DOMAIN files \ torn
Youngest == {i \in DOMAIN files \ torn : \A j \in DOMAIN files \ torn : files[j].at <= files[i].at}
Restored(b) == [b EXCEPT !.n = 0]

\* get_prior: the cached belief while it is fresh, and else the stored one, which is cached.
CacheIsFresh(p) == cache[p] # Absent /\ now - cache[p].at < Lifetime
Prior(p) ==
    IF CacheIsFresh(p) THEN {cache[p]}
    ELSE {[id |-> i, belief |-> Restored(files[i].belief), at |-> now] : i \in Youngest}

\* Mutant: what is saved is not cached.
SaveFileOnly(p, b) == files' = Append(files, [belief |-> b, at |-> now, by |-> p]) /\ cache' = cache

\* A belief is written to a file of its own and then cached.
Save(p, b) ==
    /\ files' = Append(files, [belief |-> b, at |-> now, by |-> p])
    /\ cache' = [cache EXCEPT ![p] = [id |-> Len(files) + 1, belief |-> b, at |-> now]]

\* Mutant: the adjustment works on the belief in the cache.
AdjustedInPlace(entry, policy) ==
    IF policy # "balanced" /\ entry.belief.kind = "normal" THEN [entry EXCEPT !.belief.widened = TRUE] ELSE entry

\* _apply_policy_adjustment answers a copy, widened by every policy but the balanced one; the
\* cache keeps the belief as it was.
Adjusted(entry, policy) == entry

Answered(p, id) == answer' = [id |-> id, by |-> p, at |-> now, upTo |-> Len(files')]

\* query_prior_api: a prior made for want of any is saved.
QueryPrior(p, policy) ==
    /\ \/ \E entry \in Prior(p) :
            /\ cache' = [cache EXCEPT ![p] = Adjusted(entry, policy)]
            /\ files' = files
            /\ Answered(p, entry.id)
       \/ /\ Prior(p) = {} /\ Len(files) < MaxFiles
          /\ Save(p, Uninformative)
          /\ Answered(p, Len(files) + 1)
    /\ UNCHANGED <<torn, now, given>>

\* Mutant: what the prior rests on is counted again.
CountAgain(prior, obs) == prior.n + Cardinality(prior.obs \cup obs)

Count(prior, obs) == prior.n + Cardinality(obs)

\* bayesian_update: only a normal prior has a part in its posterior; direct_replace ignores it.
Posterior(prior, obs, mode, from) ==
    LET kind == IF mode = "replace" \/ prior.kind = "normal" THEN "normal" ELSE "empirical"
        rests == IF mode = "bayesian" /\ prior.kind = "normal" THEN prior.obs \cup obs ELSE obs
    IN  [Belief(kind, rests, Count(prior, obs), from) EXCEPT
            !.widened = mode = "bayesian" /\ prior.kind = "normal" /\ prior.widened]

\* update_belief_api; a prior made for want of any is not saved here, though it is named.
UpdateBelief(p, size, mode) ==
    /\ given + size <= MaxObservations /\ Len(files) < MaxFiles
    /\ LET obs == (given + 1)..(given + size)
       IN  \/ \E entry \in Prior(p) : Save(p, Posterior(entry.belief, obs, mode, entry.id))
           \/ Prior(p) = {} /\ Save(p, Posterior(Uninformative, obs, mode, 0))
    /\ given' = given + size
    /\ UNCHANGED <<torn, now, answer>>

\* The process ends, also in the middle of writing a file: what is left cannot be read.
Crash(p) ==
    /\ cache' = [cache EXCEPT ![p] = Absent]
    /\ \/ UNCHANGED <<files, torn>>
       \/ /\ Len(files) < MaxFiles
          /\ files' = Append(files, [belief |-> Uninformative, at |-> now, by |-> p])
          /\ torn' = torn \cup {Len(files) + 1}
    /\ UNCHANGED <<now, given, answer>>

Tick == now < MaxClock /\ now' = now + 1 /\ UNCHANGED <<files, torn, cache, given, answer>>

Next ==
    \/ \E p \in Process :
         \/ \E policy \in {"strict", "balanced", "exploration"} : QueryPrior(p, policy)
         \/ \E size \in 1..2, mode \in {"bayesian", "replace"} : UpdateBelief(p, size, mode)
         \/ Crash(p)
    \/ Tick

Spec == Init /\ [][Next]_vars
----------------------------------------------------------------------------
TypeOK ==
    /\ torn \subseteq DOMAIN files /\ now \in 1..MaxClock /\ given \in 0..MaxObservations
    /\ \A p \in Process : cache[p] # Absent => cache[p].id \in DOMAIN files
    /\ \A i \in DOMAIN files : files[i].belief.obs \subseteq 1..given

\* The prior that is answered is no older than the last one that the same process saved, nor
\* than any that was saved a lifetime ago, by whatever process; a file that was cut short is
\* passed over in favour of an older one.
PriorIsCurrent ==
    answer # Absent =>
       /\ Whole(answer.id)
       /\ \A i \in 1..answer.upTo :
             Whole(i) /\ (files[i].by = answer.by \/ answer.at - files[i].at >= Lifetime)
                => files[i].at <= files[answer.id].at

\* The observations of a belief and of all that it descends from.
Descent == LET of[i \in DOMAIN files] ==
                   files[i].belief.obs \cup
                   (IF files[i].belief.from \in DOMAIN files THEN of[files[i].belief.from] ELSE {})
           IN  of

\* The prior of a belief is an older file that can be read, or one made for want of any, a
\* normal belief was given observations, and what is kept was never widened by a policy.
PriorsAreReal ==
    \A i \in DOMAIN files :
       LET b == files[i].belief
       IN  /\ b.from = Absent \/ b.from = 0 \/ (Whole(b.from) /\ b.from < i)
           /\ b.kind = "normal" => b.obs # {}
           /\ ~b.widened

\* A belief's number of observations, from which its confidence is computed, never exceeds the
\* observations that it and its priors were given.  The number may fall short: a belief that was
\* read back from its file counts from zero.
CountsAreBacked ==
    /\ PriorsAreReal
    /\ \A i \in DOMAIN files : files[i].belief.n <= Cardinality(Descent[i])
============================================================================
