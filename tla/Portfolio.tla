----------------------------- MODULE Portfolio -----------------------------
(***************************************************************************)
(* The patterns and the strategies of cmis_v2: engines/pattern.py measures *)
(* how well the nodes of a snapshot show each business pattern, and        *)
(* engines/strategy.py makes candidates of the matches, has their expected *)
(* impact set with evidence, and ranks them.                               *)
(*                                                                         *)
(* Scores are integers in thousandths, rounded down.                       *)
(***************************************************************************)
EXTENDS Collections, FiniteSetsExt

CONSTANTS Patterns,       \* the pattern library, in the order of its files: [id, requires]
          TopN,           \* how many matches are answered
          Constraint,     \* sets of "budget" and "timeline" that a caller may name
          Change,         \* the changes of revenue, in percent, that a caller may expect
          Proof,          \* the identifiers of evidence a caller may give
          MaxStrategies

VARIABLES strategies, strategyFile,
          matches,    \* the last answer of match_patterns
          gaps,       \* the last answer of discover_gaps
          portfolio   \* the last answer of evaluate_portfolio

board == <<strategies, strategyFile, matches, gaps, portfolio>>

Strategy == 1 .. MaxStrategies

BoardInit ==
    /\ strategies = [s \in Strategy |-> Absent]
    /\ strategyFile = [p \in Project |-> [s \in Strategy |-> Absent]]
    /\ matches = Absent /\ gaps = Absent /\ portfolio = Absent

\* Numbers sorted by a key, the greatest first; the sort is stable.
Sorted(seq, Key(_)) ==
    FoldLeft(LAMBDA acc, e :
                LET k == Cardinality({i \in DOMAIN acc : Key(acc[i]) >= Key(e)})
                IN  SubSeq(acc, 1, k) \o <<e>> \o SubSeq(acc, k + 1, Len(acc)),
             <<>>, seq)

-----------------------------------------------------------------------------
(***************************************************************************)
(* Patterns.                                                               *)
(***************************************************************************)
\* The traits that a node of their type has.
Shown(nodes, required) ==
    {r \in required : \E i \in DOMAIN nodes : nodes[i].type = r[1] /\ r[2] \in nodes[i].traits}

TraitMatch(pattern, nodes) ==
    LET shown == Shown(nodes, pattern.requires)
    IN  [id |-> pattern.id, missing |-> Cardinality(pattern.requires \ shown),
         fit |-> IF pattern.requires = {} THEN 0
                 ELSE (1000 * Cardinality(shown)) \div Cardinality(pattern.requires)]

Evaluated(nodes) == [i \in DOMAIN Patterns |-> TraitMatch(Patterns[i], nodes)]

MatchPatterns(nodes) ==
    LET sorted == Sorted(Evaluated(nodes), LAMBDA e : e.fit)
    IN  /\ matches' = SubSeq(sorted, 1, Min({TopN, Len(sorted)}))
        /\ UNCHANGED <<strategies, strategyFile, gaps, portfolio>>

DiscoverGaps(nodes) ==
    /\ gaps' = Sorted(SelectSeq(Evaluated(nodes), LAMBDA e : e.fit >= 300 /\ e.fit < 700),
                      LAMBDA e : e.fit)
    /\ UNCHANGED <<strategies, strategyFile, matches, portfolio>>

-----------------------------------------------------------------------------
(***************************************************************************)
(* Candidates.                                                             *)
(***************************************************************************)
Low == 100
Medium == 200
High == 400

\* The scores of the risks of a candidate that lacks so many traits.
Risks(missing, constraints, combined) ==
    LET found == (IF missing = 0 THEN <<>> ELSE IF missing >= 3 THEN <<High>> ELSE <<Medium>>)
                 \o (IF "budget" \in constraints THEN <<Medium>> ELSE <<>>)
                 \o (IF "timeline" \in constraints THEN <<Medium>> ELSE <<>>)
                 \o (IF combined THEN <<High, Medium>> ELSE <<>>)
    IN  IF found = <<>> THEN <<Low>> ELSE found

\* The greatest risk, and three tenths of each other one.
RiskScore(risks) ==
    LET sorted == Sorted(risks, LAMBDA r : r)
    IN  Min({1000, FoldLeft(LAMBDA acc, r : acc + (3 * r) \div 10, Head(sorted), Tail(sorted))})

Pending(patterns, feasibility, risks) ==
    [patterns |-> patterns, impact |-> Absent, proof |-> Absent, proofs |-> {},
     feasibility |-> feasibility, risk |-> RiskScore(risks)]

Tight(x, constraints) ==
    LET cheap == IF "budget" \in constraints THEN (8 * x) \div 10 ELSE x
    IN  IF "timeline" \in constraints THEN (85 * cheap) \div 100 ELSE cheap

\* One candidate for each match that fits at all, and one of the two best matches together, if
\* there are two: whatever their families are and however little they fit.
Candidates(ms, constraints) ==
    LET fitting == SelectSeq(ms, LAMBDA e : e.fit > 0)
        best == Sorted(ms, LAMBDA e : e.fit)
    IN  [i \in DOMAIN fitting |->
            Pending({fitting[i].id}, Tight(Max({100, (9 * fitting[i].fit) \div 10}), constraints),
                    Risks(fitting[i].missing, constraints, FALSE))]
        \o (IF Len(ms) < 2 THEN <<>>
            ELSE <<Pending({best[1].id, best[2].id},
                           Max({100, (75 * ((best[1].fit + best[2].fit) \div 2)) \div 100}),
                           Risks(0, constraints, TRUE))>>)

SearchStrategies(p, ms, constraints) ==
    LET new == Candidates(ms, constraints)
        used == {s \in Strategy : strategies[s] # Absent \/ \E q \in Project : strategyFile[q][s] # Absent}
        first == Cardinality(used)
        with(store) == [s \in Strategy |->
                          IF s - first \in DOMAIN new THEN new[s - first] ELSE store[s]]
    IN  /\ first + Len(new) <= MaxStrategies
        /\ strategies' = with(strategies)
        /\ strategyFile' = [strategyFile EXCEPT ![p] = with(@)]
        /\ UNCHANGED <<matches, gaps, portfolio>>

Candidate(p, s) == IF strategies[s] # Absent THEN strategies[s] ELSE strategyFile[p][s]

\* Mutant: the change is stored and the evidence only listed.
LinkedLoosely(c, change, proof) == [c EXCEPT !.impact = change, !.proofs = @ \union {proof}]

Linked(c, change, proof) ==
    [c EXCEPT !.impact = change, !.proof = proof, !.proofs = @ \union {proof}]

\* Any identifier is taken for evidence.
SetStrategyImpact(p, s, change, proof) ==
    /\ Candidate(p, s) # Absent
    /\ strategies' = [strategies EXCEPT ![s] = Linked(Candidate(p, s), change, proof)]
    /\ strategyFile' = [strategyFile EXCEPT ![p][s] = Linked(Candidate(p, s), change, proof)]
    /\ UNCHANGED <<matches, gaps, portfolio>>

-----------------------------------------------------------------------------
(***************************************************************************)
(* The portfolio.                                                          *)
(***************************************************************************)
ImpactScore(c) ==
    IF c.impact = Absent THEN 0
    ELSE Min({1000, 25 * (IF c.impact < 0 THEN -c.impact ELSE c.impact)})

RiskAdjusted(c) == (c.feasibility * (1000 - c.risk)) \div 1000

Overall(c) == (40 * ImpactScore(c) + 35 * c.feasibility + 25 * RiskAdjusted(c)) \div 100

Recommendation(c) ==
    IF Overall(c) >= 600 THEN "proceed" ELSE IF Overall(c) >= 350 THEN "consider" ELSE "defer"

\* evaluate_portfolio of some of the strategies, in this order; what is not found is only listed.
EvaluatePortfolio(p, ids, policy) ==
    LET known == SelectSeq(ids, LAMBDA s : Candidate(p, s) # Absent)
        pending == {s \in Strategy : s \in ToSet(known) /\ Candidate(p, s).impact = Absent}
        ranked == SelectSeq(known, LAMBDA s : policy = "partial" \/ s \notin pending)
        stops == policy = "fail" /\ pending # {}
        seen == IF ~stops THEN ToSet(known)
                ELSE {s \in ToSet(known) : \A i, j \in DOMAIN known :
                        i < j /\ known[j] = s => known[i] \notin pending}
        entry(s) == [id |-> s, score |-> Overall(Candidate(p, s)), proof |-> Candidate(p, s).proof,
                     advice |-> Recommendation(Candidate(p, s))]
    IN  /\ strategies' = [s \in Strategy |-> IF s \in seen THEN Candidate(p, s)
                                             ELSE strategies[s]]
        /\ portfolio' =
            IF stops THEN Absent
            ELSE [ids |-> ToSet(ids), pending |-> pending, missing |-> ToSet(ids) \ ToSet(known),
                  policy |-> policy, complete |-> pending = {},
                  ranked |-> Sorted([i \in DOMAIN ranked |-> entry(ranked[i])], LAMBDA e : e.score)]
        /\ UNCHANGED <<strategyFile, matches, gaps>>

BoardEnd ==
    /\ strategies' = [s \in Strategy |-> Absent]
    /\ matches' = Absent /\ gaps' = Absent /\ portfolio' = Absent
    /\ UNCHANGED strategyFile

-----------------------------------------------------------------------------
(***************************************************************************)
(* Properties.                                                             *)
(***************************************************************************)
KeptStrategies ==
    ({strategies[s] : s \in Strategy} \union {strategyFile[p][s] : p \in Project, s \in Strategy})
    \ {Absent}

BoardTypeOK ==
    /\ \A c \in KeptStrategies :
        /\ c.impact \in Change \union {Absent} /\ c.proof \in Proof \union {Absent}
        /\ c.proofs \subseteq Proof /\ c.risk \in 0 .. 1000 /\ c.feasibility \in 0 .. 1000
    /\ portfolio # Absent => portfolio.pending \subseteq Strategy

\* No expected impact is without the evidence given for it, in the memory, in the files and in an
\* answer that ranks only what has one; and what was asked for is ranked, pending or missing.
ImpactIsProved ==
    /\ \A c \in KeptStrategies :
        (c.impact # Absent) <=> (c.proof # Absent) /\ (c.proof # Absent => c.proof \in c.proofs)
    /\ portfolio # Absent =>
        LET r == portfolio.ranked
            ids == {r[i].id : i \in DOMAIN r}
        IN  /\ portfolio.policy # "partial" => \A i \in DOMAIN r : r[i].proof # Absent
            /\ \A i \in 1 .. Len(r) - 1 : r[i].score >= r[i + 1].score
            /\ portfolio.ids = ids \union portfolio.pending \union portfolio.missing
            /\ ids \intersect portfolio.missing = {}
            /\ portfolio.complete => \A i \in DOMAIN r : r[i].proof # Absent
=============================================================================
