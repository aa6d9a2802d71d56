------------------------------- MODULE Search -------------------------------
(***************************************************************************)
(* One run of the search kernel (cmis_core/search_v3/runner.py): phase by  *)
(* phase it sends the queries of the plan, loads the first hits or follows *)
(* links from them breadth first (document_fetcher.py, link_selector.py),  *)
(* extracts candidate values (candidate_extractor.py), asks the gate       *)
(* (gate.py) after each query whether the policy is met, and in the end    *)
(* commits one synthesised value (synthesizer.py) if the gate allows it.   *)
(*                                                                         *)
(* Hits, links and the contents of pages are inputs.  A query or a page    *)
(* that cannot be had raises, and nothing catches it before the caller.    *)
(***************************************************************************)
EXTENDS Naturals, Sequences, FiniteSets

CONSTANTS
    Page,        \* canonical URLs
    Host,        \* the host of a page
    Landing,     \* the pages a request for a page may end at: itself and
                 \* those it is redirected to
    Content,     \* content digests
    Facts,       \* the facts a content states
    Serp,        \* the lists of hits that a query may get
    Phase,       \* the plan's phases, a list of
                 \*   [queries, topK, depth, links]
    MaxQueries,  \* budget_max_queries, by policy
    MaxFetches,  \* budget_max_fetches, by policy
    Level        \* "strict" is reporting_strict, "lax" any other policy

Fact == [fits : {"yes", "otherYear", "otherUnit"}, number : Nat]

\* What the constants have to satisfy.
WebAssumption ==
    /\ DOMAIN Host = Page /\ Landing \in [Page -> SUBSET Page]
    /\ Facts \in [Content -> SUBSET Fact]
    /\ Serp \subseteq Seq(Page)
    /\ \A s \in Serp : \A i, j \in 1 .. Len(s) : s[i] = s[j] => i = j
PhaseAssumption ==
    /\ Len(Phase) > 0
    /\ Phase \in Seq([queries : Nat, topK : Nat, depth : Nat, links : Nat])
    /\ Level \subseteq {"strict", "lax"}
    /\ MaxQueries \in [Level -> Nat] /\ MaxFetches \in [Level -> Nat]

VARIABLES
    at,          \* where the run is
    level,
    phase, sent, \* the current phase and the queries sent in it
    queries,     \* queries_used
    fetches,     \* fetches_used
    hits,        \* the answer to the current query
    left,        \* what of it is still to be loaded
    queue,       \* the frontier of the breadth-first search
    visited,
    docs,        \* the documents loaded for the current query
    cands,       \* candidates of the run
    replanned,
    loaded,      \* all pages loaded in the run (of the model)
    outcome      \* of the last run

vars == <<at, level, phase, sent, queries, fetches, hits, left, queue, visited,
          docs, cands, replanned, loaded, outcome>>

-----------------------------------------------------------------------------
Place == {"idle", "plan", "asked", "load", "crawl", "weigh", "extra", "stop", "commit"}
Candidate == [host : {Host[p] : p \in Page}, content : Content, fact : Fact]
Doc == [page : Page, landed : Page, depth : Nat, parent : Page, content : Content]

Least(i, j) == IF i < j THEN i ELSE j

Now == Phase[phase]
First(s, n) == SubSeq(s, 1, Least(n, Len(s)))

Extract(p, content) ==
    {[host |-> Host[p], content |-> content, fact |-> f] : f \in Facts[content]}

\* Under "strict" a candidate has to be of the year asked for; its unit always
\* has to be the expected one.
HighQuality(C, lev) ==
    {c \in C : c.fact.fits \in (IF lev = "strict" THEN {"yes"} ELSE {"yes", "otherYear"})}

\* independence_key: the host and the digest of the content.
Keys(C) == {<<c.host, c.content>> : c \in C}

\* Mutant: values are counted, not sources.
MetByCount(C, lev) ==
    Cardinality(HighQuality(C, lev)) >= (IF lev = "strict" THEN 2 ELSE 1)

\* min_high_quality_evidence follows from min_independent_sources, both are 2.
Met(C, lev) ==
    Cardinality(Keys(HighQuality(C, lev))) >= (IF lev = "strict" THEN 2 ELSE 1)

-----------------------------------------------------------------------------
Init ==
    /\ at = "idle" /\ level \in Level
    /\ phase = 1 /\ sent = 0 /\ queries = 0 /\ fetches = 0
    /\ hits = <<>> /\ left = <<>> /\ queue = <<>> /\ visited = {} /\ docs = <<>>
    /\ cands = {} /\ replanned = "no" /\ loaded = 0 /\ outcome = "none"

Start(lev) ==
    /\ at = "idle"
    /\ at' = "plan" /\ level' = lev
    /\ phase' = 1 /\ sent' = 0 /\ queries' = 0 /\ fetches' = 0
    /\ hits' = <<>> /\ left' = <<>> /\ queue' = <<>> /\ visited' = {} /\ docs' = <<>>
    /\ cands' = {} /\ replanned' = "no" /\ loaded' = 0 /\ outcome' = "none"

\* provider.search or fetcher.fetch raises.
Raise ==
    /\ at \in {"asked", "load", "crawl", "extra"}
    /\ at' = "idle" /\ outcome' = "raised"
    /\ UNCHANGED <<level, phase, sent, queries, fetches, hits, left, queue, visited,
                   docs, cands, replanned, loaded>>

Ask ==
    /\ at = "plan" /\ phase <= Len(Phase)
    /\ sent < Now.queries /\ queries < MaxQueries[level]
    /\ at' = "asked" /\ sent' = sent + 1 /\ queries' = queries + 1
    /\ UNCHANGED <<level, phase, fetches, hits, left, queue, visited, docs, cands,
                   replanned, loaded, outcome>>

\* No template is left in this phase, or no query in the budget.
EndQueries ==
    /\ at = "plan" /\ phase <= Len(Phase)
    /\ sent = Now.queries \/ queries >= MaxQueries[level]
    /\ at' = "stop"
    /\ UNCHANGED <<level, phase, sent, queries, fetches, hits, left, queue, visited,
                   docs, cands, replanned, loaded, outcome>>

\* Mutants: the phases are all worked through, or one over and over, or one
\* more than there are.
EndPhaseAlways ==
    /\ at = "stop"
    /\ IF phase >= Len(Phase)
       THEN at' = "commit" /\ UNCHANGED <<phase, sent>>
       ELSE at' = "plan" /\ phase' = phase + 1 /\ sent' = 0
    /\ UNCHANGED <<level, queries, fetches, hits, left, queue, visited, docs, cands,
                   replanned, loaded, outcome>>

EndPhaseSame ==
    /\ at = "stop"
    /\ IF Met(cands, level)
       THEN at' = "commit" /\ UNCHANGED <<phase, sent>>
       ELSE at' = "plan" /\ phase' = phase /\ sent' = 0
    /\ UNCHANGED <<level, queries, fetches, hits, left, queue, visited, docs, cands,
                   replanned, loaded, outcome>>

EndPhaseLate ==
    /\ at = "stop"
    /\ IF Met(cands, level) \/ phase > Len(Phase)
       THEN at' = "commit" /\ UNCHANGED <<phase, sent>>
       ELSE at' = "plan" /\ phase' = phase + 1 /\ sent' = 0
    /\ UNCHANGED <<level, queries, fetches, hits, left, queue, visited, docs, cands,
                   replanned, loaded, outcome>>

\* gate.should_stop, or on to the next phase.
EndPhase ==
    /\ at = "stop"
    /\ IF Met(cands, level) \/ phase >= Len(Phase)
       THEN at' = "commit" /\ UNCHANGED <<phase, sent>>
       ELSE at' = "plan" /\ phase' = phase + 1 /\ sent' = 0
    /\ UNCHANGED <<level, queries, fetches, hits, left, queue, visited, docs, cands,
                   replanned, loaded, outcome>>

\* The hits are there: load the first of them, or crawl from them.
Hits(s) ==
    /\ at = "asked"
    /\ hits' = s /\ docs' = <<>> /\ left' = First(s, Now.topK)
    /\ IF Now.depth = 0
       THEN at' = "load" /\ UNCHANGED <<queue, visited>>
       ELSE IF fetches < MaxFetches[level] /\ left' # <<>>
       THEN /\ at' = "crawl"
            /\ queue' = [i \in DOMAIN left' |->
                            [page |-> left'[i], depth |-> 0, parent |-> left'[i]]]
            /\ visited' = {left'[i] : i \in DOMAIN left'}
       ELSE at' = "weigh" /\ UNCHANGED <<queue, visited>>
    /\ UNCHANGED <<level, phase, sent, queries, fetches, cands, replanned, loaded, outcome>>

\* fetch follows redirects and keeps the page they end at; more than five of
\* them raise.
Load(content, there) ==
    /\ at = "load" /\ left # <<>> /\ fetches < MaxFetches[level]
    /\ there \in Landing[Head(left)]
    /\ docs' = Append(docs, [page |-> Head(left), landed |-> there, depth |-> 0,
                             parent |-> Head(left), content |-> content])
    /\ left' = Tail(left)
    /\ fetches' = fetches + 1 /\ loaded' = loaded + 1
    /\ UNCHANGED <<at, level, phase, sent, queries, hits, queue, visited, cands,
                   replanned, outcome>>

EndLoad ==
    /\ at = "load"
    /\ left = <<>> \/ fetches >= MaxFetches[level]
    /\ at' = "weigh"
    /\ UNCHANGED <<level, phase, sent, queries, fetches, hits, left, queue, visited,
                   docs, cands, replanned, loaded, outcome>>

\* Mutant: each crawl has the whole budget.
WholeBudget == MaxFetches[level]

\* max_fetches of this crawl; fetches_used only grows when it is over.
Budget == MaxFetches[level] - fetches

\* Mutant: a link is followed although its page has been queued before.
CrawlAnywhere(content, there, links) ==
    LET next == Head(queue) IN
    /\ at = "crawl" /\ queue # <<>> /\ Len(docs) < Budget
    /\ Len(links) <= Now.links /\ (next.depth >= Now.depth => links = <<>>)
    /\ there \in Landing[next.page]
    /\ docs' = Append(docs, [page |-> next.page, landed |-> there, depth |-> next.depth,
                             parent |-> next.parent, content |-> content])
    /\ queue' = Tail(queue) \o [i \in DOMAIN links |->
                   [page |-> links[i], depth |-> next.depth + 1, parent |-> next.page]]
    /\ loaded' = loaded + 1
    /\ UNCHANGED <<at, level, phase, sent, queries, fetches, hits, left, visited, cands,
                   replanned, outcome>>

\* Load the next page; the selector takes at most so many of its links, none
\* of them visited, and none at the last depth.  Visited is what was asked for,
\* not where redirects ended.
Crawl(content, there, links) ==
    LET next == Head(queue) IN
    /\ at = "crawl" /\ queue # <<>> /\ Len(docs) < Budget
    /\ Len(links) <= Now.links /\ (next.depth >= Now.depth => links = <<>>)
    /\ \A i \in DOMAIN links : links[i] \notin visited
    /\ there \in Landing[next.page]
    /\ docs' = Append(docs, [page |-> next.page, landed |-> there, depth |-> next.depth,
                             parent |-> next.parent, content |-> content])
    /\ queue' = Tail(queue) \o [i \in DOMAIN links |->
                   [page |-> links[i], depth |-> next.depth + 1, parent |-> next.page]]
    /\ visited' = visited \cup {links[i] : i \in DOMAIN links}
    /\ loaded' = loaded + 1
    /\ UNCHANGED <<at, level, phase, sent, queries, fetches, hits, left, cands,
                   replanned, outcome>>

\* The frontier is empty, the budget spent, or max_time_sec over.
EndCrawl ==
    /\ at = "crawl"
    /\ fetches' = fetches + Len(docs)
    /\ queue' = <<>> /\ at' = "weigh"
    /\ UNCHANGED <<level, phase, sent, queries, hits, left, visited, docs, cands,
                   replanned, loaded, outcome>>

\* Extract from all documents, then ask the gate.  Under "strict" a run that
\* is not met may once load one more hit of a query.
Weigh ==
    /\ at = "weigh"
    /\ cands' = cands \cup UNION {Extract(docs[i].landed, docs[i].content) : i \in DOMAIN docs}
    /\ IF Met(cands', level)
       THEN at' = "stop" /\ UNCHANGED <<replanned, left>>
       ELSE IF /\ Now.depth = 0 /\ replanned = "no" /\ level = "strict"
               /\ Len(hits) > Now.topK
       THEN /\ at' = "extra" /\ replanned' = "yes"
            /\ left' = <<hits[Now.topK + 1]>>
       ELSE at' = "plan" /\ UNCHANGED <<replanned, left>>
    /\ UNCHANGED <<level, phase, sent, queries, fetches, hits, queue, visited, docs,
                   loaded, outcome>>

Extra(content, there) ==
    /\ at = "extra"
    /\ IF fetches < MaxFetches[level]
       THEN /\ there \in Landing[Head(left)]
            /\ cands' = cands \cup Extract(there, content)
            /\ fetches' = fetches + 1 /\ loaded' = loaded + 1
       ELSE UNCHANGED <<cands, fetches, loaded>>
    /\ left' = <<>>
    /\ at' = IF Met(cands', level) THEN "stop" ELSE "plan"
    /\ UNCHANGED <<level, phase, sent, queries, hits, queue, visited, docs, replanned, outcome>>

\* Candidates of the expected unit make a value; "strict" wants the gate met.
Commit ==
    /\ at = "commit"
    /\ at' = "idle"
    /\ outcome' = IF /\ \E c \in cands : c.fact.fits # "otherUnit"
                     /\ level = "strict" => Met(cands, level)
                  THEN "committed" ELSE "nothing"
    /\ UNCHANGED <<level, phase, sent, queries, fetches, hits, left, queue, visited,
                   docs, cands, replanned, loaded>>

\* At most two links of a page are selected in the instances checked.
LinkLists == {<<>>} \cup {<<p>> : p \in Page}
                 \cup {<<pq[1], pq[2]>> : pq \in {x \in Page \X Page : x[1] # x[2]}}

Work ==
    \/ Raise \/ Ask \/ EndQueries \/ EndPhase \/ EndLoad \/ EndCrawl \/ Weigh \/ Commit
    \/ \E s \in Serp : Hits(s)
    \/ \E c \in Content, there \in Page : Load(c, there) \/ Extra(c, there)
    \/ \E c \in Content, there \in Page, links \in LinkLists : Crawl(c, there, links)

Next == (\E lev \in Level : Start(lev)) \/ Work

Spec == Init /\ [][Next]_vars

\* Queries and pages are answered or time out.
FairSpec == Spec /\ WF_vars(Work)

-----------------------------------------------------------------------------
(* Properties                                                              *)

TypeOK ==
    /\ at \in Place /\ level \in Level
    /\ phase \in 1 .. Len(Phase) /\ sent \in Nat /\ queries \in Nat
    /\ fetches \in Nat /\ loaded \in Nat
    /\ hits \in Seq(Page) /\ left \in Seq(Page)
    /\ queue \in Seq([page : Page, depth : Nat, parent : Page])
    /\ visited \subseteq Page /\ docs \in Seq(Doc)
    /\ cands \subseteq Candidate
    /\ replanned \in {"yes", "no"}
    /\ outcome \in {"none", "raised", "committed", "nothing"}

\* Under reporting_strict a value is committed only if two pages of different
\* hosts or contents state one for the year and unit asked for, however often
\* queries return the same page (gate.py:4, runner.py fetch_evidence).
StrictCommitIsBacked ==
    outcome = "committed" /\ level = "strict" =>
        \E c, d \in cands :
            /\ c.fact.fits = "yes" /\ d.fact.fits = "yes"
            /\ c.host # d.host \/ c.content # d.content

\* No run loads more pages than its budget, with crawls, replanned loads and
\* queries that all draw on it and a crawl that is charged when it is over
\* (runner.py fetch_evidence, document_fetcher.py fetch_with_links).
WithinBudget == loaded <= MaxFetches[level] /\ queries <= MaxQueries[level]

\* Once the gate is met nothing more is asked or loaded (gate.py should_stop).
NothingAfterMet ==
    [][at # "idle" /\ Met(cands, level) => UNCHANGED <<queries, loaded>>]_vars

\* The documents of a query were asked for under different addresses, each a hit
\* or a link of one loaded before it, one level up and not deeper than the plan
\* allows (document_fetcher.py fetch_with_links); redirects may still bring two of
\* them to one page.
LinksLeadBack ==
    at \in {"load", "crawl", "weigh"} =>
        /\ \A i, j \in DOMAIN docs : docs[i].page = docs[j].page => i = j
        /\ \A i \in DOMAIN docs :
               /\ docs[i].depth <= Now.depth
               /\ \/ docs[i].depth = 0 /\ \E k \in DOMAIN hits : hits[k] = docs[i].page
                  \/ \E j \in 1 .. i - 1 : /\ docs[j].page = docs[i].parent
                                           /\ docs[i].depth = docs[j].depth + 1

\* Every run ends (runner.py fetch_evidence).
SearchEnds == at # "idle" ~> at = "idle"

=============================================================================
