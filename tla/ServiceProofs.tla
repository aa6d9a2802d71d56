---------------------------- MODULE ServiceProofs ----------------------------
(***************************************************************************)
(* Theorems about the components that a run of the kernel calls: what is   *)
(* proved of a search run, for any pages, contents, phases and budgets; of *)
(* curated data, for any imports and changes and any number of patches;    *)
(* and, with what EvidenceProofs and LLMProofs prove, the properties of    *)
(* all of them together.                                                   *)
(***************************************************************************)
EXTENDS Services, SequenceTheorems, FiniteSetTheorems, TLAPS

-----------------------------------------------------------------------------
(* Search: the data                                                        *)

\* What is extracted from a page are candidates.
LEMMA ExtractType ==
    ASSUME Web!WebAssumption, NEW p \in Page, NEW content \in Content
    PROVE  Web!Extract(p, content) \subseteq Web!Candidate
<1>1. Facts[content] \subseteq Web!Fact
  BY DEF Web!WebAssumption
<1> QED
  BY <1>1 DEF Web!Extract, Web!Candidate

\* The first of a list are a list of the same kind.
LEMMA FirstType ==
    ASSUME NEW S, NEW s \in Seq(S), NEW n \in Nat
    PROVE  Web!First(s, n) \in Seq(S)
<1>1. Len(s) \in Nat
  BY LenProperties
<1>2. CASE n < Len(s)
  <2>1. Web!First(s, n) = SubSeq(s, 1, n)
    BY <1>2 DEF Web!First, Web!Least
  <2> QED
    BY <2>1, <1>1, <1>2, SubSeqProperties
<1>3. CASE ~ (n < Len(s))
  <2>1. Web!First(s, n) = SubSeq(s, 1, Len(s))
    BY <1>3 DEF Web!First, Web!Least
  <2> QED
    BY <2>1, <1>1, SubSeqProperties
<1> QED
  BY <1>2, <1>3

\* The selected links are pages.
LEMMA LinksType == \A links \in Web!LinkLists : links \in Seq(Page)
<1> TAKE links \in Web!LinkLists
<1>1. CASE links = <<>>
  BY <1>1
<1>2. CASE links \in {<<p>> : p \in Page}
  <2>1. PICK p \in Page : links = <<p>>
    BY <1>2
  <2> QED
    BY <2>1
<1>3. CASE links \in {<<pq[1], pq[2]>> : pq \in {x \in Page \X Page : x[1] # x[2]}}
  <2>1. PICK pq \in Page \X Page : links = <<pq[1], pq[2]>>
    BY <1>3
  <2>2. pq[1] \in Page /\ pq[2] \in Page
    BY <2>1
  <2> QED
    BY <2>1, <2>2
<1> QED
  BY <1>1, <1>2, <1>3 DEF Web!LinkLists

\* The current phase, while there is one.
LEMMA NowType ==
    ASSUME Web!PhaseAssumption, phase \in 1 .. Len(Phase)
    PROVE  Web!Now \in [queries : Nat, topK : Nat, depth : Nat, links : Nat]
BY ElementOfSeq DEF Web!Now, Web!PhaseAssumption

\* The modules count alike.
LEMMA SearchCounts == \A S : Web!Cardinality(S) = Cardinality(S)
BY DEF Web!Cardinality, Cardinality

\* A set with two elements according to its cardinality has two.
LEMMA TwoElements ==
    ASSUME NEW S, Cardinality(S) >= 2
    PROVE  \E x, y \in S : x # y
<1> SUFFICES ASSUME \A x, y \in S : x = y
             PROVE  FALSE
  OBVIOUS
<1>1. CASE S = {}
  BY <1>1, FS_EmptySet
<1>2. CASE S # {}
  <2>1. PICK x \in S : TRUE
    BY <1>2
  <2>2. S = {x}
    BY <2>1
  <2>3. Cardinality({x}) = 1
    BY FS_Singleton
  <2>4. Cardinality(S) = 1
    BY <2>2, <2>3, Zenon
  <2> QED
    BY <2>4
<1> QED
  BY <1>1, <1>2

\* Nothing is no evidence.
LEMMA NotMetAtFirst == \A lev : ~ Web!Met({}, lev)
<1> TAKE lev
<1>1. Web!Keys(Web!HighQuality({}, lev)) = {}
  BY DEF Web!Keys, Web!HighQuality
<1>2. Web!Cardinality({}) = 0
  BY FS_EmptySet, SearchCounts
<1> QED
  BY <1>1, <1>2 DEF Web!Met

-----------------------------------------------------------------------------
(* Search: types                                                           *)

\* There is a hit to load where one more is to be loaded.
TypeInv == Web!TypeOK /\ (at = "extra" => left # <<>>)

LEMMA InitTypeInv ==
    ASSUME Web!WebAssumption, Web!PhaseAssumption, Web!Init
    PROVE  TypeInv
<1>1. Len(Phase) \in Nat
  BY LenProperties DEF Web!PhaseAssumption
<1> QED
  BY <1>1 DEF Web!Init, TypeInv, Web!TypeOK, Web!Place, Web!PhaseAssumption

LEMMA NextTypeInv ==
    ASSUME Web!WebAssumption, Web!PhaseAssumption, TypeInv, [Web!Next]_(Web!vars)
    PROVE  TypeInv'
<1> USE DEF TypeInv, Web!TypeOK, Web!Place
<1>0. Len(Phase) \in Nat /\ Len(Phase) > 0
  BY LenProperties DEF Web!PhaseAssumption
<1>n. Web!Now \in [queries : Nat, topK : Nat, depth : Nat, links : Nat]
  BY NowType
<1>1. ASSUME NEW lev \in Level, Web!Start(lev) PROVE TypeInv'
  BY <1>1, <1>0 DEF Web!Start
<1>2. CASE Web!Raise
  BY <1>2 DEF Web!Raise
<1>3. CASE Web!Ask
  BY <1>3 DEF Web!Ask
<1>4. CASE Web!EndQueries
  BY <1>4 DEF Web!EndQueries
<1>5. CASE Web!EndPhase
  BY <1>5, <1>0 DEF Web!EndPhase
<1>6. CASE Web!EndLoad
  BY <1>6 DEF Web!EndLoad
<1>7. CASE Web!EndCrawl
  <2>1. Len(docs) \in Nat
    BY LenProperties
  <2> QED
    BY <1>7, <2>1 DEF Web!EndCrawl
<1>8. CASE Web!Weigh
  <2>1. \A i \in DOMAIN docs : docs[i] \in Web!Doc
    BY ElementOfSeq, LenProperties
  <2>2. \A i \in DOMAIN docs : Web!Extract(docs[i].landed, docs[i].content) \subseteq Web!Candidate
    BY <2>1, ExtractType DEF Web!Doc
  <2>3. cands' \subseteq Web!Candidate
    BY <1>8, <2>2 DEF Web!Weigh
  <2>4. left' \in Seq(Page) /\ replanned' \in {"yes", "no"} /\ at' \in Web!Place
          /\ (at' = "extra" => left' # <<>>)
    <3>1. Len(hits) \in Nat
      BY LenProperties
    <3>2. ASSUME Len(hits) > Web!Now.topK PROVE <<hits[Web!Now.topK + 1]>> \in Seq(Page)
      <4>1. hits[Web!Now.topK + 1] \in Page
        BY <3>1, <3>2, <1>n, ElementOfSeq
      <4> QED
        BY <4>1
    <3>3. CASE at' = "extra"
      <4>1. Len(hits) > Web!Now.topK /\ left' = <<hits[Web!Now.topK + 1]>> /\ replanned' = "yes"
        BY <1>8, <3>3 DEF Web!Weigh
      <4>2. left' # <<>>
        BY <4>1
      <4> QED
        BY <4>1, <4>2, <3>2, <3>3
    <3>4. CASE at' # "extra"
      <4>1. /\ at' \in {"stop", "plan"}
            /\ left' = left /\ replanned' = replanned
        BY <1>8, <3>4 DEF Web!Weigh
      <4> QED
        BY <4>1, <3>4
    <3> QED
      BY <3>3, <3>4
  <2> QED
    BY <1>8, <2>3, <2>4 DEF Web!Weigh
<1>9. CASE Web!Commit
  BY <1>9 DEF Web!Commit
<1>10. ASSUME NEW s \in Serp, Web!Hits(s) PROVE TypeInv'
  <2>1. s \in Seq(Page)
    BY DEF Web!WebAssumption
  <2>2. Web!First(s, Web!Now.topK) \in Seq(Page)
    BY <2>1, <1>n, FirstType
  <2>3. left' \in Seq(Page) /\ hits' \in Seq(Page) /\ docs' \in Seq(Web!Doc)
    BY <1>10, <2>1, <2>2 DEF Web!Hits
  <2>4. queue' \in Seq([page : Page, depth : Nat, parent : Page]) /\ visited' \subseteq Page
    <3>1. CASE UNCHANGED <<queue, visited>>
      BY <3>1
    <3>2. CASE /\ queue' = [i \in DOMAIN left' |->
                               [page |-> left'[i], depth |-> 0, parent |-> left'[i]]]
               /\ visited' = {left'[i] : i \in DOMAIN left'}
      <4>1. DOMAIN left' = 1 .. Len(left') /\ Len(left') \in Nat
        BY <2>3, LenProperties
      <4>2. \A i \in DOMAIN left' : left'[i] \in Page
        BY <2>3, <4>1, ElementOfSeq
      <4>3. queue' \in [1 .. Len(left') -> [page : Page, depth : Nat, parent : Page]]
        BY <3>2, <4>1, <4>2
      <4> QED
        BY <3>2, <4>1, <4>2, <4>3, SeqDef
    <3> QED
      BY <1>10, <3>1, <3>2 DEF Web!Hits
  <2>5. at' \in Web!Place
    BY <1>10 DEF Web!Hits
  <2> QED
    BY <1>10, <2>3, <2>4, <2>5 DEF Web!Hits
<1>11. ASSUME NEW content \in Content, NEW there \in Page, Web!Load(content, there) PROVE TypeInv'
  <2>1. Head(left) \in Page /\ Tail(left) \in Seq(Page)
    BY <1>11, HeadTailProperties DEF Web!Load
  <2>2. [page |-> Head(left), landed |-> there, depth |-> 0, parent |-> Head(left), content |-> content] \in Web!Doc
    BY <2>1 DEF Web!Doc
  <2>3. docs' \in Seq(Web!Doc)
    BY <1>11, <2>2, AppendProperties DEF Web!Load
  <2> QED
    BY <1>11, <2>1, <2>3 DEF Web!Load
<1>12. ASSUME NEW content \in Content, NEW there \in Page, Web!Extra(content, there) PROVE TypeInv'
  <2>1. CASE fetches < MaxFetches[level]
    <3>1. Web!Extract(there, content) \subseteq Web!Candidate
      BY ExtractType
    <3> QED
      BY <1>12, <2>1, <3>1 DEF Web!Extra
  <2>2. CASE ~ (fetches < MaxFetches[level])
    BY <1>12, <2>2 DEF Web!Extra
  <2> QED
    BY <2>1, <2>2
<1>13. ASSUME NEW content \in Content, NEW there \in Page, NEW links \in Web!LinkLists,
             Web!Crawl(content, there, links)
       PROVE  TypeInv'
  <2> DEFINE Entry == [page : Page, depth : Nat, parent : Page]
  <2>1. Head(queue) \in Entry /\ Tail(queue) \in Seq(Entry)
    BY <1>13, HeadTailProperties DEF Web!Crawl
  <2>2. links \in Seq(Page)
    BY LinksType
  <2>3. DOMAIN links = 1 .. Len(links) /\ Len(links) \in Nat
    BY <2>2, LenProperties
  <2>4. \A i \in DOMAIN links : links[i] \in Page
    BY <2>2, <2>3, ElementOfSeq
  <2> DEFINE new == [i \in DOMAIN links |->
                [page |-> links[i], depth |-> Head(queue).depth + 1, parent |-> Head(queue).page]]
  <2>5. new \in [1 .. Len(links) -> Entry]
    BY <2>1, <2>3, <2>4
  <2>6. new \in Seq(Entry)
    BY <2>3, <2>5, SeqDef
  <2>7. queue' = Tail(queue) \o new
    BY <1>13 DEF Web!Crawl
  <2>8. queue' \in Seq(Entry)
    BY <2>1, <2>6, <2>7, ConcatProperties
  <2>9. [page |-> Head(queue).page, landed |-> there, depth |-> Head(queue).depth,
         parent |-> Head(queue).parent, content |-> content] \in Web!Doc
    BY <2>1 DEF Web!Doc
  <2>10. docs' \in Seq(Web!Doc)
    BY <1>13, <2>9, AppendProperties DEF Web!Crawl
  <2>11. visited' \subseteq Page
    BY <1>13, <2>4 DEF Web!Crawl
  <2> QED
    BY <1>13, <2>8, <2>10, <2>11 DEF Web!Crawl
<1>14. CASE UNCHANGED Web!vars
  BY <1>14 DEF Web!vars
<1> QED
  BY <1>1, <1>2, <1>3, <1>4, <1>5, <1>6, <1>7, <1>8, <1>9, <1>10, <1>11, <1>12, <1>13, <1>14
     DEF Web!Next, Web!Work

\* Every reachable state is well typed (search_v3/runner.py).
THEOREM SearchIsTyped ==
    ASSUME Web!WebAssumption, Web!PhaseAssumption
    PROVE  Web!Spec => []Web!TypeOK
<1>1. Web!Init => TypeInv
  BY InitTypeInv
<1>2. TypeInv /\ [Web!Next]_(Web!vars) => TypeInv'
  BY NextTypeInv
<1>3. TypeInv => Web!TypeOK
  BY DEF TypeInv
<1> QED
  BY <1>1, <1>2, <1>3, PTL DEF Web!Spec

-----------------------------------------------------------------------------
(* Search: budgets                                                         *)

\* Pages are counted when they are loaded, or together when a crawl is over;
\* what a crawl has loaded so far fits into what is left.
BudgetInv ==
    /\ queries <= MaxQueries[level]
    /\ fetches <= MaxFetches[level] /\ loaded <= MaxFetches[level]
    /\ at = "crawl" => loaded = fetches + Len(docs)
    /\ at \notin {"crawl", "idle"} => loaded = fetches

LEMMA NextBudgetInv ==
    ASSUME Web!WebAssumption, Web!PhaseAssumption, TypeInv, BudgetInv, [Web!Next]_(Web!vars)
    PROVE  BudgetInv'
<1> USE DEF BudgetInv
<1>t. /\ level \in Level /\ queries \in Nat /\ fetches \in Nat /\ loaded \in Nat
      /\ docs \in Seq(Web!Doc) /\ Len(docs) \in Nat
      /\ MaxQueries \in [Level -> Nat] /\ MaxFetches \in [Level -> Nat]
  BY LenProperties DEF TypeInv, Web!TypeOK, Web!PhaseAssumption
<1>1. ASSUME NEW lev \in Level, Web!Start(lev) PROVE BudgetInv'
  BY <1>1, <1>t DEF Web!Start
<1>2. CASE Web!Raise
  BY <1>2 DEF Web!Raise
<1>3. CASE Web!Ask
  BY <1>3, <1>t DEF Web!Ask
<1>4. CASE Web!EndQueries
  BY <1>4 DEF Web!EndQueries
<1>5. CASE Web!EndPhase
  BY <1>5 DEF Web!EndPhase
<1>6. CASE Web!EndLoad
  BY <1>6 DEF Web!EndLoad
<1>7. CASE Web!EndCrawl
  BY <1>7, <1>t DEF Web!EndCrawl
<1>8. CASE Web!Weigh
  BY <1>8 DEF Web!Weigh
<1>9. CASE Web!Commit
  BY <1>9 DEF Web!Commit
<1>10. ASSUME NEW s \in Serp, Web!Hits(s) PROVE BudgetInv'
  BY <1>10, <1>t DEF Web!Hits
<1>11. ASSUME NEW content \in Content, NEW there \in Page, Web!Load(content, there) PROVE BudgetInv'
  BY <1>11, <1>t DEF Web!Load
<1>12. ASSUME NEW content \in Content, NEW there \in Page, Web!Extra(content, there) PROVE BudgetInv'
  BY <1>12, <1>t DEF Web!Extra
<1>13. ASSUME NEW content \in Content, NEW there \in Page, NEW links \in Web!LinkLists,
             Web!Crawl(content, there, links)
       PROVE  BudgetInv'
  <2> DEFINE doc == [page |-> Head(queue).page, landed |-> there, depth |-> Head(queue).depth,
                     parent |-> Head(queue).parent, content |-> content]
  <2>1. docs' = Append(docs, doc)
    BY <1>13 DEF Web!Crawl
  <2>2. Len(docs') = Len(docs) + 1
    BY <2>1, <1>t
  <2>3. Len(docs) < MaxFetches[level] - fetches
    BY <1>13 DEF Web!Crawl, Web!Budget
  <2> QED
    BY <1>13, <1>t, <2>2, <2>3 DEF Web!Crawl
<1>14. CASE UNCHANGED Web!vars
  BY <1>14 DEF Web!vars
<1> QED
  BY <1>1, <1>2, <1>3, <1>4, <1>5, <1>6, <1>7, <1>8, <1>9, <1>10, <1>11, <1>12, <1>13, <1>14
     DEF Web!Next, Web!Work

\* No run sends more queries or loads more pages than its budgets allow,
\* whatever mixture of loads, crawls and replanned loads it makes
\* (search_v3/runner.py).
THEOREM BudgetsHold ==
    ASSUME Web!WebAssumption, Web!PhaseAssumption
    PROVE  Web!Spec => []Web!WithinBudget
<1>1. Web!Init => TypeInv /\ BudgetInv
  <2>1. Web!Init => BudgetInv
    BY DEF Web!Init, BudgetInv, Web!PhaseAssumption
  <2> QED
    BY <2>1, InitTypeInv
<1>2. TypeInv /\ BudgetInv /\ [Web!Next]_(Web!vars) => TypeInv' /\ BudgetInv'
  BY NextTypeInv, NextBudgetInv
<1>3. BudgetInv => Web!WithinBudget
  BY DEF BudgetInv, Web!WithinBudget
<1> QED
  BY <1>1, <1>2, <1>3, PTL DEF Web!Spec

-----------------------------------------------------------------------------
(* Search: the gate                                                        *)

\* The gate is asked whenever there are new candidates: once it is met a run
\* is at the end of a phase or about to commit.
GateInv ==
    /\ Web!Met(cands, level) => at \in {"idle", "stop", "commit"}
    /\ outcome = "committed" => at = "idle"
    /\ outcome = "committed" /\ level = "strict" => Web!Met(cands, level)

LEMMA NextGateInv ==
    ASSUME GateInv, [Web!Next]_(Web!vars)
    PROVE  GateInv'
<1> USE DEF GateInv
<1>1. ASSUME NEW lev \in Level, Web!Start(lev) PROVE GateInv'
  <2>1. ~ Web!Met({}, lev)
    BY NotMetAtFirst
  <2>2. cands' = {} /\ level' = lev /\ outcome' = "none"
    BY <1>1 DEF Web!Start
  <2>3. ~ Web!Met(cands', level')
    BY <2>1, <2>2
  <2> QED
    BY <2>2, <2>3
<1>2. CASE Web!Raise
  BY <1>2 DEF Web!Raise
<1>3. CASE Web!Ask
  BY <1>3 DEF Web!Ask
<1>4. CASE Web!EndQueries
  BY <1>4 DEF Web!EndQueries
<1>5. CASE Web!EndPhase
  BY <1>5 DEF Web!EndPhase
<1>6. CASE Web!EndLoad
  BY <1>6 DEF Web!EndLoad
<1>7. CASE Web!EndCrawl
  BY <1>7 DEF Web!EndCrawl
<1>8. CASE Web!Weigh
  BY <1>8 DEF Web!Weigh
<1>9. CASE Web!Commit
  BY <1>9 DEF Web!Commit
<1>10. ASSUME NEW s \in Serp, Web!Hits(s) PROVE GateInv'
  BY <1>10 DEF Web!Hits
<1>11. ASSUME NEW content \in Content, NEW there \in Page, Web!Load(content, there) PROVE GateInv'
  BY <1>11 DEF Web!Load
<1>12. ASSUME NEW content \in Content, NEW there \in Page, Web!Extra(content, there) PROVE GateInv'
  BY <1>12 DEF Web!Extra
<1>13. ASSUME NEW content \in Content, NEW there \in Page, NEW links \in Web!LinkLists,
             Web!Crawl(content, there, links)
       PROVE  GateInv'
  BY <1>13 DEF Web!Crawl
<1>14. CASE UNCHANGED Web!vars
  BY <1>14 DEF Web!vars
<1> QED
  BY <1>1, <1>2, <1>3, <1>4, <1>5, <1>6, <1>7, <1>8, <1>9, <1>10, <1>11, <1>12, <1>13, <1>14
     DEF Web!Next, Web!Work

LEMMA InitGateInv ==
    ASSUME Web!Init
    PROVE  GateInv
BY NotMetAtFirst DEF Web!Init, GateInv

\* A gate that is met under "strict" has seen two sources.
LEMMA MetIsBacked ==
    ASSUME Web!Met(cands, "strict")
    PROVE  \E c, d \in cands :
               /\ c.fact.fits = "yes" /\ d.fact.fits = "yes"
               /\ c.host # d.host \/ c.content # d.content
<1> DEFINE Good == Web!HighQuality(cands, "strict")
<1>1. Cardinality(Web!Keys(Good)) >= 2
  <2>1. Web!Cardinality(Web!Keys(Good)) >= 2
    BY DEF Web!Met
  <2> QED
    BY <2>1, SearchCounts
<1>2. PICK x, y \in Web!Keys(Good) : x # y
  BY <1>1, TwoElements
<1>3. PICK c \in Good : x = <<c.host, c.content>>
  BY <1>2 DEF Web!Keys
<1>4. PICK d \in Good : y = <<d.host, d.content>>
  BY <1>2 DEF Web!Keys
<1>5. c \in cands /\ d \in cands /\ c.fact.fits = "yes" /\ d.fact.fits = "yes"
  BY <1>3, <1>4 DEF Web!HighQuality
<1>6. c.host # d.host \/ c.content # d.content
  BY <1>2, <1>3, <1>4
<1> QED
  BY <1>5, <1>6

\* A value committed under reporting_strict rests on candidates of two sources,
\* each for the year and unit asked for (search_v3/gate.py).
THEOREM StrictValuesAreBacked ==
    ASSUME Web!WebAssumption, Web!PhaseAssumption
    PROVE  Web!Spec => []Web!StrictCommitIsBacked
<1>1. GateInv => Web!StrictCommitIsBacked
  <2> SUFFICES ASSUME GateInv, outcome = "committed", level = "strict"
               PROVE  \E c, d \in cands :
                          /\ c.fact.fits = "yes" /\ d.fact.fits = "yes"
                          /\ c.host # d.host \/ c.content # d.content
    BY DEF Web!StrictCommitIsBacked
  <2>1. Web!Met(cands, "strict")
    BY DEF GateInv
  <2> QED
    BY <2>1, MetIsBacked
<1>2. GateInv /\ [Web!Next]_(Web!vars) => GateInv'
  BY NextGateInv
<1>3. Web!Init => GateInv
  BY InitGateInv
<1> QED
  BY <1>1, <1>2, <1>3, PTL DEF Web!Spec

\* Once the gate is met a run asks nothing and loads nothing
\* (search_v3/runner.py).
THEOREM MetMeansDone ==
    ASSUME Web!WebAssumption, Web!PhaseAssumption
    PROVE  Web!Spec => Web!NothingAfterMet
<1> DEFINE Rest == at # "idle" /\ Web!Met(cands, level) => UNCHANGED <<queries, loaded>>
<1>1. GateInv /\ [Web!Next]_(Web!vars) => [Rest]_(Web!vars)
  <2> SUFFICES ASSUME GateInv, Web!Next, at # "idle", Web!Met(cands, level)
               PROVE  UNCHANGED <<queries, loaded>>
    OBVIOUS
  <2>1. at \in {"stop", "commit"}
    BY DEF GateInv
  <2>2. Web!EndPhase \/ Web!Commit
    BY <2>1 DEF Web!Next, Web!Work, Web!Start, Web!Raise, Web!Ask, Web!EndQueries, Web!EndLoad, Web!EndCrawl, Web!Weigh, Web!Hits,
                Web!Load, Web!Extra, Web!Crawl
  <2> QED
    BY <2>2 DEF Web!EndPhase, Web!Commit
<1>2. GateInv /\ [Web!Next]_(Web!vars) => GateInv'
  BY NextGateInv
<1>3. Web!Init => GateInv
  BY InitGateInv
<1> QED
  BY <1>1, <1>2, <1>3, PTL DEF Web!Spec, Web!NothingAfterMet

-----------------------------------------------------------------------------
(* Search: links                                                           *)

\* A page that may be loaded as the one after the first k documents.
Due(d, k, deep, hs, ds) ==
    /\ d.depth <= deep
    /\ \/ d.depth = 0 /\ \E h \in DOMAIN hs : hs[h] = d.page
       \/ \E j \in 1 .. k : ds[j].page = d.parent /\ d.depth = ds[j].depth + 1

\* Documents are due and different.  Those of a plain load are the first hits, and what is left
\* are the next ones; in a crawl the pages of the frontier are due too, and they and the documents
\* are different pages that are marked as visited.
LinkInv ==
    /\ at \in {"load", "crawl", "weigh"} =>
           /\ \A i \in DOMAIN docs : Due(docs[i], i - 1, Web!Now.depth, hits, docs)
           /\ \A i, j \in DOMAIN docs : docs[i].page = docs[j].page => i = j
    /\ at = "load" =>
           /\ \A i, j \in DOMAIN hits : hits[i] = hits[j] => i = j
           /\ Len(docs) + Len(left) <= Len(hits)
           /\ \A i \in DOMAIN docs : docs[i].page = hits[i]
           /\ \A k \in DOMAIN left : left[k] = hits[Len(docs) + k]
    /\ at = "crawl" =>
           /\ \A i \in DOMAIN docs : docs[i].page \in visited
           /\ \A q \in DOMAIN queue : Due(queue[q], Len(docs), Web!Now.depth, hits, docs) /\ queue[q].page \in visited
           /\ \A q, r \in DOMAIN queue : queue[q].page = queue[r].page => q = r
           /\ \A q \in DOMAIN queue : \A i \in DOMAIN docs : queue[q].page # docs[i].page

\* The first of a list, one by one.
LEMMA FirstOnes ==
    ASSUME NEW S, NEW s \in Seq(S), NEW n \in Nat
    PROVE  LET f == Web!First(s, n)
           IN  /\ f \in Seq(S) /\ Len(f) <= Len(s)
               /\ \A k \in 1 .. Len(f) : f[k] = s[k]
<1>1. Len(s) \in Nat
  BY LenProperties
<1>2. PICK m \in 0 .. Len(s) : m = Web!Least(n, Len(s))
  BY <1>1 DEF Web!Least
<1>3. PICK f : f = Web!First(s, n)
  OBVIOUS
<1>4. f = SubSeq(s, 1, m)
  BY <1>2, <1>3 DEF Web!First
<1>5. Len(f) = m /\ \A k \in 1 .. m : f[k] = s[k]
  BY <1>1, <1>2, <1>4, SubSeqProperties
<1>6. f \in Seq(S) /\ Len(f) <= Len(s) /\ \A k \in 1 .. Len(f) : f[k] = s[k]
  BY <1>1, <1>2, <1>3, <1>5, FirstType
<1> QED
  BY <1>3, <1>6

\* A page that is due stays so while the documents are appended to.
LEMMA DueStays ==
    ASSUME NEW d, NEW k \in Nat, NEW n \in Nat, k <= n, NEW deep, NEW hs, NEW ds, NEW es,
           Due(d, k, deep, hs, ds), \A j \in 1 .. k : es[j] = ds[j]
    PROVE  Due(d, n, deep, hs, es)
<1>1. \A j \in 1 .. k : j \in 1 .. n
  OBVIOUS
<1> QED
  BY <1>1 DEF Due

\* The answer to a query.
LEMMA HitsLinks ==
    ASSUME Web!WebAssumption, Web!PhaseAssumption, TypeInv, LinkInv, NEW s \in Serp, Web!Hits(s)
    PROVE  LinkInv'
<1>n. Web!Now \in [queries : Nat, topK : Nat, depth : Nat, links : Nat] /\ Web!Now' = Web!Now
  BY NowType DEF TypeInv, Web!TypeOK, Web!Now, Web!Hits
<1>1. s \in Seq(Page) /\ \A i, j \in 1 .. Len(s) : s[i] = s[j] => i = j
  BY DEF Web!WebAssumption
<1>2. Len(s) \in Nat /\ DOMAIN s = 1 .. Len(s)
  BY <1>1, LenProperties
<1>3. hits' = s /\ docs' = <<>> /\ left' = Web!First(s, Web!Now.topK)
  BY DEF Web!Hits
<1>4. PICK n \in Nat : n = Len(left') /\ DOMAIN left' = 1 .. n
  BY <1>1, <1>3, <1>n, FirstOnes, LenProperties
<1>5. n <= Len(s) /\ \A k \in 1 .. n : left'[k] = s[k]
  BY <1>1, <1>3, <1>4, <1>n, FirstOnes
<1>6. DOMAIN docs' = {} /\ Len(docs') = 0
  BY <1>3
<1>7. at' = "crawl" => /\ queue' = [i \in DOMAIN left' |->
                              [page |-> left'[i], depth |-> 0, parent |-> left'[i]]]
                       /\ visited' = {left'[i] : i \in DOMAIN left'}
  BY DEF Web!Hits
<1>8. at' = "crawl" =>
         /\ \A q \in DOMAIN queue' : Due(queue'[q], Len(docs'), Web!Now.depth, hits', docs') /\ queue'[q].page \in visited'
         /\ \A q, r \in DOMAIN queue' : queue'[q].page = queue'[r].page => q = r
  <2> SUFFICES ASSUME at' = "crawl"
               PROVE  /\ \A q \in DOMAIN queue' : Due(queue'[q], Len(docs'), Web!Now.depth, hits', docs') /\ queue'[q].page \in visited'
                      /\ \A q, r \in DOMAIN queue' : queue'[q].page = queue'[r].page => q = r
    OBVIOUS
  <2>1. DOMAIN queue' = 1 .. n /\ \A q \in 1 .. n : queue'[q].page = s[q] /\ queue'[q].depth = 0
    BY <1>4, <1>5, <1>7
  <2>2. \A q \in 1 .. n : queue'[q].page \in visited' /\ q \in 1 .. Len(s)
    BY <1>2, <1>4, <1>5, <1>7, <2>1
  <2>3. \A q \in 1 .. n : Due(queue'[q], Len(docs'), Web!Now.depth, hits', docs')
    BY <1>2, <1>3, <1>n, <2>1, <2>2 DEF Due
  <2>4. \A q, r \in 1 .. n : queue'[q].page = queue'[r].page => q = r
    BY <1>1, <2>1, <2>2
  <2> QED
    BY <2>1, <2>2, <2>3, <2>4
<1>9. at' = "load" =>
         /\ \A i, j \in DOMAIN hits' : hits'[i] = hits'[j] => i = j
         /\ Len(docs') + Len(left') <= Len(hits')
         /\ \A k \in DOMAIN left' : left'[k] = hits'[Len(docs') + k]
  BY <1>1, <1>2, <1>3, <1>4, <1>5, <1>6
<1> QED
  BY <1>n, <1>6, <1>8, <1>9 DEF LinkInv

\* A plain load.
LEMMA LoadLinks ==
    ASSUME Web!WebAssumption, Web!PhaseAssumption, TypeInv, LinkInv, NEW c \in Content,
           NEW there \in Page, Web!Load(c, there)
    PROVE  LinkInv'
<1>n. Web!Now \in [queries : Nat, topK : Nat, depth : Nat, links : Nat] /\ Web!Now' = Web!Now
  BY NowType DEF TypeInv, Web!TypeOK, Web!Now, Web!Load
<1>t. docs \in Seq(Web!Doc) /\ left \in Seq(Page) /\ hits \in Seq(Page)
  BY DEF TypeInv, Web!TypeOK
<1>1. PICK n \in Nat : n = Len(docs) /\ DOMAIN docs = 1 .. n
  BY <1>t, LenProperties
<1>2. PICK d : d = [page |-> Head(left), landed |-> there, depth |-> 0, parent |-> Head(left), content |-> c]
  OBVIOUS
<1>3. docs' = Append(docs, d) /\ left' = Tail(left) /\ at = "load" /\ at' = "load" /\ left # <<>>
        /\ hits' = hits /\ phase' = phase
  BY <1>2 DEF Web!Load
<1>4. /\ Len(docs') = n + 1 /\ DOMAIN docs' = 1 .. n + 1 /\ docs'[n + 1] = d
      /\ \A i \in 1 .. n : docs'[i] = docs[i]
  BY <1>1, <1>3, <1>t
<1>5. PICK m \in Nat : m = Len(left) /\ DOMAIN left = 1 .. m /\ m > 0 /\ Head(left) = left[1]
  BY <1>3, <1>t, LenProperties, HeadTailProperties
<1>6. Len(left') = m - 1 /\ DOMAIN left' = 1 .. m - 1 /\ \A k \in 1 .. m - 1 : left'[k] = left[k + 1]
  BY <1>3, <1>5, <1>t
<1>7. /\ \A i, j \in DOMAIN hits : hits[i] = hits[j] => i = j
      /\ n + m <= Len(hits)
      /\ \A i \in 1 .. n : docs[i].page = hits[i] /\ Due(docs[i], i - 1, Web!Now.depth, hits, docs)
      /\ \A k \in 1 .. m : left[k] = hits[n + k]
  BY <1>1, <1>3, <1>5 DEF LinkInv
<1>8. Len(hits) \in Nat /\ DOMAIN hits = 1 .. Len(hits)
  BY <1>t, LenProperties
<1>9. d.page = hits[n + 1] /\ n + 1 \in DOMAIN hits /\ d.depth = 0
  BY <1>2, <1>5, <1>7, <1>8
<1>10. \A i \in 1 .. n + 1 : docs'[i].page = hits[i] /\ i \in DOMAIN hits
  <2> TAKE i \in 1 .. n + 1
  <2>1. CASE i = n + 1
    BY <2>1, <1>4, <1>9
  <2>2. CASE i \in 1 .. n
    BY <2>2, <1>4, <1>5, <1>7, <1>8
  <2> QED
    BY <2>1, <2>2
<1>11. \A i \in 1 .. n + 1 : Due(docs'[i], i - 1, Web!Now.depth, hits, docs')
  <2> TAKE i \in 1 .. n + 1
  <2>1. CASE i = n + 1
    BY <2>1, <1>3, <1>4, <1>9, <1>n DEF Due
  <2>2. CASE i \in 1 .. n
    <3>1. i - 1 \in Nat /\ \A j \in 1 .. i - 1 : docs'[j] = docs[j]
      BY <2>2, <1>4
    <3>2. docs'[i] = docs[i] /\ Due(docs[i], i - 1, Web!Now.depth, hits, docs)
      BY <2>2, <1>4, <1>7
    <3>3. Due(docs[i], i - 1, Web!Now.depth, hits, docs')
      BY <3>1, <3>2, DueStays
    <3> QED
      BY <3>2, <3>3
  <2> QED
    BY <2>1, <2>2
<1>12. \A i, j \in 1 .. n + 1 : docs'[i].page = docs'[j].page => i = j
  BY <1>7, <1>10
<1>13. \A k \in 1 .. m - 1 : left'[k] = hits'[n + 1 + k]
  <2> TAKE k \in 1 .. m - 1
  <2>1. left'[k] = left[k + 1] /\ k + 1 \in 1 .. m
    BY <1>6
  <2>2. left[k + 1] = hits[n + (k + 1)]
    BY <2>1, <1>7
  <2>3. n + (k + 1) = n + 1 + k
    OBVIOUS
  <2> QED
    BY <2>1, <2>2, <2>3, <1>3
<1>14. Len(docs') + Len(left') <= Len(hits')
  BY <1>3, <1>4, <1>5, <1>6, <1>7, <1>8
<1> QED
  BY ZenonT(40), <1>n, <1>3, <1>4, <1>6, <1>7, <1>10, <1>11, <1>12, <1>13, <1>14 DEF LinkInv

\* Links that are followed are different pages.
LEMMA LinksDiffer == \A links \in Web!LinkLists : \A i, j \in DOMAIN links : links[i] = links[j] => i = j
<1> TAKE links \in Web!LinkLists
<1>1. CASE links = <<>>
  BY <1>1
<1>2. CASE links \in {<<p>> : p \in Page}
  <2>1. PICK p \in Page : links = <<p>>
    BY <1>2
  <2> QED
    BY <2>1
<1>3. CASE links \in {<<pq[1], pq[2]>> : pq \in {x \in Page \X Page : x[1] # x[2]}}
  <2>1. PICK pq \in {x \in Page \X Page : x[1] # x[2]} : links = <<pq[1], pq[2]>>
    BY <1>3
  <2>2. pq[1] # pq[2]
    BY <2>1
  <2> QED
    BY <2>1, <2>2
<1> QED
  BY <1>1, <1>2, <1>3 DEF Web!LinkLists

\* One page of a crawl.
LEMMA CrawlLinks ==
    ASSUME Web!WebAssumption, Web!PhaseAssumption, TypeInv, LinkInv,
           NEW c \in Content, NEW there \in Page, NEW links \in Web!LinkLists, Web!Crawl(c, there, links)
    PROVE  LinkInv'
<1>n. Web!Now \in [queries : Nat, topK : Nat, depth : Nat, links : Nat] /\ Web!Now' = Web!Now
  BY NowType DEF TypeInv, Web!TypeOK, Web!Now, Web!Crawl
<1> DEFINE Entry == [page : Page, depth : Nat, parent : Page]
<1>t. docs \in Seq(Web!Doc) /\ queue \in Seq(Entry) /\ links \in Seq(Page)
  BY LinksType DEF TypeInv, Web!TypeOK
<1>1. PICK n \in Nat : n = Len(docs) /\ DOMAIN docs = 1 .. n
  BY <1>t, LenProperties
<1>2. PICK d : d = [page |-> Head(queue).page, landed |-> there, depth |-> Head(queue).depth,
                    parent |-> Head(queue).parent, content |-> c]
  OBVIOUS
<1>3. PICK new : new = [i \in DOMAIN links |->
                [page |-> links[i], depth |-> Head(queue).depth + 1, parent |-> Head(queue).page]]
  OBVIOUS
<1>4. /\ at = "crawl" /\ at' = "crawl" /\ hits' = hits /\ phase' = phase /\ queue # <<>>
      /\ docs' = Append(docs, d) /\ queue' = Tail(queue) \o new
      /\ visited' = visited \cup {links[i] : i \in DOMAIN links}
      /\ \A i \in DOMAIN links : links[i] \notin visited
      /\ Head(queue).depth >= Web!Now.depth => links = <<>>
  BY <1>2, <1>3 DEF Web!Crawl
<1>5. /\ Len(docs') = n + 1 /\ DOMAIN docs' = 1 .. n + 1 /\ docs'[n + 1] = d
      /\ \A i \in 1 .. n : docs'[i] = docs[i]
  BY <1>1, <1>4, <1>t
<1>6. PICK m \in Nat : m = Len(queue) /\ DOMAIN queue = 1 .. m /\ m > 0 /\ Head(queue) = queue[1]
  BY <1>4, <1>t, LenProperties, HeadTailProperties
<1>7. /\ Tail(queue) \in Seq(Entry) /\ Len(Tail(queue)) = m - 1
      /\ \A k \in 1 .. m - 1 : Tail(queue)[k] = queue[k + 1]
  BY <1>4, <1>6, <1>t
<1>8. PICK l \in Nat : l = Len(links) /\ DOMAIN links = 1 .. l
  BY <1>t, LenProperties
<1>9. Head(queue) \in Entry
  BY <1>4, <1>t, HeadTailProperties
<1>10. new \in Seq(Entry) /\ Len(new) = l
  <2>1. \A i \in 1 .. l : links[i] \in Page
    BY <1>8, <1>t, ElementOfSeq
  <2>2. new \in [1 .. l -> Entry]
    BY <1>3, <1>8, <1>9, <2>1
  <2>3. new \in Seq(Entry)
    <3> HIDE DEF Entry
    <3>1. new \in UNION {[1 .. k -> Entry] : k \in Nat}
      BY <2>2, Zenon
    <3> QED
      BY <3>1, SeqDef, Zenon
  <2>4. DOMAIN new = 1 .. l
    BY <1>3, <1>8
  <2> QED
    BY <2>3, <2>4, <1>8, LenProperties
<1>11. /\ Len(queue') = m - 1 + l /\ DOMAIN queue' = 1 .. m - 1 + l
       /\ \A k \in 1 .. m - 1 : queue'[k] = queue[k + 1]
       /\ \A k \in 1 .. l : queue'[m - 1 + k] = new[k]
  <2>1. /\ queue' \in Seq(Entry) /\ Len(queue') = m - 1 + l
        /\ \A k \in 1 .. m - 1 : queue'[k] = Tail(queue)[k]
        /\ \A k \in 1 .. l : queue'[m - 1 + k] = new[k]
    <3> HIDE DEF Entry
    <3>1. PICK t \in Seq(Entry) : t = Tail(queue)
      BY <1>7
    <3>2. PICK u \in Seq(Entry) : u = new
      BY <1>10
    <3>3. Len(t) = m - 1 /\ Len(u) = l
      BY <3>1, <3>2, <1>7, <1>10
    <3>4. /\ t \o u \in Seq(Entry) /\ Len(t \o u) = Len(t) + Len(u)
          /\ \A k \in 1 .. Len(t) : (t \o u)[k] = t[k]
          /\ \A k \in 1 .. Len(u) : (t \o u)[Len(t) + k] = u[k]
      OBVIOUS
    <3>5. queue' = t \o u
      BY <3>1, <3>2, <1>4
    <3> QED
      BY <3>1, <3>2, <3>3, <3>4, <3>5
  <2>2. DOMAIN queue' = 1 .. m - 1 + l
    BY <2>1, LenProperties
  <2> QED
    BY <2>1, <2>2, <1>7
<1>12. \A k \in 1 .. l : /\ new[k].page = links[k] /\ new[k].parent = Head(queue).page
                         /\ new[k].depth = Head(queue).depth + 1
  BY <1>3, <1>8
<1>13. /\ \A i \in 1 .. n : docs[i].page \in visited /\ Due(docs[i], i - 1, Web!Now.depth, hits, docs)
       /\ \A i, j \in 1 .. n : docs[i].page = docs[j].page => i = j
       /\ \A q \in 1 .. m : Due(queue[q], n, Web!Now.depth, hits, docs) /\ queue[q].page \in visited
       /\ \A q, r \in 1 .. m : queue[q].page = queue[r].page => q = r
       /\ \A q \in 1 .. m : \A i \in 1 .. n : queue[q].page # docs[i].page
  BY ZenonT(40), <1>1, <1>4, <1>6 DEF LinkInv
<1>14. d.page = queue[1].page /\ d.depth = queue[1].depth /\ d.parent = queue[1].parent
  BY <1>2, <1>6
\* Every entry of the new frontier is an old one or a link.
<1>15. \A q \in DOMAIN queue' :
          \/ q \in 1 .. m - 1 /\ q + 1 \in 2 .. m /\ queue'[q] = queue[q + 1]
          \/ \E k \in 1 .. l : /\ q = m - 1 + k /\ queue'[q] = new[k]
  <2> TAKE q \in DOMAIN queue'
  <2>1. CASE q <= m - 1
    BY <2>1, <1>11
  <2>2. CASE q > m - 1
    <3>1. q - (m - 1) \in 1 .. l /\ q = m - 1 + (q - (m - 1))
      BY <2>2, <1>11, <1>6
    <3> QED
      BY <3>1, <1>11
  <2> QED
    BY <2>1, <2>2, <1>11
<1>16. \A i \in 1 .. n + 1 : Due(docs'[i], i - 1, Web!Now.depth, hits, docs')
  <2> TAKE i \in 1 .. n + 1
  <2>1. CASE i = n + 1
    <3>0. 1 \in 1 .. m /\ i - 1 = n
      BY <2>1, <1>6
    <3>1. Due(queue[1], n, Web!Now.depth, hits, docs) /\ i - 1 = n
      BY <3>0, <1>13
    <3>2. Due(d, n, Web!Now.depth, hits, docs)
      BY <3>1, <1>14 DEF Due
    <3>3. Due(d, n, Web!Now.depth, hits, docs')
      BY <3>2, <1>5, DueStays
    <3> QED
      BY <3>1, <3>3, <2>1, <1>5
  <2>2. CASE i \in 1 .. n
    <3>1. i - 1 \in Nat /\ \A j \in 1 .. i - 1 : docs'[j] = docs[j]
      BY <2>2, <1>5
    <3>2. docs'[i] = docs[i] /\ Due(docs[i], i - 1, Web!Now.depth, hits, docs)
      BY <2>2, <1>5, <1>13
    <3>3. Due(docs[i], i - 1, Web!Now.depth, hits, docs')
      BY <3>1, <3>2, DueStays
    <3> QED
      BY <3>2, <3>3
  <2> QED
    BY <2>1, <2>2
<1>17. \A i \in 1 .. n + 1 : docs'[i].page \in visited
  <2> TAKE i \in 1 .. n + 1
  <2>1. CASE i = n + 1
    BY <2>1, <1>5, <1>6, <1>13, <1>14
  <2>2. CASE i \in 1 .. n
    BY <2>2, <1>5, <1>13
  <2> QED
    BY <2>1, <2>2
<1>18. \A i, j \in 1 .. n + 1 : docs'[i].page = docs'[j].page => i = j
  <2>1. \A i \in 1 .. n : docs'[i].page # docs'[n + 1].page
    BY <1>5, <1>6, <1>13, <1>14
  <2>2. \A i, j \in 1 .. n : docs'[i].page = docs'[j].page => i = j
    BY <1>5, <1>13
  <2>3. \A i \in 1 .. n + 1 : i = n + 1 \/ i \in 1 .. n
    OBVIOUS
  <2> QED
    BY <2>1, <2>2, <2>3
<1>19. \A q \in DOMAIN queue' : Due(queue'[q], Len(docs'), Web!Now.depth, hits', docs') /\ queue'[q].page \in visited'
  <2> TAKE q \in DOMAIN queue'
  <2>1. CASE q \in 1 .. m - 1 /\ q + 1 \in 2 .. m /\ queue'[q] = queue[q + 1]
    <3>1. Due(queue[q + 1], n, Web!Now.depth, hits, docs) /\ queue[q + 1].page \in visited
      BY <2>1, <1>13
    <3>2. Due(queue[q + 1], n + 1, Web!Now.depth, hits, docs')
      BY <3>1, <1>5, DueStays
    <3> QED
      BY <3>1, <3>2, <2>1, <1>4, <1>5
  <2>2. ASSUME NEW k \in 1 .. l, q = m - 1 + k, queue'[q] = new[k]
        PROVE  Due(queue'[q], Len(docs'), Web!Now.depth, hits', docs') /\ queue'[q].page \in visited'
    <3>1. links # <<>>
      BY <2>2, <1>8
    <3>2. Head(queue).depth + 1 <= Web!Now.depth
      <4>1. Head(queue).depth \in Nat /\ Web!Now.depth \in Nat
        BY <1>9, <1>n
      <4> QED
        BY <3>1, <4>1, <1>4
    <3>3. docs'[n + 1].page = new[k].parent /\ new[k].depth = docs'[n + 1].depth + 1
      BY <1>5, <1>6, <1>12, <1>14
    <3>4. n + 1 \in 1 .. Len(docs') /\ new[k].depth <= Web!Now.depth
      BY <1>5, <1>12, <3>2
    <3>5. Due(queue'[q], Len(docs'), Web!Now.depth, hits', docs')
      BY <3>3, <3>4, <2>2 DEF Due
    <3> QED
      BY <3>5, <2>2, <1>4, <1>8, <1>12
  <2> QED
    BY <2>1, <2>2, <1>15
<1>20. \A q \in DOMAIN queue' :
          \/ q \in 1 .. m - 1 /\ queue'[q].page = queue[q + 1].page /\ q + 1 \in 2 .. m
                /\ queue[q + 1].page \in visited
          \/ \E k \in 1 .. l : q = m - 1 + k /\ queue'[q].page = links[k] /\ links[k] \notin visited
  <2> TAKE q \in DOMAIN queue'
  <2>1. CASE q \in 1 .. m - 1 /\ q + 1 \in 2 .. m /\ queue'[q] = queue[q + 1]
    BY <2>1, <1>13
  <2>2. ASSUME NEW k \in 1 .. l, q = m - 1 + k, queue'[q] = new[k]
        PROVE  q = m - 1 + k /\ queue'[q].page = links[k] /\ links[k] \notin visited
    BY <2>2, <1>4, <1>8, <1>12
  <2> QED
    BY <2>1, <2>2, <1>15
<1>21. \A q, r \in DOMAIN queue' : queue'[q].page = queue'[r].page => q = r
  <2> SUFFICES ASSUME NEW q \in DOMAIN queue', NEW r \in DOMAIN queue',
                      queue'[q].page = queue'[r].page
               PROVE  q = r
    OBVIOUS
  <2>1. CASE queue'[q].page \in visited
    <3>1. /\ q \in 1 .. m - 1 /\ queue'[q].page = queue[q + 1].page /\ q + 1 \in 2 .. m
          /\ r \in 1 .. m - 1 /\ queue'[r].page = queue[r + 1].page /\ r + 1 \in 2 .. m
      BY <2>1, <1>20
    <3>2. q + 1 \in 1 .. m /\ r + 1 \in 1 .. m
      BY <3>1
    <3>3. q + 1 = r + 1
      BY <3>1, <3>2, <1>13
    <3> QED
      BY <3>1, <3>3
  <2>2. CASE queue'[q].page \notin visited
    <3>1. /\ \E k \in 1 .. l : q = m - 1 + k /\ queue'[q].page = links[k]
          /\ \E k \in 1 .. l : r = m - 1 + k /\ queue'[r].page = links[k]
      BY <2>2, <1>20
    <3> QED
      BY <3>1, <1>8, LinksDiffer
  <2> QED
    BY <2>1, <2>2
<1>22. \A q \in DOMAIN queue' : \A i \in 1 .. n + 1 : queue'[q].page # docs'[i].page
  <2> TAKE q \in DOMAIN queue'
  <2> TAKE i \in 1 .. n + 1
  <2>1. CASE q \in 1 .. m - 1 /\ queue'[q].page = queue[q + 1].page /\ q + 1 \in 2 .. m
    <3>1. q + 1 \in 1 .. m /\ q + 1 # 1 /\ 1 \in 1 .. m
      BY <2>1, <1>6
    <3>2. CASE i = n + 1
      <4>1. docs'[i].page = queue[1].page
        BY <3>2, <1>5, <1>14
      <4>2. queue[q + 1].page # queue[1].page
        BY <3>1, <1>13
      <4> QED
        BY <4>1, <4>2, <2>1
    <3>3. CASE i \in 1 .. n
      <4>1. docs'[i].page = docs[i].page
        BY <3>3, <1>5, <1>14
      <4>2. queue[q + 1].page # docs[i].page
        BY <3>1, <3>3, <1>5, <1>13
      <4> QED
        BY <4>1, <4>2, <2>1
    <3> QED
      BY <3>2, <3>3
  <2>2. CASE queue'[q].page \notin visited
    BY <2>2, <1>17
  <2> QED
    BY <2>1, <2>2, <1>20
<1>23. \A i \in 1 .. n + 1 : docs'[i].page \in visited'
  BY <1>4, <1>17
<1> QED
  BY <1>n, <1>4, <1>5, <1>16, <1>18, <1>19, <1>21, <1>22, <1>23 DEF LinkInv

\* Every step keeps what is said of links.
LEMMA NextLinkInv ==
    ASSUME Web!WebAssumption, Web!PhaseAssumption, TypeInv, LinkInv, [Web!Next]_(Web!vars)
    PROVE  LinkInv'
<1>s. ASSUME UNCHANGED <<phase, hits, docs, left, visited, queue>>, at' = at \/ at' \notin {"load", "crawl", "weigh"}
      PROVE  LinkInv'
  BY <1>s DEF LinkInv, Due, Web!Now
<1>r. ASSUME at' \notin {"load", "crawl", "weigh"} PROVE LinkInv'
  BY <1>r DEF LinkInv
<1>w. ASSUME UNCHANGED <<phase, hits, docs>>, at \in {"load", "crawl"}, at' = "weigh" PROVE LinkInv'
  BY <1>w DEF LinkInv, Due, Web!Now
<1>1. ASSUME NEW lev \in Level, Web!Start(lev) PROVE LinkInv'
  BY <1>1, <1>r DEF Web!Start
<1>2. CASE Web!Raise
  BY <1>2, <1>r DEF Web!Raise
<1>3. CASE Web!Ask
  BY <1>3, <1>r DEF Web!Ask
<1>4. CASE Web!EndQueries
  BY <1>4, <1>r DEF Web!EndQueries
<1>5. CASE Web!EndPhase
  BY <1>5, <1>r DEF Web!EndPhase
<1>6. CASE Web!EndLoad
  BY <1>6, <1>w DEF Web!EndLoad
<1>7. CASE Web!EndCrawl
  BY <1>7, <1>w DEF Web!EndCrawl
<1>8. CASE Web!Weigh
  BY <1>8, <1>r DEF Web!Weigh
<1>9. CASE Web!Commit
  BY <1>9, <1>r DEF Web!Commit
<1>10. ASSUME NEW c \in Content, NEW there \in Page, Web!Extra(c, there) PROVE LinkInv'
  BY <1>10, <1>r DEF Web!Extra
<1>11. CASE UNCHANGED Web!vars
  BY <1>11, <1>s DEF Web!vars
<1> QED
  BY <1>1, <1>2, <1>3, <1>4, <1>5, <1>6, <1>7, <1>8, <1>9, <1>10, <1>11, HitsLinks, LoadLinks,
     CrawlLinks DEF Web!Next, Web!Work

\* The documents of a query were asked for under different addresses, each a hit or a link of one
\* loaded before it, one level up and not deeper than the plan allows (document_fetcher.py
\* fetch_with_links).
THEOREM LinksComeFromPages ==
    ASSUME Web!WebAssumption, Web!PhaseAssumption
    PROVE  Web!Spec => []Web!LinksLeadBack
<1>1. Web!Init => TypeInv /\ LinkInv
  <2>1. Web!Init => LinkInv
    BY DEF Web!Init, LinkInv
  <2> QED
    BY <2>1, InitTypeInv
<1>2. TypeInv /\ LinkInv /\ [Web!Next]_(Web!vars) => TypeInv' /\ LinkInv'
  BY NextTypeInv, NextLinkInv
<1>3. LinkInv => Web!LinksLeadBack
  BY DEF LinkInv, Due, Web!LinksLeadBack
<1> QED
  BY <1>1, <1>2, <1>3, PTL DEF Web!Spec
-----------------------------------------------------------------------------
(* Curated data: recursion                                                 *)

\* A set of numbers has a least member.
LEMMA LeastNumber ==
    ASSUME NEW T, T \subseteq Nat, T # {}
    PROVE  \E x \in T : \A y \in T : x <= y
<1>1. IsWellFoundedOn(OpToRel(<, Nat), Nat)
  BY NatLessThanWellFounded, Zenon
<1>2. PICK x \in T : \A y \in T : ~ (<<y, x>> \in OpToRel(<, Nat))
  BY <1>1, WFMin, Zenon
<1>3. \A y \in T : ~ (y < x)
  BY <1>2 DEF OpToRel
<1>4. x \in T
  BY <1>2
<1>5. QED
  BY <1>3, <1>4

\* The states g of n steps, of which step i is f[i].
Trace(g, S, base, n, f) ==
    g \in [0 .. n -> S] /\ g[0] = base /\ \A i \in 1 .. n : g[i] = f[i][g[i - 1]]

\* A step that stays within S can be taken n times.
LEMMA StepsExist ==
    ASSUME NEW S, NEW base \in S, NEW n \in Nat, NEW f \in [1 .. n -> [S -> S]]
    PROVE  \E g : Trace(g, S, base, n, f)
<1> DEFINE Good(m, g) == g[0] = base /\ \A i \in 1 .. m : g[i] = f[i][g[i - 1]]
           Bad == {m \in 0 .. n : ~ \E g \in [0 .. m -> S] : Good(m, g)}
<1>0. SUFFICES n \notin Bad
  <2>1. PICK g \in [0 .. n -> S] : Good(n, g)
    BY <1>0
  <2> QED
    BY <2>1 DEF Trace
<1>1. SUFFICES ASSUME Bad # {} PROVE FALSE
  OBVIOUS
<1>2. Bad \subseteq Nat
  OBVIOUS
<1>3. PICK m \in Bad : \A y \in Bad : m <= y
  <2> HIDE DEF Bad
  <2> QED
    BY <1>1, <1>2, LeastNumber
<1>4. m \in 0 .. n
  OBVIOUS
<1>5. m # 0
  <2>1. SUFFICES ASSUME m = 0 PROVE FALSE
    OBVIOUS
  <2> DEFINE h == [i \in 0 .. 0 |-> base]
  <2>2. h \in [0 .. 0 -> S] /\ Good(0, h)
    OBVIOUS
  <2> QED
    BY <2>1, <2>2
<1>6. m - 1 \in 0 .. n /\ m - 1 \notin Bad
  BY <1>3, <1>4, <1>5
<1>7. PICK g \in [0 .. (m - 1) -> S] : Good(m - 1, g)
  BY <1>6
<1> DEFINE h == [i \in 0 .. m |-> IF i = m THEN f[m][g[m - 1]] ELSE g[i]]
<1>8. g[m - 1] \in S /\ m \in 1 .. n
  BY <1>4, <1>5, <1>7
<1>9. h \in [0 .. m -> S]
  <2>1. f[m][g[m - 1]] \in S
    BY <1>8
  <2>2. \A i \in 0 .. m : i # m => i \in 0 .. (m - 1)
    BY <1>4
  <2> QED
    BY <2>1, <2>2, <1>7
<1>10. Good(m, h)
  <2>1. h[0] = base
    BY <1>4, <1>5, <1>7
  <2>2. ASSUME NEW i \in 1 .. m PROVE h[i] = f[i][h[i - 1]]
    <3>1. i - 1 \in 0 .. m /\ i - 1 # m /\ i \in 0 .. m
      BY <1>4, <2>2
    <3>2. h[i - 1] = g[i - 1]
      BY <3>1
    <3>3. CASE i = m
      BY <3>1, <3>2, <3>3
    <3>4. CASE i # m
      <4>1. i \in 1 .. (m - 1)
        BY <1>4, <2>2, <3>4
      <4>2. g[i] = f[i][g[i - 1]]
        BY <1>7, <4>1
      <4>3. h[i] = g[i]
        BY <3>1, <3>4
      <4> QED
        BY <3>2, <4>2, <4>3
    <3> QED
      BY <3>3, <3>4
  <2> QED
    BY <2>1, <2>2
<1> QED
  BY <1>9, <1>10

\* The states g and h begin alike and go on alike for n steps; they agree after each of them.
GoAlike(g, h, n) == n \in Nat /\ g[0] = h[0] /\ \A i \in 1 .. n : g[i - 1] = h[i - 1] => g[i] = h[i]
Agree(g, h, n) == \A i \in 0 .. n : g[i] = h[i]

\* What begins alike and goes on alike agrees.
LEMMA Alike ==
    ASSUME NEW n, NEW g, NEW h, GoAlike(g, h, n)
    PROVE  Agree(g, h, n)
<1> USE DEF GoAlike, Agree
<1> DEFINE Bad == {i \in 0 .. n : g[i] # h[i]}
<1>1. SUFFICES ASSUME Bad # {} PROVE FALSE
  OBVIOUS
<1>2. Bad \subseteq Nat
  OBVIOUS
<1>3. PICK m \in Bad : \A y \in Bad : m <= y
  <2> HIDE DEF Bad
  <2> QED
    BY <1>1, <1>2, LeastNumber
<1>4. m \in 0 .. n /\ g[m] # h[m]
  OBVIOUS
<1>5. m \in 1 .. n /\ m - 1 \in 0 .. n
  BY <1>4
<1>6. m - 1 \notin Bad
  BY <1>3, <1>5
<1>7. g[m - 1] = h[m - 1]
  BY <1>5, <1>6
<1> QED
  BY <1>4, <1>5, <1>7

-----------------------------------------------------------------------------
(* Curated data: payloads, rows and lists                                  *)

\* Payloads without the bound on numbers.
Wide == [kind : {"number"}, n : Nat] \cup [kind : {"text", "absent"}, n : {0}]

\* Payloads are the wide ones within the bound.
LEMMA PayloadIsWide ==
    ASSUME Data!CuratedAssumption
    PROVE  /\ Data!Payload \subseteq Wide
           /\ \A x \in Wide : x.n \in Nat /\ (x.n <= MaxNumber => x \in Data!Payload)
BY DEF Data!CuratedAssumption, Data!Payload, Wide

\* A change makes a payload of a payload.
LEMMA AfterType ==
    ASSUME Data!CuratedAssumption, NEW x \in Wide, NEW c \in Change
    PROVE  Data!After(x, c) \in Wide
<1>1. c.op \in {"set", "add", "multiply", "delete"} /\ c.value \in Wide
  BY PayloadIsWide DEF Data!CuratedAssumption
<1>2. x.n \in Nat /\ c.value.n \in Nat
  BY <1>1, PayloadIsWide
<1>3. \A i \in Nat : Data!Number(i) \in Wide
  BY DEF Data!Number, Wide
<1>4. x.n + c.value.n \in Nat /\ x.n * c.value.n \in Nat
  <2>1. \A i, j \in Nat : i + j \in Nat /\ i * j \in Nat
    OBVIOUS
  <2> QED
    BY <1>2, <2>1
<1>5. Data!Absent \in Wide
  BY DEF Data!Absent, Wide
<1> QED
  BY <1>1, <1>3, <1>4, <1>5 DEF Data!After

\* The history of a payload.
LEMMA HistoryIs ==
    ASSUME Data!CuratedAssumption, NEW x \in Wide, NEW cs \in Seq(Change)
    PROVE  /\ Data!History(x, cs) \in [0 .. Len(cs) -> Wide]
           /\ Data!History(x, cs)[0] = x
           /\ \A i \in 1 .. Len(cs) : Data!History(x, cs)[i] = Data!After(Data!History(x, cs)[i - 1], cs[i])
<1>1. Len(cs) \in Nat /\ \A i \in 1 .. Len(cs) : cs[i] \in Change
  BY LenProperties, ElementOfSeq
<1> DEFINE act == [i \in 1 .. Len(cs) |-> [y \in Wide |-> Data!After(y, cs[i])]]
<1>0. act \in [1 .. Len(cs) -> [Wide -> Wide]]
  BY <1>1, AfterType
<1>t. PICK g : Trace(g, Wide, x, Len(cs), act)
  <2> HIDE DEF act
  <2> QED
    BY <1>0, <1>1, StepsExist, Zenon
<1>s. ASSUME NEW i \in 1 .. Len(cs) PROVE g[i] = Data!After(g[i - 1], cs[i])
  <2>1. i - 1 \in 0 .. Len(cs)
    BY <1>1
  <2>2. g[i - 1] \in Wide /\ act[i] = [y \in Wide |-> Data!After(y, cs[i])]
    BY <2>1, <1>t DEF Trace
  <2> QED
    BY <2>2, <1>t DEF Trace
<1>2. /\ g \in [0 .. Len(cs) -> Wide] /\ g[0] = x
      /\ \A i \in 1 .. Len(cs) : g[i] = Data!After(g[i - 1], cs[i])
  BY <1>t, <1>s DEF Trace
<1> DEFINE G(a) == a = [i \in 0 .. Len(cs) |-> IF i = 0 THEN x ELSE Data!After(a[i - 1], cs[i])]
<1>3. G(g)
  <2>1. \A i \in 0 .. Len(cs) : i # 0 => i \in 1 .. Len(cs)
    BY <1>1
  <2> QED
    BY <1>2, <2>1
<1>4. Data!History(x, cs) = CHOOSE a : G(a)
  BY DEF Data!History
<1>5. PICK h : h = Data!History(x, cs)
  OBVIOUS
<1>6. G(h)
  <2> HIDE DEF G
  <2> QED
    BY <1>3, <1>4, <1>5
<1>7. h[0] = x /\ \A i \in 1 .. Len(cs) : i \in 0 .. Len(cs) /\ i # 0 /\ h[i] = Data!After(h[i - 1], cs[i])
  BY <1>1, <1>6
<1>8. \A i \in 0 .. Len(cs) : h[i] = g[i]
  <2>1. h[0] = g[0] /\ \A i \in 1 .. Len(cs) : h[i - 1] = g[i - 1] => h[i] = g[i]
    BY <1>2, <1>7
  <2>2. GoAlike(h, g, Len(cs))
    BY <1>1, <2>1 DEF GoAlike
  <2> QED
    BY <2>2, Alike DEF Agree
<1>9. h = g
  BY <1>2, <1>6, <1>8
<1> QED
  BY <1>2, <1>5, <1>9

-----------------------------------------------------------------------------
(* Curated data: what the recursive operators compute                      *)

\* A change to the item of a key.
Step == [key : Key, change : Change]

\* The items while the steps are replayed.
ReplayTrace(g, items, steps) ==
    /\ g \in [0 .. Len(steps) -> [DOMAIN items -> Wide]] /\ g[0] = items
    /\ \A i \in 1 .. Len(steps) : g[i] = [g[i - 1] EXCEPT ![steps[i].key] = Data!After(@, steps[i].change)]
    /\ Data!Replay(items, steps) = g[Len(steps)]

\* Items are replayed step by step.
LEMMA ReplayIs ==
    ASSUME Data!CuratedAssumption, NEW K, NEW items \in [K -> Wide],
           NEW steps \in Seq(Step)
    PROVE  \E g : ReplayTrace(g, items, steps)
<1> DEFINE n == Len(steps)
           Turn(y, i) == [y EXCEPT ![steps[i].key] = Data!After(@, steps[i].change)]
           act == [i \in 1 .. n |-> [y \in [K -> Wide] |-> Turn(y, i)]]
<1>1. n \in Nat /\ \A i \in 1 .. n : steps[i] \in Step
  BY LenProperties, ElementOfSeq
<1>2. act \in [1 .. n -> [[K -> Wide] -> [K -> Wide]]]
  <2> SUFFICES ASSUME NEW i \in 1 .. n, NEW y \in [K -> Wide] PROVE Turn(y, i) \in [K -> Wide]
    OBVIOUS
  <2>1. steps[i].change \in Change
    BY <1>1 DEF Step
  <2>2. steps[i].key \in K => Data!After(y[steps[i].key], steps[i].change) \in Wide
    BY <2>1, AfterType
  <2> QED
    BY <2>2
<1>3. PICK g : Trace(g, [K -> Wide], items, n, act)
  <2> HIDE DEF act
  <2> QED
    BY <1>1, <1>2, StepsExist, Zenon
<1>4. ASSUME NEW i \in 1 .. n PROVE g[i] = Turn(g[i - 1], i)
  <2>1. i - 1 \in 0 .. n
    BY <1>1
  <2>2. g[i - 1] \in [K -> Wide]
    BY <2>1, <1>3 DEF Trace
  <2>3. act[i][g[i - 1]] = Turn(g[i - 1], i)
    <3> HIDE DEF Turn
    <3> QED
      BY <2>2
  <2>4. g[i] = act[i][g[i - 1]]
    BY <1>3 DEF Trace
  <2> QED
    BY <2>3, <2>4, Zenon
<1>5. g \in [0 .. n -> [K -> Wide]] /\ g[0] = items
  BY <1>3 DEF Trace
<1> DEFINE G(a) == a = [i \in 0 .. n |-> IF i = 0 THEN items ELSE Turn(a[i - 1], i)]
<1>6. Data!Replay(items, steps) = (CHOOSE a : G(a))[n]
  BY DEF Data!Replay
<1> HIDE DEF Turn, n
<1>7. G(g)
  <2>1. \A i \in 0 .. n : i # 0 => i \in 1 .. n
    BY <1>1
  <2> QED
    BY <1>4, <1>5, <2>1
<1>8. PICK h : h = CHOOSE a : G(a)
  OBVIOUS
<1>9. G(h)
  <2> HIDE DEF G
  <2> QED
    BY <1>7, <1>8
<1>10. \A i \in 0 .. n : h[i] = g[i]
  <2>1. h[0] = g[0] /\ \A i \in 1 .. n : h[i - 1] = g[i - 1] => h[i] = g[i]
    <3>1. h[0] = items /\ \A i \in 1 .. n : h[i] = Turn(h[i - 1], i)
      BY <1>1, <1>9
    <3> QED
      BY <1>4, <1>5, <3>1
  <2>2. GoAlike(h, g, n)
    BY <1>1, <2>1 DEF GoAlike
  <2> QED
    BY <2>2, Alike DEF Agree
<1>11. Data!Replay(items, steps) = g[n]
  BY <1>1, <1>6, <1>8, <1>10
<1>12. DOMAIN items = K
  OBVIOUS
<1> QED
  BY <1>4, <1>5, <1>11, <1>12 DEF ReplayTrace, n, Turn

\* The list while its members at the places I are selected.
SelectedTrace(g, S, s, I) ==
    /\ g \in [0 .. Len(s) -> Seq(S)] /\ g[0] = <<>>
    /\ \A i \in 1 .. Len(s) : g[i] = IF i \in I THEN Append(g[i - 1], s[i]) ELSE g[i - 1]
    /\ Data!Selected(s, I) = g[Len(s)]

\* Members are selected one after the other.
LEMMA SelectedIs ==
    ASSUME NEW S, NEW s \in Seq(S), NEW I
    PROVE  \E g : SelectedTrace(g, S, s, I)
<1> DEFINE n == Len(s)
           Turn(y, i) == IF i \in I THEN Append(y, s[i]) ELSE y
           act == [i \in 1 .. n |-> [y \in Seq(S) |-> Turn(y, i)]]
<1>1. n \in Nat /\ \A i \in 1 .. n : s[i] \in S
  BY LenProperties, ElementOfSeq
<1>2. act \in [1 .. n -> [Seq(S) -> Seq(S)]]
  <2> SUFFICES ASSUME NEW i \in 1 .. n, NEW y \in Seq(S) PROVE Turn(y, i) \in Seq(S)
    OBVIOUS
  <2>1. Append(y, s[i]) \in Seq(S)
    BY <1>1, AppendProperties
  <2> QED
    BY <2>1
<1>e. <<>> \in Seq(S)
  BY EmptySeq
<1>3. PICK g : Trace(g, Seq(S), <<>>, n, act)
  <2> HIDE DEF act
  <2> QED
    BY <1>e, <1>1, <1>2, StepsExist, Zenon
<1>4. ASSUME NEW i \in 1 .. n PROVE g[i] = Turn(g[i - 1], i)
  <2>1. i - 1 \in 0 .. n
    BY <1>1
  <2>2. g[i - 1] \in Seq(S)
    BY <2>1, <1>3 DEF Trace
  <2>3. act[i][g[i - 1]] = Turn(g[i - 1], i)
    <3> HIDE DEF Turn
    <3> QED
      BY <2>2
  <2>4. g[i] = act[i][g[i - 1]]
    BY <1>3 DEF Trace
  <2> QED
    BY <2>3, <2>4, Zenon
<1>5. g \in [0 .. n -> Seq(S)] /\ g[0] = <<>>
  BY <1>3 DEF Trace
<1> DEFINE G(a) == a = [i \in 0 .. n |-> IF i = 0 THEN <<>> ELSE Turn(a[i - 1], i)]
<1>6. Data!Selected(s, I) = (CHOOSE a : G(a))[n]
  BY DEF Data!Selected
<1> HIDE DEF Turn, n
<1>7. G(g)
  <2>1. \A i \in 0 .. n : i # 0 => i \in 1 .. n
    BY <1>1
  <2> QED
    BY <1>4, <1>5, <2>1
<1>8. PICK h : h = CHOOSE a : G(a)
  OBVIOUS
<1>9. G(h)
  <2> HIDE DEF G
  <2> QED
    BY <1>7, <1>8
<1>10. \A i \in 0 .. n : h[i] = g[i]
  <2>1. h[0] = g[0] /\ \A i \in 1 .. n : h[i - 1] = g[i - 1] => h[i] = g[i]
    <3>1. h[0] = <<>> /\ \A i \in 1 .. n : h[i] = Turn(h[i - 1], i)
      BY <1>1, <1>9
    <3> QED
      BY <1>4, <1>5, <3>1
  <2>2. GoAlike(h, g, n)
    BY <1>1, <2>1 DEF GoAlike
  <2> QED
    BY <2>2, Alike DEF Agree
<1>11. Data!Selected(s, I) = g[n]
  BY <1>1, <1>6, <1>8, <1>10
<1> QED
  BY <1>4, <1>5, <1>11 DEF SelectedTrace, n, Turn

\* The data while the rows are put.
PutTrace(g, S, data, added) ==
    /\ g \in [0 .. Len(added) -> Seq(S)] /\ g[0] = data
    /\ \A i \in 1 .. Len(added) : g[i] = Data!Put(g[i - 1], added[i])
    /\ Data!PutAll(data, added) = g[Len(added)]

\* Rows are put one after the other.
LEMMA PutAllIs ==
    ASSUME NEW S, NEW data \in Seq(S), NEW added \in Seq(S)
    PROVE  \E g : PutTrace(g, S, data, added)
<1> DEFINE n == Len(added)
           Turn(y, i) == Data!Put(y, added[i])
           act == [i \in 1 .. n |-> [y \in Seq(S) |-> Turn(y, i)]]
<1>1. n \in Nat /\ \A i \in 1 .. n : added[i] \in S
  BY LenProperties, ElementOfSeq
<1>2. act \in [1 .. n -> [Seq(S) -> Seq(S)]]
  <2> SUFFICES ASSUME NEW i \in 1 .. n, NEW y \in Seq(S) PROVE Turn(y, i) \in Seq(S)
    OBVIOUS
  <2>1. Append(y, added[i]) \in Seq(S)
    BY <1>1, AppendProperties
  <2> QED
    BY <2>1 DEF Data!Put
<1>3. PICK g : Trace(g, Seq(S), data, n, act)
  <2> HIDE DEF act
  <2> QED
    BY <1>1, <1>2, StepsExist, Zenon
<1>4. ASSUME NEW i \in 1 .. n PROVE g[i] = Turn(g[i - 1], i)
  <2>1. i - 1 \in 0 .. n
    BY <1>1
  <2>2. g[i - 1] \in Seq(S)
    BY <2>1, <1>3 DEF Trace
  <2>3. act[i][g[i - 1]] = Turn(g[i - 1], i)
    <3> HIDE DEF Turn
    <3> QED
      BY <2>2
  <2>4. g[i] = act[i][g[i - 1]]
    BY <1>3 DEF Trace
  <2> QED
    BY <2>3, <2>4, Zenon
<1>5. g \in [0 .. n -> Seq(S)] /\ g[0] = data
  BY <1>3 DEF Trace
<1> DEFINE G(a) == a = [i \in 0 .. n |-> IF i = 0 THEN data ELSE Turn(a[i - 1], i)]
<1>6. Data!PutAll(data, added) = (CHOOSE a : G(a))[n]
  BY DEF Data!PutAll
<1> HIDE DEF Turn, n
<1>7. G(g)
  <2>1. \A i \in 0 .. n : i # 0 => i \in 1 .. n
    BY <1>1
  <2> QED
    BY <1>4, <1>5, <2>1
<1>8. PICK h : h = CHOOSE a : G(a)
  OBVIOUS
<1>9. G(h)
  <2> HIDE DEF G
  <2> QED
    BY <1>7, <1>8
<1>10. \A i \in 0 .. n : h[i] = g[i]
  <2>1. h[0] = g[0] /\ \A i \in 1 .. n : h[i - 1] = g[i - 1] => h[i] = g[i]
    <3>1. h[0] = data /\ \A i \in 1 .. n : h[i] = Turn(h[i - 1], i)
      BY <1>1, <1>9
    <3> QED
      BY <1>4, <1>5, <3>1
  <2>2. GoAlike(h, g, n)
    BY <1>1, <2>1 DEF GoAlike
  <2> QED
    BY <2>2, Alike DEF Agree
<1>11. Data!PutAll(data, added) = g[n]
  BY <1>1, <1>6, <1>8, <1>10
<1> QED
  BY <1>4, <1>5, <1>11 DEF PutTrace, n, Turn

\* What holds at first and is kept by n steps holds after each of them.
LEMMA Climb ==
    ASSUME NEW n \in Nat, NEW T, 0 \in T, \A i \in 1 .. n : i - 1 \in T => i \in T
    PROVE  \A i \in 0 .. n : i \in T
<1> DEFINE Bad == {i \in 0 .. n : i \notin T}
<1>1. SUFFICES ASSUME Bad # {} PROVE FALSE
  OBVIOUS
<1>2. Bad \subseteq Nat
  OBVIOUS
<1>3. PICK m \in Bad : \A y \in Bad : m <= y
  <2> HIDE DEF Bad
  <2> QED
    BY <1>1, <1>2, LeastNumber
<1>4. m \in 1 .. n /\ m - 1 \in 0 .. n /\ m \notin T
  OBVIOUS
<1>5. m - 1 \notin Bad
  BY <1>3, <1>4
<1> QED
  BY <1>4, <1>5

\* What y has when row r is put to x.
OneMore(x, r, y) ==
    /\ Len(x) \in Nat /\ DOMAIN x = 1 .. Len(x) /\ DOMAIN y = 1 .. Len(y)
    /\ Len(y) = Len(x) \/ (Len(y) = Len(x) + 1 /\ y[Len(y)] = r)
    /\ \A i \in 1 .. Len(x) : y[i] = x[i]
    /\ \E i \in DOMAIN y : y[i].key = r.key /\ y[i].payload = r.payload

\* One row is put.
LEMMA PutOne ==
    ASSUME NEW S, NEW x \in Seq(S), NEW r \in S
    PROVE  Data!Put(x, r) \in Seq(S) /\ OneMore(x, r, Data!Put(x, r))
<1>1. Len(x) \in Nat /\ DOMAIN x = 1 .. Len(x)
  BY LenProperties
<1>2. CASE Data!Find(x, r.key, r.payload) # {}
  <2>1. Data!Put(x, r) = x
    BY <1>2 DEF Data!Put
  <2>2. \E i \in DOMAIN x : x[i].key = r.key /\ x[i].payload = r.payload
    BY <1>2 DEF Data!Find
  <2> QED
    BY <2>1, <2>2, <1>1 DEF OneMore
<1>3. CASE Data!Find(x, r.key, r.payload) = {}
  <2>1. PICK y : y = Append(x, r)
    OBVIOUS
  <2>2. /\ y \in Seq(S) /\ Len(y) = Len(x) + 1 /\ y[Len(x) + 1] = r
        /\ \A i \in 1 .. Len(x) : y[i] = x[i]
    BY <2>1, AppendProperties
  <2>3. DOMAIN y = 1 .. Len(y) /\ Len(x) + 1 \in DOMAIN y
    BY <1>1, <2>2, LenProperties
  <2>4. Data!Put(x, r) = y
    BY <1>3, <2>1 DEF Data!Put
  <2> QED
    BY <1>1, <2>2, <2>3, <2>4 DEF OneMore
<1> QED
  BY <1>2, <1>3

\* What r has when rows are put to the data.
Extended(data, added, n, r) ==
    /\ Len(data) <= Len(r)
    /\ \A i \in 1 .. Len(data) : r[i] = data[i]
    /\ \A i \in DOMAIN r : i > Len(data) => \E j \in 1 .. n : r[i] = added[j]
    /\ \A j \in 1 .. n : \E i \in DOMAIN r : r[i].key = added[j].key /\ r[i].payload = added[j].payload

\* One more of the rows is put.
LEMMA ExtendedOne ==
    ASSUME NEW data, NEW added, NEW n \in Nat, NEW m \in 1 .. n, NEW x, NEW y, Len(data) \in Nat,
           Extended(data, added, m - 1, x), OneMore(x, added[m], y)
    PROVE  Extended(data, added, m, y)
<1>x. /\ Len(x) \in Nat /\ DOMAIN x = 1 .. Len(x) /\ DOMAIN y = 1 .. Len(y)
      /\ Len(y) = Len(x) \/ (Len(y) = Len(x) + 1 /\ y[Len(y)] = added[m])
  BY Zenon DEF OneMore
<1>y. \A i \in 1 .. Len(x) : y[i] = x[i]
  BY Zenon DEF OneMore
<1>z. \E i \in DOMAIN y : y[i].key = added[m].key /\ y[i].payload = added[m].payload
  BY Zenon DEF OneMore
<1>d. Len(data) <= Len(x) /\ \A i \in 1 .. Len(data) : x[i] = data[i]
  BY Zenon DEF Extended
<1>e. \A i \in DOMAIN x : i > Len(data) => \E j \in 1 .. m - 1 : x[i] = added[j]
  BY Zenon DEF Extended
<1>f. \A j \in 1 .. m - 1 : \E i \in DOMAIN x : x[i].key = added[j].key /\ x[i].payload = added[j].payload
  BY Zenon DEF Extended
<1> PICK l \in Nat : l = Len(x)
  BY <1>x
<1>l. Len(y) = Len(x) \/ Len(y) = Len(x) + 1
  BY <1>x, Zenon
<1> PICK k \in Nat : k = Len(y)
  <2>1. l + 1 \in Nat
    OBVIOUS
  <2> QED
    BY <1>l, <2>1
<1> PICK b \in Nat : b = Len(data)
  OBVIOUS
<1>1. DOMAIN x = 1 .. l /\ DOMAIN y = 1 .. k /\ (k = l \/ (k = l + 1 /\ y[k] = added[m]))
  BY <1>x
<1>2. b <= k /\ \A i \in 1 .. b : y[i] = data[i]
  <2>1. b <= l /\ (\A i \in 1 .. b : x[i] = data[i]) /\ (\A i \in 1 .. l : y[i] = x[i])
    BY <1>d, <1>y
  <2> QED
    BY <2>1, <1>1
<1>3. ASSUME NEW i \in DOMAIN y, i > b PROVE \E j \in 1 .. m : y[i] = added[j]
  <2>1. CASE i \in 1 .. l
    <3>1. PICK j \in 1 .. m - 1 : x[i] = added[j]
      BY <1>1, <1>3, <2>1, <1>e
    <3>2. j \in 1 .. m /\ y[i] = x[i]
      BY <2>1, <1>y
    <3> QED
      BY <3>1, <3>2
  <2>2. CASE i \notin 1 .. l
    <3>1. i = k /\ y[i] = added[m] /\ m \in 1 .. m
      BY <1>1, <2>2
    <3> QED
      BY <3>1
  <2> QED
    BY <2>1, <2>2
<1>4. ASSUME NEW j \in 1 .. m PROVE \E i \in DOMAIN y : y[i].key = added[j].key /\ y[i].payload = added[j].payload
  <2>1. CASE j = m
    BY <2>1, <1>z
  <2>2. CASE j # m
    <3>1. j \in 1 .. m - 1
      BY <2>2
    <3>2. PICK i \in DOMAIN x : x[i].key = added[j].key /\ x[i].payload = added[j].payload
      BY <3>1, <1>f
    <3>3. i \in DOMAIN y /\ y[i] = x[i]
      BY <1>1, <1>y, <3>2
    <3> QED
      BY <3>2, <3>3
  <2> QED
    BY <2>1, <2>2
<1>5. Len(data) <= Len(y) /\ \A i \in 1 .. Len(data) : y[i] = data[i]
  BY <1>2
<1>6. \A i \in DOMAIN y : i > Len(data) => \E j \in 1 .. m : y[i] = added[j]
  BY <1>3
<1> QED
  BY <1>4, <1>5, <1>6, Zenon DEF Extended

\* Rows that are put are there, and nothing else is new.
LEMMA PutAllExtends ==
    ASSUME NEW S, NEW data \in Seq(S), NEW added \in Seq(S)
    PROVE  /\ Data!PutAll(data, added) \in Seq(S)
           /\ Extended(data, added, Len(added), Data!PutAll(data, added))
<1>1. PICK g : PutTrace(g, S, data, added)
  BY PutAllIs, Zenon
<1>2. PICK n \in Nat : n = Len(added)
  BY LenProperties
<1>3. /\ g \in [0 .. n -> Seq(S)] /\ g[0] = data /\ Data!PutAll(data, added) = g[n]
      /\ \A i \in 1 .. n : g[i] = Data!Put(g[i - 1], added[i]) /\ added[i] \in S
  BY <1>1, <1>2, ElementOfSeq DEF PutTrace
<1>4. Len(data) \in Nat /\ DOMAIN data = 1 .. Len(data)
  BY LenProperties
<1> DEFINE T == {m \in 0 .. n : Extended(data, added, m, g[m])}
<1>5. 0 \in T
  BY <1>3, <1>4 DEF Extended
<1>6. ASSUME NEW m \in 1 .. n, m - 1 \in T PROVE m \in T
  <2>1. m - 1 \in 0 .. n /\ Extended(data, added, m - 1, g[m - 1])
    BY <1>6
  <2>2. PICK x \in Seq(S) : x = g[m - 1]
    BY <1>3, <2>1
  <2>3. PICK r \in S : r = added[m]
    BY <1>3
  <2>4. OneMore(x, r, g[m])
    <3>1. g[m] = Data!Put(x, r)
      BY <1>3, <2>2, <2>3
    <3> QED
      BY <3>1, PutOne, Zenon
  <2>5. Extended(data, added, m, g[m])
    BY <1>4, <2>1, <2>2, <2>3, <2>4, ExtendedOne, Zenon
  <2> QED
    BY <2>5
<1>7. n \in T
  <2>1. \A m \in 1 .. n : m - 1 \in T => m \in T
    BY <1>6
  <2>2. \A m \in 0 .. n : m \in T
    <3> HIDE DEF T
    <3> QED
      BY <1>5, <2>1, Climb, Zenon
  <2> QED
    BY <2>2
<1> QED
  BY <1>2, <1>3, <1>7

\* The result of changes.
LEMMA ResultType ==
    ASSUME Data!CuratedAssumption, NEW x \in Wide, NEW cs \in Seq(Change)
    PROVE  Data!Result(x, cs) \in Wide /\ (Len(cs) = 0 => Data!Result(x, cs) = x)
<1>1. Len(cs) \in 0 .. Len(cs)
  BY LenProperties
<1> QED
  BY <1>1, HistoryIs DEF Data!Result

\* Replaying two lists of steps.
LEMMA ReplayInTwo ==
    ASSUME Data!CuratedAssumption, NEW K, NEW items \in [K -> Wide],
           NEW s \in Seq(Step), NEW t \in Seq(Step)
    PROVE  /\ Data!Replay(items, s) \in [K -> Wide]
           /\ Data!Replay(items, s \o t) = Data!Replay(Data!Replay(items, s), t)
<1>d. DOMAIN items = K
  OBVIOUS
<1>1. PICK h : ReplayTrace(h, items, s)
  BY ReplayIs
<1>2. PICK m \in Nat : m = Len(s)
  BY LenProperties
<1>3. h \in [0 .. m -> [K -> Wide]] /\ h[0] = items /\ Data!Replay(items, s) = h[m]
  BY <1>1, <1>2, <1>d DEF ReplayTrace
<1>4. PICK mid \in [K -> Wide] : mid = Data!Replay(items, s)
  BY <1>3
<1>5. PICK k : ReplayTrace(k, mid, t)
  BY ReplayIs
<1>6. PICK n \in Nat : n = Len(t)
  BY LenProperties
<1>7. PICK st \in Seq(Step) : st = s \o t
  BY ConcatProperties
<1>8. /\ Len(st) = m + n
      /\ \A i \in 1 .. m : st[i] = s[i]
      /\ \A i \in 1 .. n : st[m + i] = t[i]
  BY <1>2, <1>6, <1>7, ConcatProperties
<1>9. PICK g : ReplayTrace(g, items, st)
  BY ReplayIs
<1>10. \A i \in 0 .. m : g[i] = h[i]
  <2>1. g[0] = h[0]
    BY <1>3, <1>9 DEF ReplayTrace
  <2>2. ASSUME NEW i \in 1 .. m, g[i - 1] = h[i - 1] PROVE g[i] = h[i]
    <3>1. i \in 1 .. Len(st) /\ i \in 1 .. Len(s) /\ st[i] = s[i]
      BY <1>2, <1>8
    <3>2. g[i] = [g[i - 1] EXCEPT ![st[i].key] = Data!After(@, st[i].change)]
      BY <3>1, <1>9 DEF ReplayTrace
    <3>3. h[i] = [h[i - 1] EXCEPT ![s[i].key] = Data!After(@, s[i].change)]
      BY <3>1, <1>1 DEF ReplayTrace
    <3> QED
      BY <2>2, <3>1, <3>2, <3>3
  <2>4. m \in Nat
    OBVIOUS
  <2>3. \A i \in 1 .. m : g[i - 1] = h[i - 1] => g[i] = h[i]
    BY <2>2
  <2>5. GoAlike(g, h, m)
    BY <2>1, <2>3, <2>4 DEF GoAlike
  <2> QED
    BY <2>5, Alike DEF Agree
<1> DEFINE a == [i \in 0 .. n |-> g[m + i]]
<1>11. \A i \in 0 .. n : a[i] = k[i]
  <2>1. a[0] = k[0]
    <3>1. a[0] = g[m]
      OBVIOUS
    <3>2. g[m] = h[m]
      BY <1>10
    <3> QED
      BY <3>1, <3>2, <1>3, <1>4, <1>5 DEF ReplayTrace
  <2>2. ASSUME NEW i \in 1 .. n, a[i - 1] = k[i - 1] PROVE a[i] = k[i]
    <3>1. /\ m + i \in 1 .. Len(st) /\ i \in 1 .. Len(t) /\ st[m + i] = t[i]
          /\ i \in 0 .. n /\ i - 1 \in 0 .. n /\ (m + i) - 1 = m + (i - 1)
      BY <1>6, <1>8
    <3>2. g[m + i] = [g[(m + i) - 1] EXCEPT ![st[m + i].key] = Data!After(@, st[m + i].change)]
      BY <3>1, <1>9 DEF ReplayTrace
    <3>3. k[i] = [k[i - 1] EXCEPT ![t[i].key] = Data!After(@, t[i].change)]
      BY <3>1, <1>5 DEF ReplayTrace
    <3>4. a[i] = g[m + i] /\ a[i - 1] = g[m + (i - 1)]
      BY <3>1
    <3> QED
      BY <2>2, <3>1, <3>2, <3>3, <3>4
  <2>4. n \in Nat
    OBVIOUS
  <2>3. \A i \in 1 .. n : a[i - 1] = k[i - 1] => a[i] = k[i]
    BY <2>2
  <2> HIDE DEF a
  <2>5. GoAlike(a, k, n)
    BY <2>1, <2>3, <2>4 DEF GoAlike
  <2> QED
    BY <2>5, Alike DEF Agree
<1>12. Data!Replay(items, st) = g[m + n] /\ Data!Replay(mid, t) = k[n]
  BY <1>5, <1>6, <1>8, <1>9 DEF ReplayTrace
<1>13. a[n] = g[m + n] /\ a[n] = k[n]
  BY <1>11
<1> QED
  BY <1>3, <1>4, <1>7, <1>12, <1>13

\* A member selected stays at its place.
LEMMA SelectedStays ==
    ASSUME NEW S, NEW s \in Seq(S), NEW I, NEW g, SelectedTrace(g, S, s, I)
    PROVE  \A i \in 0 .. Len(s) : \A a \in 0 .. i :
               Len(g[a]) <= Len(g[i]) /\ \A q \in 1 .. Len(g[a]) : g[i][q] = g[a][q]
<1>1. PICK n \in Nat : n = Len(s)
  BY LenProperties
<1>2. /\ g \in [0 .. n -> Seq(S)]
      /\ \A i \in 1 .. n : g[i] = IF i \in I THEN Append(g[i - 1], s[i]) ELSE g[i - 1]
  BY <1>1 DEF SelectedTrace
<1>3. \A i \in 0 .. n : Len(g[i]) \in Nat
  BY <1>2, LenProperties
<1> DEFINE Kept(i) == \A a \in 0 .. i : Len(g[a]) <= Len(g[i]) /\ \A q \in 1 .. Len(g[a]) : g[i][q] = g[a][q]
           T == {i \in 0 .. n : Kept(i)}
<1>4. 0 \in T
  BY <1>3
<1>5. ASSUME NEW i \in 1 .. n, i - 1 \in T PROVE i \in T
  <2>1. i - 1 \in 0 .. n /\ Kept(i - 1)
    BY <1>5
  <2>2. PICK x \in Seq(S) : x = g[i - 1]
    BY <1>2, <2>1
  <2>3. Len(x) \in Nat /\ s[i] \in S
    BY <1>1, LenProperties, ElementOfSeq
  <2>4. PICK y : y = g[i]
    OBVIOUS
  <2>5. y = x \/ y = Append(x, s[i])
    BY <1>2, <2>2, <2>4
  <2>6. Len(x) <= Len(y) /\ \A q \in 1 .. Len(x) : y[q] = x[q]
    <3>1. Len(Append(x, s[i])) = Len(x) + 1 /\ \A q \in 1 .. Len(x) : Append(x, s[i])[q] = x[q]
      BY <2>3, AppendProperties
    <3> QED
      BY <2>3, <2>5, <3>1
  <2>7. ASSUME NEW a \in 0 .. i
        PROVE  Len(g[a]) <= Len(g[i]) /\ \A q \in 1 .. Len(g[a]) : g[i][q] = g[a][q]
    <3>1. CASE a = i
      BY <3>1, <1>3
    <3>2. CASE a # i
      <4>1. a \in 0 .. i - 1 /\ a \in 0 .. n
        BY <3>2
      <4>2. Len(g[a]) <= Len(x) /\ \A q \in 1 .. Len(g[a]) : x[q] = g[a][q]
        BY <4>1, <2>1, <2>2
      <4>3. Len(g[a]) \in Nat /\ Len(y) \in Nat
        BY <4>1, <1>3, <2>4
      <4> QED
        BY <4>2, <4>3, <2>3, <2>4, <2>6
    <3> QED
      BY <3>1, <3>2
  <2> QED
    BY <2>7
<1>6. \A i \in 0 .. n : i \in T
  <2>1. \A i \in 1 .. n : i - 1 \in T => i \in T
    BY <1>5
  <2> HIDE DEF T
  <2> QED
    BY <1>4, <2>1, Climb, Zenon
<1> QED
  BY <1>1, <1>6

\* Where the members that are selected are in the list that is made of them.
LEMMA SelectedPlaces ==
    ASSUME NEW S, NEW s \in Seq(S), NEW I, NEW g, SelectedTrace(g, S, s, I), NEW f, f = g[Len(s)]
    PROVE  /\ f \in Seq(S) /\ Len(g[0]) = 0
           /\ \A i \in 0 .. Len(s) : Len(g[i]) \in Nat /\ Len(g[i]) <= Len(f)
           /\ \A i \in 1 .. Len(s) :
                IF i \in I THEN Len(g[i]) = Len(g[i - 1]) + 1 /\ f[Len(g[i - 1]) + 1] = s[i]
                ELSE g[i] = g[i - 1]
<1>1. PICK n \in Nat : n = Len(s)
  BY LenProperties
<1>2. /\ g \in [0 .. n -> Seq(S)] /\ g[0] = <<>>
      /\ \A i \in 1 .. n : g[i] = IF i \in I THEN Append(g[i - 1], s[i]) ELSE g[i - 1]
  BY <1>1 DEF SelectedTrace
<1>3. \A i \in 0 .. n : Len(g[i]) \in Nat /\ Len(g[i]) <= Len(f) /\ \A q \in 1 .. Len(g[i]) : f[q] = g[i][q]
  <2>1. \A i \in 0 .. n : Len(g[i]) \in Nat
    BY <1>2, LenProperties
  <2>2. n \in 0 .. n /\ f = g[n]
    BY <1>1
  <2>3. \A a \in 0 .. n : Len(g[a]) <= Len(g[n]) /\ \A q \in 1 .. Len(g[a]) : g[n][q] = g[a][q]
    BY <1>1, <2>2, SelectedStays
  <2> QED
    BY <2>1, <2>2, <2>3
<1>4. ASSUME NEW i \in 1 .. n
      PROVE  IF i \in I THEN Len(g[i]) = Len(g[i - 1]) + 1 /\ f[Len(g[i - 1]) + 1] = s[i]
             ELSE g[i] = g[i - 1]
  <2>1. CASE i \notin I
    BY <1>2, <2>1
  <2>2. CASE i \in I
    <3>1. i - 1 \in 0 .. n /\ i \in 0 .. n
      BY <1>1
    <3>2. PICK x \in Seq(S) : x = g[i - 1]
      BY <1>2, <3>1
    <3>3. g[i] = Append(x, s[i]) /\ s[i] \in S
      BY <1>1, <1>2, <2>2, <3>2, ElementOfSeq
    <3>4. Len(g[i]) = Len(x) + 1 /\ g[i][Len(x) + 1] = s[i] /\ Len(x) \in Nat
      BY <3>3, AppendProperties, LenProperties
    <3>5. Len(x) + 1 \in 1 .. Len(g[i])
      BY <3>4
    <3>6. f[Len(x) + 1] = g[i][Len(x) + 1]
      BY <1>3, <3>1, <3>5
    <3> QED
      BY <2>2, <3>2, <3>4, <3>6
  <2> QED
    BY <2>1, <2>2
<1>5. f \in Seq(S) /\ Len(g[0]) = 0
  BY <1>1, <1>2, EmptySeq
<1> QED
  BY <1>1, <1>3, <1>4, <1>5

\* Each patch of ps has its step; the steps for item k are those at the places I.
Separates(patches, ps, steps, I, k) ==
    /\ steps \in Seq(Step) /\ Len(steps) = Len(ps)
    /\ \A i \in 1 .. Len(ps) : steps[i].change = patches[ps[i]].change
    /\ \A i \in 1 .. Len(ps) : i \in I <=> steps[i].key = k

\* Replayed step by step, item k becomes what the changes for it make of it.
LEMMA ItemByItem ==
    ASSUME Data!CuratedAssumption, NEW K, NEW items \in [K -> Wide], NEW k \in K,
           NEW ps \in Seq(Nat), NEW patches, NEW steps, NEW I, Separates(patches, ps, steps, I, k),
           NEW cs \in Seq(Change), cs = Data!Changes(patches, Data!Selected(ps, I))
    PROVE  Data!Replay(items, steps)[k] = Data!Result(items[k], cs)
<1>0. /\ steps \in Seq(Step) /\ Len(steps) = Len(ps)
      /\ \A i \in 1 .. Len(ps) : steps[i].change = patches[ps[i]].change
      /\ \A i \in 1 .. Len(ps) : i \in I <=> steps[i].key = k
  BY DEF Separates
<1>1. PICK n \in Nat : n = Len(ps)
  BY LenProperties
<1>2. PICK g : ReplayTrace(g, items, steps)
  BY <1>0, ReplayIs, Zenon
<1>3. PICK a : SelectedTrace(a, Nat, ps, I)
  BY SelectedIs, Zenon
<1>4. PICK f : f = a[Len(ps)]
  OBVIOUS
<1>5. /\ f \in Seq(Nat) /\ Len(a[0]) = 0
      /\ \A i \in 0 .. n : Len(a[i]) \in Nat /\ Len(a[i]) <= Len(f)
      /\ \A i \in 1 .. n :
            IF i \in I THEN Len(a[i]) = Len(a[i - 1]) + 1 /\ f[Len(a[i - 1]) + 1] = ps[i]
            ELSE a[i] = a[i - 1]
  BY <1>1, <1>3, <1>4, SelectedPlaces
<1>6. f = Data!Selected(ps, I)
  BY <1>3, <1>4 DEF SelectedTrace
<1>7. Len(cs) = Len(f) /\ \A q \in 1 .. Len(f) : cs[q] = patches[f[q]].change
  <2>1. DOMAIN cs = DOMAIN f /\ \A q \in DOMAIN f : cs[q] = patches[f[q]].change
    BY <1>6 DEF Data!Changes
  <2> QED
    BY <1>5, <2>1, LenProperties
<1>8. PICK H : H = Data!History(items[k], cs)
  OBVIOUS
<1>9. H[0] = items[k] /\ \A i \in 1 .. Len(cs) : H[i] = Data!After(H[i - 1], cs[i])
  BY <1>8, HistoryIs
<1>10. /\ g \in [0 .. n -> [K -> Wide]] /\ g[0] = items /\ Data!Replay(items, steps) = g[n]
       /\ \A i \in 1 .. n : g[i] = [g[i - 1] EXCEPT ![steps[i].key] = Data!After(@, steps[i].change)]
  BY <1>0, <1>1, <1>2 DEF ReplayTrace
<1> DEFINE T == {i \in 0 .. n : g[i][k] = H[Len(a[i])]}
<1>11. 0 \in T
  BY <1>5, <1>9, <1>10
<1>12. ASSUME NEW i \in 1 .. n, i - 1 \in T PROVE i \in T
  <2>1. i - 1 \in 0 .. n /\ g[i - 1][k] = H[Len(a[i - 1])] /\ i \in 0 .. n
    BY <1>12
  <2>2. PICK y \in [K -> Wide] : y = g[i - 1]
    BY <1>10, <2>1
  <2>3. g[i] = [y EXCEPT ![steps[i].key] = Data!After(@, steps[i].change)]
    BY <1>10, <2>2
  <2>4. CASE i \in I
    <3>1. steps[i].key = k
      BY <1>0, <1>1, <2>4
    <3>2. g[i][k] = Data!After(y[k], steps[i].change)
      BY <2>3, <3>1
    <3>3. PICK m \in Nat : m = Len(a[i - 1])
      BY <1>5, <2>1
    <3>4. Len(a[i]) = m + 1 /\ f[m + 1] = ps[i] /\ m + 1 <= Len(f)
      BY <1>5, <2>1, <2>4, <3>3
    <3>5. m + 1 \in 1 .. Len(f) /\ (m + 1) - 1 = m
      BY <3>4, <1>5, LenProperties
    <3>6. cs[m + 1] = steps[i].change
      BY <1>0, <1>1, <1>7, <3>4, <3>5
    <3>7. H[m + 1] = Data!After(H[m], cs[m + 1])
      BY <1>7, <1>9, <3>5
    <3>8. H[m] = y[k]
      BY <2>1, <2>2, <3>3
    <3>9. g[i][k] = H[Len(a[i])]
      BY <3>2, <3>4, <3>6, <3>7, <3>8
    <3> QED
      BY <2>1, <3>9
  <2>5. CASE i \notin I
    <3>1. steps[i].key # k
      BY <1>0, <1>1, <2>5
    <3>2. g[i][k] = y[k]
      BY <2>3, <3>1
    <3>3. a[i] = a[i - 1]
      BY <1>5, <2>5
    <3> QED
      BY <2>1, <2>2, <3>2, <3>3
  <2> QED
    BY <2>4, <2>5
<1>13. n \in T
  <2>1. \A i \in 1 .. n : i - 1 \in T => i \in T
    BY <1>12
  <2>2. \A i \in 0 .. n : i \in T
    <3> HIDE DEF T
    <3> QED
      BY <1>11, <2>1, Climb, Zenon
  <2> QED
    BY <2>2
<1>14. g[n][k] = H[Len(f)]
  BY <1>1, <1>4, <1>13
<1> QED
  BY <1>7, <1>8, <1>10, <1>14 DEF Data!Result

-----------------------------------------------------------------------------
(* Curated data: tables that grow                                          *)

\* The lineage of datum i is true and made of patches that exist.
DatumOK(t, i) ==
    /\ Data!LineageOf(t, i)
    /\ \A q \in DOMAIN t.data[i].patches : t.data[i].patches[q] \in DOMAIN t.patches

\* Bundle b is what its chain says, of patches and data that exist.
BundleOK(t, b) ==
    /\ \A q \in DOMAIN t.bundles[b].chain : t.bundles[b].chain[q] \in DOMAIN t.patches
    /\ DOMAIN t.bundles[b].items # {}
    /\ \A k \in DOMAIN t.bundles[b].items :
          \E i \in DOMAIN t.data : t.data[i].key = k /\ t.data[i].payload = t.bundles[b].items[k]
    /\ Data!InTurn(t, b)
    /\ t.bundles[b].items = Data!Replayed(t, b)

\* A patch is for a bundle, and for a datum if it names one.
PatchOK(t, p) ==
    t.patches[p].bundle \in DOMAIN t.bundles /\ t.patches[p].datum \in {0} \cup DOMAIN t.data

Sound(t) ==
    /\ t \in Data!Tables
    /\ \A p \in DOMAIN t.patches : PatchOK(t, p)
    /\ \A i \in DOMAIN t.data : DatumOK(t, i)
    /\ \A b \in DOMAIN t.bundles : BundleOK(t, b)

\* u has the rows of t; only the approval of a patch may differ.
Grows(t, u) ==
    /\ \A i \in DOMAIN t.data : i \in DOMAIN u.data /\ u.data[i] = t.data[i]
    /\ \A b \in DOMAIN t.bundles : b \in DOMAIN u.bundles /\ u.bundles[b] = t.bundles[b]
    /\ \A p \in DOMAIN t.patches :
          /\ p \in DOMAIN u.patches
          /\ u.patches[p].bundle = t.patches[p].bundle /\ u.patches[p].datum = t.patches[p].datum
          /\ u.patches[p].change = t.patches[p].change

\* The rows of tables, by their types.
LEMMA RowTypes ==
    ASSUME NEW t \in Data!Tables
    PROVE  /\ t.data \in Seq(Data!Datum) /\ t.bundles \in Seq(Data!Bundle) /\ t.patches \in Seq(Data!Patch)
           /\ DOMAIN t.data = 1 .. Len(t.data) /\ Len(t.data) \in Nat
           /\ DOMAIN t.bundles = 1 .. Len(t.bundles) /\ Len(t.bundles) \in Nat
           /\ DOMAIN t.patches = 1 .. Len(t.patches) /\ Len(t.patches) \in Nat
           /\ \A i \in DOMAIN t.data :
                /\ t.data[i] \in Data!Datum
                /\ t.data[i].key \in Key /\ t.data[i].payload \in Data!Payload
                /\ t.data[i].from \in Nat /\ t.data[i].patches \in Seq(Nat)
           /\ \A b \in DOMAIN t.bundles :
                /\ t.bundles[b].chain \in Seq(Nat)
                /\ \E K \in SUBSET Key : t.bundles[b].items \in [K -> Data!Payload]
           /\ \A p \in DOMAIN t.patches :
                /\ t.patches[p].bundle \in Nat /\ t.patches[p].datum \in Nat
                /\ t.patches[p].change \in Change /\ t.patches[p] \in Data!Patch
<1>1. t.data \in Seq(Data!Datum) /\ t.bundles \in Seq(Data!Bundle) /\ t.patches \in Seq(Data!Patch)
  BY DEF Data!Tables
<1>2. /\ DOMAIN t.data = 1 .. Len(t.data) /\ Len(t.data) \in Nat
      /\ DOMAIN t.bundles = 1 .. Len(t.bundles) /\ Len(t.bundles) \in Nat
      /\ DOMAIN t.patches = 1 .. Len(t.patches) /\ Len(t.patches) \in Nat
  BY <1>1, LenProperties
<1>3. /\ \A i \in DOMAIN t.data : t.data[i] \in Data!Datum
      /\ \A b \in DOMAIN t.bundles : t.bundles[b] \in Data!Bundle
      /\ \A p \in DOMAIN t.patches : t.patches[p] \in Data!Patch
  BY <1>1, <1>2, ElementOfSeq
<1>4. \A d \in Data!Datum : d.key \in Key /\ d.payload \in Data!Payload /\ d.from \in Nat /\ d.patches \in Seq(Nat)
  BY DEF Data!Datum
<1>5. \A c \in Data!Bundle : c.chain \in Seq(Nat) /\ \E K \in SUBSET Key : c.items \in [K -> Data!Payload]
  BY DEF Data!Bundle
<1>6. \A p \in Data!Patch : p.bundle \in Nat /\ p.datum \in Nat /\ p.change \in Change
  BY DEF Data!Patch
<1> QED
  BY <1>1, <1>2, <1>3, <1>4, <1>5, <1>6

\* A list is one of the set that its members are in.
LEMMA SeqOf ==
    ASSUME NEW S, NEW s \in Seq(S), NEW P, \A q \in DOMAIN s : s[q] \in P
    PROVE  s \in Seq(P)
<1>1. Len(s) \in Nat /\ DOMAIN s = 1 .. Len(s) /\ s = [q \in 1 .. Len(s) |-> s[q]]
  BY LenProperties
<1>2. \A q \in 1 .. Len(s) : s[q] \in P
  BY <1>1
<1> QED
  BY <1>1, <1>2, IsASeq

\* The changes of a list of patches.
LEMMA ChangesAre ==
    ASSUME NEW patches, NEW P, \A p \in P : patches[p].change \in Change, NEW qs \in Seq(P)
    PROVE  /\ Data!Changes(patches, qs) \in Seq(Change) /\ Len(Data!Changes(patches, qs)) = Len(qs)
           /\ \A more : (\A p \in P : more[p].change = patches[p].change)
                            => Data!Changes(more, qs) = Data!Changes(patches, qs)
<1>1. Len(qs) \in Nat /\ DOMAIN qs = 1 .. Len(qs) /\ \A q \in 1 .. Len(qs) : qs[q] \in P
  BY LenProperties, ElementOfSeq
<1>2. PICK n \in Nat : n = Len(qs)
  BY <1>1
<1>3. Data!Changes(patches, qs) = [q \in 1 .. n |-> patches[qs[q]].change]
  BY <1>1, <1>2 DEF Data!Changes
<1>4. \A q \in 1 .. n : patches[qs[q]].change \in Change
  BY <1>1, <1>2
<1>5. Data!Changes(patches, qs) \in Seq(Change) /\ Len(Data!Changes(patches, qs)) = n
  BY <1>3, <1>4, IsASeq
<1>6. ASSUME NEW more, \A p \in P : more[p].change = patches[p].change
      PROVE  Data!Changes(more, qs) = Data!Changes(patches, qs)
  <2>1. Data!Changes(more, qs) = [q \in 1 .. n |-> more[qs[q]].change]
    BY <1>1, <1>2 DEF Data!Changes
  <2>2. \A q \in 1 .. n : more[qs[q]].change = patches[qs[q]].change
    BY <1>1, <1>2, <1>6
  <2> QED
    BY <1>3, <2>1, <2>2
<1> QED
  BY <1>2, <1>5, <1>6

\* A prefix, by its members.
LEMMA PrefixIs ==
    ASSUME NEW s \in Seq(Nat), NEW t \in Seq(Nat)
    PROVE  Data!IsPrefix(s, t) <=> Len(s) <= Len(t) /\ \A i \in 1 .. Len(s) : s[i] = t[i]
<1>1. Len(s) \in Nat /\ Len(t) \in Nat
  BY LenProperties
<1>2. CASE Len(s) <= Len(t)
  <2>1. /\ SubSeq(s, 1, Len(s)) \in Seq(Nat) /\ Len(SubSeq(s, 1, Len(s))) = Len(s)
        /\ \A i \in 1 .. Len(s) : SubSeq(s, 1, Len(s))[i] = s[i]
    BY <1>1, SubSeqProperties
  <2>2. /\ SubSeq(t, 1, Len(s)) \in Seq(Nat) /\ Len(SubSeq(t, 1, Len(s))) = Len(s)
        /\ \A i \in 1 .. Len(s) : SubSeq(t, 1, Len(s))[i] = t[i]
    BY <1>1, <1>2, SubSeqProperties
  <2>3. PICK a \in Seq(Nat) : a = SubSeq(s, 1, Len(s))
    BY <2>1
  <2>4. PICK b \in Seq(Nat) : b = SubSeq(t, 1, Len(s))
    BY <2>2
  <2>5. Len(a) = Len(b) /\ (a = b <=> \A i \in 1 .. Len(a) : a[i] = b[i])
    BY <2>1, <2>2, <2>3, <2>4, SeqEqual
  <2>6. a = b <=> \A i \in 1 .. Len(s) : s[i] = t[i]
    BY <2>1, <2>2, <2>3, <2>4, <2>5
  <2> QED
    BY <1>2, <2>3, <2>4, <2>6 DEF Data!IsPrefix
<1>3. CASE ~ (Len(s) <= Len(t))
  BY <1>3 DEF Data!IsPrefix
<1> QED
  BY <1>2, <1>3

\* The patches rows to a lineage.
LEMMA AddedPatches ==
    ASSUME NEW P, NEW s \in Seq(Nat), NEW t \in Seq(P), Data!IsPrefix(s, t)
    PROVE  SubSeq(t, Len(s) + 1, Len(t)) \in Seq(P)
<1>1. Len(s) \in Nat /\ Len(t) \in Nat /\ Len(s) <= Len(t)
  BY LenProperties DEF Data!IsPrefix
<1> QED
  BY <1>1, SubSeqProperties

\* What was said of a datum stays true.
LEMMA DatumStays ==
    ASSUME Data!CuratedAssumption, NEW t, Sound(t), NEW u, Grows(t, u), NEW i \in DOMAIN t.data
    PROVE  DatumOK(u, i)
<1>1. t \in Data!Tables /\ DatumOK(t, i)
  BY DEF Sound
<1>2. /\ i \in Nat /\ t.data[i].from \in Nat /\ t.data[i].patches \in Seq(Nat)
      /\ DOMAIN t.data = 1 .. Len(t.data) /\ Len(t.data) \in Nat
      /\ \A p \in DOMAIN t.patches : t.patches[p].change \in Change
  BY <1>1, RowTypes
<1>3. PICK d : d = t.data[i]
  OBVIOUS
<1>4. u.data[i] = d
  BY <1>3 DEF Grows
<1>5. CASE d.from = 0
  <2>1. d.patches = <<>>
    BY <1>1, <1>3, <1>5 DEF DatumOK, Data!LineageOf
  <2>2. DOMAIN d.patches = {}
    BY <2>1
  <2> QED
    BY <1>4, <1>5, <2>1, <2>2 DEF DatumOK, Data!LineageOf
<1>6. CASE d.from # 0
  <2>1. PICK f : f = t.data[d.from]
    OBVIOUS
  <2>2. PICK qs : qs = SubSeq(d.patches, Len(f.patches) + 1, Len(d.patches))
    OBVIOUS
  <2>3. /\ d.from < i /\ f.key = d.key /\ Data!IsPrefix(f.patches, d.patches)
        /\ Data!Succeeds(f.payload, Data!Changes(t.patches, qs))
        /\ Data!Result(f.payload, Data!Changes(t.patches, qs)) = d.payload
    BY <1>1, <1>3, <1>6, <2>1, <2>2 DEF DatumOK, Data!LineageOf
  <2>4. d.from \in DOMAIN t.data
    BY <1>2, <1>3, <1>6, <2>3
  <2>5. u.data[d.from] = f /\ f.patches \in Seq(Nat)
    BY <1>1, <2>1, <2>4, RowTypes DEF Grows
  <2>6. \A q \in DOMAIN d.patches : d.patches[q] \in DOMAIN t.patches
    BY <1>1, <1>3 DEF DatumOK
  <2>7. d.patches \in Seq(DOMAIN t.patches)
    BY <1>2, <1>3, <2>6, SeqOf
  <2>8. qs \in Seq(DOMAIN t.patches)
    BY <2>2, <2>3, <2>5, <2>7, AddedPatches
  <2>9. Data!Changes(u.patches, qs) = Data!Changes(t.patches, qs)
    <3>1. \A p \in DOMAIN t.patches : u.patches[p].change = t.patches[p].change
      BY DEF Grows
    <3> QED
      BY <1>2, <2>8, <3>1, ChangesAre
  <2>10. \A q \in DOMAIN d.patches : d.patches[q] \in DOMAIN u.patches
    BY <2>6 DEF Grows
  <2> QED
    BY <1>4, <1>6, <2>2, <2>3, <2>5, <2>9, <2>10 DEF DatumOK, Data!LineageOf
<1> QED
  BY <1>5, <1>6

\* The item that a patch is for has a key.
LEMMA KeyOfType ==
    ASSUME Data!CuratedAssumption, NEW t, Sound(t), NEW b \in DOMAIN t.bundles, NEW p \in DOMAIN t.patches
    PROVE  Data!KeyOf(t, b, p) \in Key
<1>1. t \in Data!Tables /\ PatchOK(t, p) /\ BundleOK(t, b)
  BY DEF Sound
<1>2. CASE t.patches[p].datum = 0
  <2>1. PICK K \in SUBSET Key : t.bundles[b].items \in [K -> Data!Payload]
    BY <1>1, RowTypes
  <2>2. K # {} /\ K = DOMAIN t.bundles[b].items
    BY <1>1, <2>1 DEF BundleOK
  <2>3. Data!KeyOf(t, b, p) = CHOOSE k \in K : TRUE
    BY <1>2, <2>2 DEF Data!KeyOf
  <2> QED
    BY <2>2, <2>3
<1>3. CASE t.patches[p].datum # 0
  <2>1. t.patches[p].datum \in DOMAIN t.data
    BY <1>1, <1>3 DEF PatchOK
  <2>2. t.data[t.patches[p].datum].key \in Key
    BY <1>1, <2>1, RowTypes
  <2> QED
    BY <1>3, <2>2 DEF Data!KeyOf
<1> QED
  BY <1>2, <1>3

\* The steps of a list of patches to bundle b.
StepsOf(t, b, qs) == [i \in DOMAIN qs |-> [key |-> Data!KeyOf(t, b, qs[i]), change |-> t.patches[qs[i]].change]]

\* What items are replayed to has their keys.
LEMMA ReplayType ==
    ASSUME Data!CuratedAssumption, NEW K, NEW items \in [K -> Wide], NEW s \in Seq(Step)
    PROVE  Data!Replay(items, s) \in [K -> Wide] /\ (Len(s) = 0 => Data!Replay(items, s) = items)
<1>1. PICK n \in Nat : n = Len(s)
  BY LenProperties
<1>2. \E g : ReplayTrace(g, items, s)
  BY ReplayIs, Zenon
<1>3. PICK g : ReplayTrace(g, items, s)
  BY <1>2
<1>4. /\ g \in [0 .. n -> [K -> Wide]] /\ g[0] = items /\ Data!Replay(items, s) = g[n]
  BY <1>1, <1>3 DEF ReplayTrace
<1> QED
  BY <1>1, <1>4

\* Two lists of steps are replayed one after the other.
LEMMA ReplayBoth ==
    ASSUME Data!CuratedAssumption, NEW K, NEW items \in [K -> Wide]
    PROVE  \A s, t \in Seq(Step) : Data!Replay(items, s \o t) = Data!Replay(Data!Replay(items, s), t)
BY ReplayInTwo

\* The steps of a list of patches to a bundle.
LEMMA StepsOfType ==
    ASSUME Data!CuratedAssumption, NEW t, Sound(t), NEW b \in DOMAIN t.bundles, NEW qs \in Seq(DOMAIN t.patches)
    PROVE  StepsOf(t, b, qs) \in Seq(Step) /\ Len(StepsOf(t, b, qs)) = Len(qs)
<1>1. PICK n \in Nat : n = Len(qs) /\ DOMAIN qs = 1 .. n
  BY LenProperties
<1>2. ASSUME NEW i \in 1 .. n
      PROVE  [key |-> Data!KeyOf(t, b, qs[i]), change |-> t.patches[qs[i]].change] \in Step
  <2>1. qs[i] \in DOMAIN t.patches
    BY <1>1, ElementOfSeq
  <2>2. t.patches[qs[i]].change \in Change
    BY <2>1, RowTypes DEF Sound
  <2> QED
    BY <2>1, <2>2, KeyOfType DEF Step
<1>3. StepsOf(t, b, qs) = [i \in 1 .. n |-> [key |-> Data!KeyOf(t, b, qs[i]), change |-> t.patches[qs[i]].change]]
  BY <1>1 DEF StepsOf
<1>4. \A i \in 1 .. n : [key |-> Data!KeyOf(t, b, qs[i]), change |-> t.patches[qs[i]].change] \in Step
  BY <1>2
<1> QED
  BY <1>1, <1>3, <1>4, IsASeq

\* The chain of a bundle, the bundle it starts from, and its items.
LEMMA ChainTypes ==
    ASSUME Data!CuratedAssumption, NEW t, Sound(t), NEW b \in DOMAIN t.bundles
    PROVE  /\ t.bundles[b].chain \in Seq(DOMAIN t.patches)
           /\ Data!Root(t, b) \in DOMAIN t.bundles
           /\ Data!Steps(t, b) = StepsOf(t, b, t.bundles[b].chain)
           /\ DOMAIN t.bundles[b].items \subseteq Key /\ DOMAIN t.bundles[b].items # {}
           /\ t.bundles[b].items \in [DOMAIN t.bundles[b].items -> Data!Payload]
           /\ t.bundles[Data!Root(t, b)].items \in [DOMAIN t.bundles[b].items -> Wide]
<1>1. t \in Data!Tables /\ BundleOK(t, b)
  BY DEF Sound
<1>2. PICK chain : chain = t.bundles[b].chain
  OBVIOUS
<1>3. chain \in Seq(DOMAIN t.patches)
  <2>1. chain \in Seq(Nat) /\ \A q \in DOMAIN chain : chain[q] \in DOMAIN t.patches
    BY <1>1, <1>2, RowTypes DEF BundleOK
  <2> QED
    BY <2>1, SeqOf
<1>4. Data!Root(t, b) \in DOMAIN t.bundles
  <2>1. CASE chain = <<>>
    BY <1>2, <2>1 DEF Data!Root
  <2>2. CASE chain # <<>>
    <3>1. Head(chain) \in DOMAIN t.patches
      BY <1>3, <2>2, HeadTailProperties
    <3>2. t.patches[Head(chain)].bundle \in DOMAIN t.bundles
      BY <3>1 DEF Sound, PatchOK
    <3> QED
      BY <1>2, <2>2, <3>2 DEF Data!Root
  <2> QED
    BY <2>1, <2>2
<1>5. Data!Steps(t, b) = StepsOf(t, b, chain)
  BY <1>2 DEF Data!Steps, StepsOf
<1>6. PICK K \in SUBSET Key : t.bundles[b].items \in [K -> Data!Payload]
  BY <1>1, RowTypes
<1>7. PICK L \in SUBSET Key : t.bundles[Data!Root(t, b)].items \in [L -> Data!Payload]
  BY <1>1, <1>4, RowTypes
<1>8. t.bundles[Data!Root(t, b)].items \in [L -> Wide]
  BY <1>7, PayloadIsWide
<1>9. StepsOf(t, b, chain) \in Seq(Step)
  BY <1>3, StepsOfType
<1>10. t.bundles[b].items \in [L -> Wide]
  <2>1. t.bundles[b].items = Data!Replay(t.bundles[Data!Root(t, b)].items, StepsOf(t, b, chain))
    BY <1>1, <1>5 DEF BundleOK, Data!Replayed
  <2> QED
    BY <1>8, <1>9, <2>1, ReplayType
<1>11. K = L /\ DOMAIN t.bundles[b].items = K
  BY <1>6, <1>10
<1>12. K # {}
  BY <1>1, <1>11 DEF BundleOK
<1> QED
  BY <1>2, <1>3, <1>4, <1>5, <1>6, <1>8, <1>11, <1>12

\* A list of patches stays the same list of steps.
LEMMA StepsStay ==
    ASSUME NEW t, Sound(t), NEW u, Grows(t, u), NEW b, NEW c,
           DOMAIN u.bundles[c].items = DOMAIN t.bundles[b].items, NEW qs \in Seq(DOMAIN t.patches)
    PROVE  StepsOf(u, c, qs) = StepsOf(t, b, qs)
<1>1. PICK n \in Nat : n = Len(qs) /\ DOMAIN qs = 1 .. n
  BY LenProperties
<1>2. ASSUME NEW i \in 1 .. n
      PROVE  Data!KeyOf(u, c, qs[i]) = Data!KeyOf(t, b, qs[i]) /\ u.patches[qs[i]].change = t.patches[qs[i]].change
  <2>1. PICK p \in DOMAIN t.patches : p = qs[i]
    BY <1>1, ElementOfSeq
  <2>2. /\ u.patches[p].datum = t.patches[p].datum /\ u.patches[p].change = t.patches[p].change
        /\ t.patches[p].datum # 0 => t.patches[p].datum \in DOMAIN t.data
    BY DEF Grows, Sound, PatchOK
  <2>3. t.patches[p].datum # 0 => u.data[t.patches[p].datum] = t.data[t.patches[p].datum]
    BY <2>2 DEF Grows
  <2>4. Data!KeyOf(u, c, p) = Data!KeyOf(t, b, p)
    BY <2>2, <2>3 DEF Data!KeyOf
  <2> QED
    BY <2>1, <2>2, <2>4
<1>3. \A i \in 1 .. n : /\ Data!KeyOf(u, c, qs[i]) = Data!KeyOf(t, b, qs[i])
                        /\ u.patches[qs[i]].change = t.patches[qs[i]].change
  BY <1>2
<1>4. /\ StepsOf(u, c, qs) = [i \in 1 .. n |-> [key |-> Data!KeyOf(u, c, qs[i]), change |-> u.patches[qs[i]].change]]
      /\ StepsOf(t, b, qs) = [i \in 1 .. n |-> [key |-> Data!KeyOf(t, b, qs[i]), change |-> t.patches[qs[i]].change]]
  BY <1>1 DEF StepsOf
<1> QED
  BY <1>3, <1>4

\* What was said of a bundle stays true.
LEMMA BundleStays ==
    ASSUME Data!CuratedAssumption, NEW t, Sound(t), NEW u, Grows(t, u), NEW b \in DOMAIN t.bundles
    PROVE  BundleOK(u, b)
<1>1. t \in Data!Tables /\ BundleOK(t, b) /\ u.bundles[b] = t.bundles[b]
  BY DEF Sound, Grows
<1>2. PICK chain : chain = t.bundles[b].chain
  OBVIOUS
<1>3. chain \in Seq(DOMAIN t.patches) /\ Data!Root(t, b) \in DOMAIN t.bundles
      /\ Data!Steps(t, b) = StepsOf(t, b, chain)
  BY <1>2, ChainTypes
<1>4. \A p \in DOMAIN t.patches : p \in DOMAIN u.patches /\ u.patches[p].bundle = t.patches[p].bundle
                                  /\ u.bundles[t.patches[p].bundle] = t.bundles[t.patches[p].bundle]
  BY DEF Grows, Sound, PatchOK
<1>5. \A q \in DOMAIN chain : chain[q] \in DOMAIN t.patches
  BY <1>1, <1>2 DEF BundleOK
<1>6. \A q \in DOMAIN u.bundles[b].chain : u.bundles[b].chain[q] \in DOMAIN u.patches
  BY <1>1, <1>2, <1>4, <1>5
<1>7. \A k \in DOMAIN u.bundles[b].items :
          \E i \in DOMAIN u.data : u.data[i].key = k /\ u.data[i].payload = u.bundles[b].items[k]
  BY <1>1 DEF BundleOK, Grows
<1>8. Data!InTurn(u, b)
  <2>1. ASSUME NEW i \in DOMAIN chain
        PROVE  LET base == u.bundles[u.patches[chain[i]].bundle].chain
               IN  Len(base) < i /\ Data!IsPrefix(base, chain)
    <3>1. PICK p \in DOMAIN t.patches : p = chain[i]
      BY <1>5, <2>1
    <3>2. u.bundles[u.patches[p].bundle] = t.bundles[t.patches[p].bundle]
      BY <1>4
    <3>3. LET base == t.bundles[t.patches[p].bundle].chain IN Len(base) < i /\ Data!IsPrefix(base, chain)
      BY <1>1, <1>2, <3>1 DEF BundleOK, Data!InTurn
    <3> QED
      BY <3>1, <3>2, <3>3
  <2> QED
    BY <1>1, <1>2, <2>1, Zenon DEF Data!InTurn
<1>9. Data!Root(u, b) = Data!Root(t, b)
  <2>1. CASE chain = <<>>
    BY <1>1, <1>2, <2>1 DEF Data!Root
  <2>2. CASE chain # <<>>
    <3>1. Head(chain) \in DOMAIN t.patches
      BY <1>3, <2>2, HeadTailProperties
    <3> QED
      BY <1>1, <1>2, <1>4, <2>2, <3>1 DEF Data!Root
  <2> QED
    BY <2>1, <2>2
<1>10. Data!Steps(u, b) = Data!Steps(t, b)
  <2>1. Data!Steps(u, b) = StepsOf(u, b, chain)
    BY <1>1, <1>2 DEF Data!Steps, StepsOf
  <2>2. DOMAIN u.bundles[b].items = DOMAIN t.bundles[b].items
    BY <1>1
  <2> QED
    BY <1>3, <2>1, <2>2, StepsStay
<1>11. u.bundles[Data!Root(t, b)] = t.bundles[Data!Root(t, b)]
  BY <1>3 DEF Grows
<1>12. u.bundles[b].items = Data!Replayed(u, b)
  BY <1>1, <1>9, <1>10, <1>11 DEF BundleOK, Data!Replayed
<1>13. DOMAIN u.bundles[b].items # {}
  BY <1>1 DEF BundleOK
<1> QED
  BY <1>6, <1>7, <1>8, <1>12, <1>13 DEF BundleOK

\* Tables that grow by rows that are as they should be stay sound.
LEMMA SoundGrows ==
    ASSUME Data!CuratedAssumption, NEW t, Sound(t), NEW u \in Data!Tables, Grows(t, u),
           \A p \in DOMAIN u.patches : PatchOK(u, p),
           \A i \in DOMAIN u.data : i \notin DOMAIN t.data => DatumOK(u, i),
           \A b \in DOMAIN u.bundles : b \notin DOMAIN t.bundles => BundleOK(u, b)
    PROVE  Sound(u)
<1>1. \A i \in DOMAIN u.data : DatumOK(u, i)
  BY DatumStays
<1>2. \A b \in DOMAIN u.bundles : BundleOK(u, b)
  BY BundleStays
<1> QED
  BY <1>1, <1>2 DEF Sound

-----------------------------------------------------------------------------
(* Curated data: one operation                                             *)

\* A patch is made.
LEMMA CreateKeeps ==
    ASSUME Data!CuratedAssumption, NEW t, Sound(t), NEW b \in DOMAIN t.bundles,
           NEW d \in {0} \cup DOMAIN t.data, NEW c \in Change, NEW a \in {"yes", "no"},
           NEW u, u = [t EXCEPT !.patches =
                            Append(@, [bundle |-> b, datum |-> d, change |-> c, approved |-> a])]
    PROVE  Sound(u)
<1>1. t \in Data!Tables
  BY DEF Sound
<1>2. PICK q : q = [bundle |-> b, datum |-> d, change |-> c, approved |-> a]
  OBVIOUS
<1>3. b \in Nat \ {0} /\ d \in Nat
  BY <1>1, RowTypes
<1>4. q \in Data!Patch
  BY <1>2, <1>3 DEF Data!Patch
<1>5. PICK ps \in Seq(Data!Patch) : ps = t.patches
  BY <1>1, RowTypes
<1>6. PICK more : more = Append(ps, q)
  OBVIOUS
<1>7. /\ more \in Seq(Data!Patch) /\ Len(more) = Len(ps) + 1
      /\ \A i \in 1 .. Len(ps) : more[i] = ps[i]
      /\ more[Len(ps) + 1] = q
  BY <1>4, <1>6, AppendProperties
<1>8. Len(ps) \in Nat /\ DOMAIN ps = 1 .. Len(ps) /\ DOMAIN more = 1 .. Len(more)
  BY <1>7, LenProperties
<1>9. u \in Data!Tables /\ u.data = t.data /\ u.bundles = t.bundles /\ u.patches = more
  BY <1>1, <1>2, <1>5, <1>6, <1>7 DEF Data!Tables
<1>10. Grows(t, u)
  BY <1>5, <1>7, <1>8, <1>9 DEF Grows
<1>11. \A p \in DOMAIN u.patches : PatchOK(u, p)
  <2>1. ASSUME NEW p \in DOMAIN more PROVE PatchOK(u, p)
    <3>1. CASE p \in DOMAIN ps
      <4>1. PatchOK(t, p)
        BY <1>5, <3>1 DEF Sound
      <4> QED
        BY <1>5, <1>7, <1>8, <1>9, <3>1, <4>1 DEF PatchOK
    <3>2. CASE p \notin DOMAIN ps
      <4>1. more[p] = q
        BY <1>7, <1>8, <2>1, <3>2
      <4> QED
        BY <1>2, <1>9, <4>1 DEF PatchOK
    <3> QED
      BY <3>1, <3>2
  <2> QED
    BY <1>9, <2>1
<1> QED
  BY <1>9, <1>10, <1>11, SoundGrows

\* A patch is approved.
LEMMA ApproveKeeps ==
    ASSUME Data!CuratedAssumption, NEW t, Sound(t), NEW p \in DOMAIN t.patches,
           NEW u, u = [t EXCEPT !.patches[p].approved = "yes"]
    PROVE  Sound(u)
<1>1. t \in Data!Tables
  BY DEF Sound
<1>2. PICK ps \in Seq(Data!Patch) : ps = t.patches
  BY <1>1, RowTypes
<1>3. PICK q : q = [ps[p] EXCEPT !.approved = "yes"]
  OBVIOUS
<1>4. Len(ps) \in Nat /\ DOMAIN ps = 1 .. Len(ps) /\ p \in 1 .. Len(ps)
  BY <1>2, LenProperties
<1>5. ps[p] \in Data!Patch
  BY <1>4, ElementOfSeq
<1>6. /\ q \in Data!Patch /\ q.bundle = ps[p].bundle /\ q.datum = ps[p].datum /\ q.change = ps[p].change
  BY <1>3, <1>5 DEF Data!Patch
<1>7. PICK more : more = [ps EXCEPT ![p] = q]
  OBVIOUS
<1>8. /\ more \in Seq(Data!Patch) /\ Len(more) = Len(ps)
      /\ \A i \in 1 .. Len(ps) : more[i] = IF i = p THEN q ELSE ps[i]
  BY <1>4, <1>6, <1>7, ExceptSeq
<1>9. DOMAIN more = 1 .. Len(ps)
  BY <1>8, LenProperties
<1>10. u \in Data!Tables /\ u.data = t.data /\ u.bundles = t.bundles /\ u.patches = more
  <2>1. u = [t EXCEPT !.patches = more]
    BY <1>1, <1>2, <1>3, <1>7 DEF Data!Tables
  <2> QED
    BY <1>1, <1>8, <2>1 DEF Data!Tables
<1>11. \A i \in DOMAIN ps : /\ more[i].bundle = ps[i].bundle /\ more[i].datum = ps[i].datum
                            /\ more[i].change = ps[i].change
  BY <1>4, <1>6, <1>8
<1>12. Grows(t, u)
  BY <1>2, <1>4, <1>9, <1>10, <1>11 DEF Grows
<1>13. \A i \in DOMAIN u.patches : PatchOK(u, i)
  <2>1. ASSUME NEW i \in DOMAIN ps PROVE PatchOK(u, i)
    <3>1. PatchOK(t, i)
      BY <1>2, <2>1 DEF Sound
    <3> QED
      BY <1>2, <1>10, <1>11, <2>1, <3>1 DEF PatchOK
  <2> QED
    BY <1>4, <1>9, <1>10, <2>1
<1> QED
  BY <1>2, <1>4, <1>9, <1>10, <1>12, <1>13, SoundGrows

\* Row r may be put to the data of t: it is new, or made of a datum that is there.
RowOK(t, r) ==
    /\ \A q \in DOMAIN r.patches : r.patches[q] \in DOMAIN t.patches
    /\ \/ r.from = 0 /\ r.patches = <<>>
       \/ /\ r.from \in DOMAIN t.data /\ t.data[r.from].key = r.key
          /\ Data!IsPrefix(t.data[r.from].patches, r.patches)
          /\ LET f == t.data[r.from]
                 cs == Data!Changes(t.patches, SubSeq(r.patches, Len(f.patches) + 1, Len(r.patches)))
             IN  Data!Succeeds(f.payload, cs) /\ Data!Result(f.payload, cs) = r.payload

\* The tables u are t with the rows.
Rowed(t, added, u) ==
    /\ Sound(u) /\ Grows(t, u) /\ u.bundles = t.bundles /\ u.patches = t.patches
    /\ \A j \in DOMAIN added :
          \E i \in DOMAIN u.data : u.data[i].key = added[j].key /\ u.data[i].payload = added[j].payload

\* Rows are put.
LEMMA RowsKeep ==
    ASSUME Data!CuratedAssumption, NEW t, Sound(t), NEW added \in Seq(Data!Datum),
           \A j \in DOMAIN added : RowOK(t, added[j]),
           NEW u, u = [t EXCEPT !.data = Data!PutAll(@, added)]
    PROVE  Rowed(t, added, u)
<1>1. t \in Data!Tables
  BY DEF Sound
<1>2. PICK n \in Nat : n = Len(added) /\ DOMAIN added = 1 .. n
  BY LenProperties
<1>3. PICK data \in Seq(Data!Datum) : data = t.data
  BY <1>1, RowTypes
<1>4. Len(data) \in Nat /\ DOMAIN data = 1 .. Len(data)
  BY LenProperties
<1>5. PICK r : r = Data!PutAll(data, added)
  OBVIOUS
<1>6. r \in Seq(Data!Datum) /\ Extended(data, added, n, r)
  BY <1>2, <1>5, PutAllExtends
<1>7. Len(r) \in Nat /\ DOMAIN r = 1 .. Len(r)
  BY <1>6, LenProperties
<1>8. u \in Data!Tables /\ u.data = r /\ u.bundles = t.bundles /\ u.patches = t.patches
  BY <1>1, <1>3, <1>5, <1>6 DEF Data!Tables
<1>9. Grows(t, u)
  BY <1>3, <1>4, <1>6, <1>7, <1>8 DEF Grows, Extended
<1>10. \A p \in DOMAIN u.patches : PatchOK(u, p)
  <2>1. ASSUME NEW p \in DOMAIN t.patches PROVE PatchOK(u, p)
    <3>1. PatchOK(t, p)
      BY DEF Sound
    <3> QED
      BY <1>8, <1>9, <3>1 DEF PatchOK, Grows
  <2> QED
    BY <1>8, <2>1
<1>11. ASSUME NEW i \in DOMAIN u.data, i \notin DOMAIN t.data PROVE DatumOK(u, i)
  <2>1. i > Len(data) /\ i \in DOMAIN r
    BY <1>3, <1>4, <1>7, <1>8, <1>11
  <2>2. PICK j \in 1 .. n : r[i] = added[j]
    BY <1>6, <2>1 DEF Extended
  <2>3. PICK d : d = added[j]
    OBVIOUS
  <2>4. RowOK(t, d)
    BY <1>2, <2>3
  <2>5. u.data[i] = d
    BY <1>8, <2>2, <2>3
  <2>6. CASE d.from = 0 /\ d.patches = <<>>
    <3>1. DOMAIN d.patches = {}
      BY <2>6
    <3> QED
      BY <2>5, <2>6, <3>1 DEF DatumOK, Data!LineageOf
  <2>7. CASE ~ (d.from = 0 /\ d.patches = <<>>)
    <3>1. PICK f : f = t.data[d.from]
      OBVIOUS
    <3>2. /\ d.from \in DOMAIN t.data /\ f.key = d.key /\ Data!IsPrefix(f.patches, d.patches)
          /\ LET cs == Data!Changes(t.patches, SubSeq(d.patches, Len(f.patches) + 1, Len(d.patches)))
             IN  Data!Succeeds(f.payload, cs) /\ Data!Result(f.payload, cs) = d.payload
      BY <2>4, <2>7, <3>1 DEF RowOK
    <3>3. u.data[d.from] = f
      BY <1>9, <3>1, <3>2 DEF Grows
    <3>4. d.from < i
      BY <1>3, <1>4, <1>7, <2>1, <3>2
    <3>5. \A q \in DOMAIN d.patches : d.patches[q] \in DOMAIN u.patches
      BY <1>8, <2>4 DEF RowOK
    <3>6. d.from # 0
      BY <1>3, <1>4, <3>2
    <3>7. Data!LineageOf(u, i)
      BY <1>8, <2>5, <3>2, <3>3, <3>4, <3>6 DEF Data!LineageOf
    <3> QED
      BY <2>5, <3>5, <3>7 DEF DatumOK
  <2> QED
    BY <2>6, <2>7
<1>12. Sound(u)
  BY <1>8, <1>9, <1>10, <1>11, SoundGrows
<1>13. \A j \in DOMAIN added :
          \E i \in DOMAIN u.data : u.data[i].key = added[j].key /\ u.data[i].payload = added[j].payload
  BY <1>2, <1>6, <1>8 DEF Extended
<1> QED
  BY <1>8, <1>9, <1>12, <1>13 DEF Rowed

\* Bundle c may be written to t.
BundleFits(t, c) ==
    /\ c \in Data!Bundle /\ c.chain \in Seq(DOMAIN t.patches) /\ DOMAIN c.items # {}
    /\ \A k \in DOMAIN c.items : \E i \in DOMAIN t.data : t.data[i].key = k /\ t.data[i].payload = c.items[k]
    /\ \A q \in DOMAIN c.chain :
          LET base == t.bundles[t.patches[c.chain[q]].bundle].chain
          IN  Len(base) < q /\ Data!IsPrefix(base, c.chain)
    /\ \/ c.chain = <<>>
       \/ \E b \in DOMAIN t.bundles :
            /\ DOMAIN c.items = DOMAIN t.bundles[b].items
            /\ c.items = Data!Replay(t.bundles[t.patches[Head(c.chain)].bundle].items, StepsOf(t, b, c.chain))

\* A bundle that fits is what its chain says.
LEMMA FittingBundle ==
    ASSUME Data!CuratedAssumption, NEW t, Sound(t), NEW u, Grows(t, u), u.data = t.data, u.patches = t.patches,
           NEW m, BundleFits(t, u.bundles[m])
    PROVE  BundleOK(u, m)
<1>1. PICK c : c = u.bundles[m]
  OBVIOUS
<1>2. u.bundles[m] = c /\ BundleFits(t, c)
  BY <1>1
<1>3. \A p \in DOMAIN t.patches : u.bundles[t.patches[p].bundle] = t.bundles[t.patches[p].bundle]
  BY DEF Grows, Sound, PatchOK
<1>4. PICK chain \in Seq(DOMAIN t.patches) : chain = c.chain
  BY <1>2 DEF BundleFits
<1>5. \A q \in DOMAIN chain : chain[q] \in DOMAIN t.patches
  BY <1>4, LenProperties, ElementOfSeq
<1>6. Data!InTurn(u, m)
  <2>1. ASSUME NEW i \in DOMAIN chain
        PROVE  LET base == u.bundles[u.patches[chain[i]].bundle].chain
               IN  Len(base) < i /\ Data!IsPrefix(base, chain)
    <3>1. u.bundles[u.patches[chain[i]].bundle] = t.bundles[t.patches[chain[i]].bundle]
      BY <1>3, <1>5
    <3>2. LET base == t.bundles[t.patches[chain[i]].bundle].chain IN Len(base) < i /\ Data!IsPrefix(base, chain)
      BY <1>2, <1>4 DEF BundleFits
    <3> QED
      BY <3>1, <3>2
  <2> QED
    BY <1>2, <1>4, <2>1, Zenon DEF Data!InTurn
<1>7. u.bundles[m].items = Data!Replayed(u, m)
  <2>1. CASE chain = <<>>
    <3>1. Data!Root(u, m) = m
      BY <1>2, <1>4, <2>1, Zenon DEF Data!Root
    <3>2. Data!Steps(u, m) = <<>>
      <4>1. Data!Steps(u, m) = StepsOf(u, m, chain)
        BY <1>2, <1>4 DEF Data!Steps, StepsOf
      <4>2. StepsOf(u, m, chain) = <<>>
        BY <2>1 DEF StepsOf
      <4> QED
        BY <4>1, <4>2
    <3>3. PICK K \in SUBSET Key : c.items \in [K -> Data!Payload]
      BY <1>2 DEF BundleFits, Data!Bundle
    <3>4. c.items \in [K -> Wide]
      BY <3>3, PayloadIsWide
    <3>5. <<>> \in Seq(Step) /\ Len(<<>>) = 0
      BY EmptySeq
    <3>6. Data!Replay(c.items, <<>>) = c.items
      BY <3>4, <3>5, ReplayType
    <3> QED
      BY <1>2, <3>1, <3>2, <3>6 DEF Data!Replayed
  <2>2. CASE chain # <<>>
    <3>1. PICK b \in DOMAIN t.bundles :
            /\ DOMAIN c.items = DOMAIN t.bundles[b].items
            /\ c.items = Data!Replay(t.bundles[t.patches[Head(chain)].bundle].items, StepsOf(t, b, chain))
      BY <1>2, <1>4, <2>2 DEF BundleFits
    <3>2. Head(chain) \in DOMAIN t.patches
      BY <2>2, HeadTailProperties
    <3>3. Data!Root(u, m) = t.patches[Head(chain)].bundle
      BY <1>2, <1>4, <2>2 DEF Data!Root
    <3>4. u.bundles[Data!Root(u, m)] = t.bundles[t.patches[Head(chain)].bundle]
      BY <1>3, <3>2, <3>3
    <3>5. Data!Steps(u, m) = StepsOf(u, m, chain)
      BY <1>2, <1>4 DEF Data!Steps, StepsOf
    <3>6. StepsOf(u, m, chain) = StepsOf(t, b, chain)
      <4>1. DOMAIN u.bundles[m].items = DOMAIN t.bundles[b].items
        BY <1>2, <3>1
      <4> QED
        BY SMTT(30), <4>1, StepsStay
    <3> QED
      BY <1>2, <3>1, <3>4, <3>5, <3>6 DEF Data!Replayed
  <2> QED
    BY <2>1, <2>2
<1>8. BundleOK(u, m)
  <2>1. \A q \in DOMAIN c.chain : c.chain[q] \in DOMAIN u.patches
    BY <1>4, <1>5
  <2>2. /\ DOMAIN c.items # {}
        /\ \A k \in DOMAIN c.items : \E i \in DOMAIN t.data : t.data[i].key = k /\ t.data[i].payload = c.items[k]
    BY <1>2, Zenon DEF BundleFits
  <2>3. \A k \in DOMAIN c.items : \E i \in DOMAIN u.data : u.data[i].key = k /\ u.data[i].payload = c.items[k]
    BY <2>2
  <2> QED
    BY <1>2, <1>6, <1>7, <2>1, <2>2, <2>3, Zenon DEF BundleOK
<1> QED
  BY <1>8

\* A bundle is written.
LEMMA BundleKeeps ==
    ASSUME Data!CuratedAssumption, NEW t, Sound(t), NEW c, BundleFits(t, c),
           NEW u, u = [t EXCEPT !.bundles = Data!PutBundle(@, c)]
    PROVE  Sound(u)
<1>1. t \in Data!Tables
  BY DEF Sound
<1>2. PICK bundles \in Seq(Data!Bundle) : bundles = t.bundles
  BY <1>1, RowTypes
<1>3. CASE c \in Data!ToSet(bundles)
  <2>1. u = t
    BY <1>1, <1>2, <1>3 DEF Data!PutBundle, Data!Tables
  <2> QED
    BY <2>1
<1>4. CASE c \notin Data!ToSet(bundles)
  <2>1. PICK n \in Nat : n = Len(bundles) /\ DOMAIN bundles = 1 .. n
    BY LenProperties
  <2>2. PICK more : more = Append(bundles, c)
    OBVIOUS
  <2>3. c \in Data!Bundle
    BY DEF BundleFits
  <2>4. more \in Seq(Data!Bundle) /\ Len(more) = n + 1 /\ more[n + 1] = c /\ \A i \in 1 .. n : more[i] = bundles[i]
    BY <2>1, <2>2, <2>3, AppendProperties
  <2>5. DOMAIN more = 1 .. n + 1
    BY <2>4, LenProperties
  <2>6. u \in Data!Tables /\ u.data = t.data /\ u.bundles = more /\ u.patches = t.patches
    BY <1>1, <1>2, <1>4, <2>2, <2>4 DEF Data!PutBundle, Data!Tables
  <2>7. Grows(t, u)
    BY <1>2, <2>1, <2>4, <2>5, <2>6 DEF Grows
  <2>8. \A p \in DOMAIN u.patches : PatchOK(u, p)
    <3>1. ASSUME NEW p \in DOMAIN t.patches PROVE PatchOK(u, p)
      <4>1. PatchOK(t, p)
        BY DEF Sound
      <4> QED
        BY <2>6, <2>7, <4>1 DEF PatchOK, Grows
    <3> QED
      BY <2>6, <3>1
  <2>9. PICK m : m = n + 1
    OBVIOUS
  <2>10. u.bundles[m] = c
    BY <2>4, <2>6, <2>9
  <2>11. BundleOK(u, m)
    <3>1. BundleFits(t, u.bundles[m])
      BY <2>10
    <3> QED
      BY <2>6, <2>7, <3>1, FittingBundle
  <2>12. \A b \in DOMAIN u.bundles : b \notin DOMAIN t.bundles => BundleOK(u, b)
    <3>1. \A b \in DOMAIN u.bundles : b \notin DOMAIN t.bundles => b = m
      BY <1>2, <2>1, <2>5, <2>6, <2>9
    <3> QED
      BY <2>11, <3>1
  <2>13. \A i \in DOMAIN u.data : i \notin DOMAIN t.data => DatumOK(u, i)
    BY <2>6
  <2> QED
    BY <2>6, <2>7, <2>8, <2>12, <2>13, SoundGrows
<1> QED
  BY <1>3, <1>4

-----------------------------------------------------------------------------
(* Curated data: applying patches                                          *)

\* A patch is for one item: the one that its datum, or the bundle, names.
LEMMA TargetIs ==
    ASSUME Data!CuratedAssumption, NEW t, Sound(t), NEW b \in DOMAIN t.bundles, NEW p \in DOMAIN t.patches,
           Data!Target(t, b, p) # {}
    PROVE  /\ Data!KeyOf(t, b, p) \in DOMAIN t.bundles[b].items
           /\ Data!ItemOf(t, b, p) = Data!KeyOf(t, b, p)
           /\ \A k : k \in Data!Target(t, b, p) <=> k = Data!KeyOf(t, b, p)
<1>1. PICK K : K = DOMAIN t.bundles[b].items
  OBVIOUS
<1>2. PICK key : key = Data!KeyOf(t, b, p)
  OBVIOUS
<1>3. PICK target : target = Data!Target(t, b, p)
  OBVIOUS
<1>4. target = {key} /\ key \in K
  <2>1. CASE t.patches[p].datum = 0
    <3>1. target = {k \in K : K = {k}}
      BY <1>1, <1>3, <2>1 DEF Data!Target
    <3>2. PICK x \in K : K = {x}
      BY <1>3, <3>1
    <3>3. key = CHOOSE k \in K : TRUE
      BY <1>1, <1>2, <2>1 DEF Data!KeyOf
    <3>4. key = x
      BY <3>2, <3>3
    <3> QED
      BY <3>1, <3>2, <3>4
  <2>2. CASE t.patches[p].datum # 0
    <3>1. key = t.data[t.patches[p].datum].key
      BY <1>2, <2>2 DEF Data!KeyOf
    <3>2. \A k \in target : k \in K /\ t.data[t.patches[p].datum].key = k
      BY <1>1, <1>3, <2>2 DEF Data!Target, Data!Find
    <3>3. \A k \in target : k = key /\ k \in K
      BY <3>1, <3>2
    <3> QED
      BY <1>3, <3>3
  <2> QED
    BY <2>1, <2>2
<1>5. Data!ItemOf(t, b, p) = CHOOSE k \in target : TRUE
  BY <1>3 DEF Data!ItemOf
<1>6. Data!ItemOf(t, b, p) = key
  BY <1>4, <1>5
<1> QED
  BY <1>1, <1>2, <1>3, <1>4, <1>6

\* Nothing is selected from a list at places it does not have.
LEMMA NoneSelected ==
    ASSUME NEW S, NEW s \in Seq(S), NEW I, \A i \in 1 .. Len(s) : i \notin I
    PROVE  Data!Selected(s, I) = <<>>
<1>1. PICK n \in Nat : n = Len(s)
  BY LenProperties
<1>2. \E g : SelectedTrace(g, S, s, I)
  BY SelectedIs
<1>3. PICK g : SelectedTrace(g, S, s, I)
  BY <1>2
<1>4. g[0] = <<>> /\ Data!Selected(s, I) = g[n] /\ \A i \in 1 .. n : g[i] = g[i - 1]
  BY <1>1, <1>3 DEF SelectedTrace
<1> DEFINE T == {i \in 0 .. n : g[i] = <<>>}
<1>5. 0 \in T /\ \A i \in 1 .. n : i - 1 \in T => i \in T
  BY <1>4
<1>6. \A i \in 0 .. n : i \in T
  <2> HIDE DEF T
  <2> QED
    BY <1>5, Climb, Zenon
<1>7. g[n] = <<>>
  BY <1>6
<1> QED
  BY <1>4, <1>7

\* The patches of one item, and their changes.
LEMMA OfTypes ==
    ASSUME Data!CuratedAssumption, NEW t, Sound(t), NEW b \in DOMAIN t.bundles, NEW ps \in Seq(DOMAIN t.patches),
           NEW k
    PROVE  /\ Data!Of(t, b, ps, k) \in Seq(DOMAIN t.patches)
           /\ Data!ChangesOf(t, b, ps, k) \in Seq(Change)
           /\ (\A i \in DOMAIN ps : k \notin Data!Target(t, b, ps[i])) => Data!ChangesOf(t, b, ps, k) = <<>>
<1>1. PICK I : I = {i \in DOMAIN ps : k \in Data!Target(t, b, ps[i])}
  OBVIOUS
<1>2. Data!Of(t, b, ps, k) = Data!Selected(ps, I)
  BY <1>1 DEF Data!Of
<1>3. \E g : SelectedTrace(g, DOMAIN t.patches, ps, I)
  BY SelectedIs
<1>4. PICK g : SelectedTrace(g, DOMAIN t.patches, ps, I)
  BY <1>3
<1>5. Data!Selected(ps, I) \in Seq(DOMAIN t.patches)
  <2>1. PICK n \in Nat : n = Len(ps)
    BY LenProperties
  <2> QED
    BY <1>4, <2>1 DEF SelectedTrace
<1>6. \A p \in DOMAIN t.patches : t.patches[p].change \in Change
  BY RowTypes DEF Sound
<1>7. PICK qs \in Seq(DOMAIN t.patches) : qs = Data!Of(t, b, ps, k)
  BY <1>2, <1>5
<1>8. Data!ChangesOf(t, b, ps, k) = Data!Changes(t.patches, qs)
  BY <1>7 DEF Data!ChangesOf
<1>9. Data!Changes(t.patches, qs) \in Seq(Change)
  BY <1>6, ChangesAre
<1>10. ASSUME \A i \in DOMAIN ps : k \notin Data!Target(t, b, ps[i])
       PROVE  Data!ChangesOf(t, b, ps, k) = <<>>
  <2>1. \A i \in 1 .. Len(ps) : i \notin I
    BY <1>1, <1>10
  <2>2. qs = <<>>
    BY <1>2, <1>7, <2>1, NoneSelected
  <2> QED
    BY <1>8, <2>2 DEF Data!Changes
<1> QED
  BY <1>7, <1>8, <1>9, <1>10

\* Applied item by item, patches make what they make in their order.
LEMMA PatchedIs ==
    ASSUME Data!CuratedAssumption, NEW t, Sound(t), NEW b \in DOMAIN t.bundles, NEW ps \in Seq(DOMAIN t.patches),
           \A i \in DOMAIN ps : Data!Target(t, b, ps[i]) # {}
    PROVE  /\ Data!Patched(t, b, ps) \in [DOMAIN t.bundles[b].items -> Wide]
           /\ Data!Patched(t, b, ps) = Data!Replay(t.bundles[b].items, StepsOf(t, b, ps))
           /\ \A k \in DOMAIN t.bundles[b].items :
                Data!Patched(t, b, ps)[k] = Data!Result(t.bundles[b].items[k], Data!ChangesOf(t, b, ps, k))
<1>1. PICK K, items : K = DOMAIN t.bundles[b].items /\ items = t.bundles[b].items
  OBVIOUS
<1>2. items \in [K -> Wide]
  BY <1>1, ChainTypes, PayloadIsWide
<1>3. PICK n \in Nat : n = Len(ps) /\ DOMAIN ps = 1 .. n
  BY LenProperties
<1>4. PICK steps \in Seq(Step) : steps = StepsOf(t, b, ps)
  BY StepsOfType
<1>5. Len(steps) = n
  BY <1>3, <1>4, StepsOfType
<1>6. Data!Replay(items, steps) \in [K -> Wide]
  BY <1>2, ReplayType
<1>7. ps \in Seq(Nat)
  <2>1. \A i \in DOMAIN ps : ps[i] \in Nat
    <3>1. DOMAIN t.patches \subseteq Nat
      BY RowTypes DEF Sound
    <3> QED
      BY <1>3, <3>1, ElementOfSeq
  <2> QED
    BY <2>1, SeqOf
<1>8. \A i \in 1 .. n : steps[i].key = Data!KeyOf(t, b, ps[i]) /\ steps[i].change = t.patches[ps[i]].change
  BY <1>3, <1>4 DEF StepsOf
<1>9. ASSUME NEW k \in K
      PROVE  /\ Data!Replay(items, steps)[k] = Data!Result(items[k], Data!ChangesOf(t, b, ps, k))
             /\ Data!Result(items[k], Data!ChangesOf(t, b, ps, k)) \in Wide
  <2>1. PICK I : I = {i \in DOMAIN ps : k \in Data!Target(t, b, ps[i])}
    OBVIOUS
  <2>2. ASSUME NEW i \in 1 .. n PROVE i \in I <=> steps[i].key = k
    <3>1. PICK p \in DOMAIN t.patches : p = ps[i]
      BY <1>3, ElementOfSeq
    <3>2. Data!Target(t, b, p) # {}
      BY <1>3, <3>1
    <3>3. k \in Data!Target(t, b, p) <=> k = Data!KeyOf(t, b, p)
      BY <3>2, TargetIs
    <3> QED
      BY <1>3, <1>8, <2>1, <3>1, <3>3
  <2>3. PICK cs \in Seq(Change) : cs = Data!ChangesOf(t, b, ps, k)
    BY OfTypes
  <2>4. cs = Data!Changes(t.patches, Data!Selected(ps, I))
    BY <2>1, <2>3 DEF Data!ChangesOf, Data!Of
  <2>5. \A i \in 1 .. Len(ps) : i \in I <=> steps[i].key = k
    BY <1>3, <2>2
  <2>6. Len(steps) = Len(ps) /\ \A i \in 1 .. Len(ps) : steps[i].change = t.patches[ps[i]].change
    BY <1>3, <1>5, <1>8
  <2>7. Separates(t.patches, ps, steps, I, k)
    BY <2>5, <2>6 DEF Separates
  <2>8. Data!Replay(items, steps)[k] = Data!Result(items[k], cs)
    BY <1>2, <1>7, <2>4, <2>7, ItemByItem
  <2>9. Data!Result(items[k], cs) \in Wide
    BY <1>2, ResultType
  <2> QED
    BY <2>3, <2>8, <2>9
<1>10. Data!Patched(t, b, ps) = [k \in K |-> Data!Result(items[k], Data!ChangesOf(t, b, ps, k))]
  BY <1>1 DEF Data!Patched
<1>11. \A k \in K : Data!Replay(items, steps)[k] = Data!Result(items[k], Data!ChangesOf(t, b, ps, k))
  BY <1>9
<1>12. Data!Patched(t, b, ps) = Data!Replay(items, steps)
  BY <1>6, <1>10, <1>11
<1> QED
  BY <1>1, <1>4, <1>6, <1>10, <1>12

\* What is rows to a list is what comes after it.
LEMMA AddedAre ==
    ASSUME NEW S, NEW s \in Seq(S), NEW t \in Seq(S)
    PROVE  SubSeq(s \o t, Len(s) + 1, Len(s \o t)) = t
<1>1. PICK m \in Nat, n \in Nat : m = Len(s) /\ n = Len(t)
  BY LenProperties
<1>2. PICK all : all = s \o t
  OBVIOUS
<1>3. /\ all \in Seq(S) /\ Len(all) = m + n
      /\ \A i \in 1 .. m + n : all[i] = IF i <= m THEN s[i] ELSE t[i - m]
  BY <1>1, <1>2, ConcatProperties
<1>4. PICK a \in Int, b \in Int : a = m + 1 /\ b = m + n
  OBVIOUS
<1>5. \A i \in a .. b : i \in 1 .. Len(all)
  BY <1>3, <1>4
<1>6. \A i \in a .. b : all[i] \in S
  BY <1>3, <1>5, ElementOfSeq
<1>7. PICK part : part = SubSeq(all, a, b)
  OBVIOUS
<1>8. /\ part \in Seq(S) /\ Len(part) = IF a <= b THEN b - a + 1 ELSE 0
      /\ \A i \in 1 .. b - a + 1 : part[i] = all[a + i - 1]
  <2>1. a \in Int /\ b \in Int
    OBVIOUS
  <2>2. /\ SubSeq(all, a, b) \in Seq(S)
        /\ Len(SubSeq(all, a, b)) = IF a <= b THEN b - a + 1 ELSE 0
        /\ \A i \in 1 .. b - a + 1 : SubSeq(all, a, b)[i] = all[a + i - 1]
    BY <1>6, <2>1, SubSeqProperties
  <2> QED
    BY <1>7, <2>2, Zenon
<1>9. Len(part) = n
  BY <1>4, <1>8
<1>10. \A i \in 1 .. n : part[i] = t[i]
  <2>1. ASSUME NEW i \in 1 .. n PROVE part[i] = t[i]
    <3>1. i \in 1 .. b - a + 1 /\ a + i - 1 = m + i /\ m + i \in 1 .. m + n /\ (m + i) - m = i /\ ~ (m + i <= m)
      BY <1>4
    <3>2. part[i] = all[m + i]
      BY <1>8, <3>1
    <3>3. all[m + i] = t[(m + i) - m]
      BY <1>3, <3>1
    <3> QED
      BY <3>1, <3>2, <3>3
  <2> QED
    BY <2>1
<1>11. part = t
  BY <1>1, <1>8, <1>9, <1>10, SeqEqual
<1> QED
  BY <1>1, <1>2, <1>3, <1>4, <1>7, <1>11

\* The row that is written for an item continues a lineage that is there.
LEMMA RowFits ==
    ASSUME Data!CuratedAssumption, NEW t, Sound(t), NEW b \in DOMAIN t.bundles, NEW ps \in Seq(DOMAIN t.patches),
           \A i \in DOMAIN ps : Data!Target(t, b, ps[i]) # {},
           NEW k \in DOMAIN t.bundles[b].items, Data!Find(t.data, k, t.bundles[b].items[k]) # {},
           Data!Runs(t, b, ps, k), Data!Patched(t, b, ps)[k].n <= MaxNumber
    PROVE  /\ Data!Row(t, b, ps, k) \in Data!Datum /\ RowOK(t, Data!Row(t, b, ps, k))
           /\ Data!Row(t, b, ps, k).key = k
           /\ Data!Row(t, b, ps, k).payload = Data!Patched(t, b, ps)[k]
<1>1. PICK x : x = t.bundles[b].items[k]
  OBVIOUS
<1>2. PICK d : d = CHOOSE i \in Data!Find(t.data, k, x) : TRUE
  OBVIOUS
<1>3. d \in DOMAIN t.data /\ t.data[d].key = k /\ t.data[d].payload = x
  BY <1>1, <1>2 DEF Data!Find
<1>4. PICK f : f = t.data[d]
  OBVIOUS
<1>5. d \in Nat /\ f.patches \in Seq(Nat) /\ \A q \in DOMAIN f.patches : f.patches[q] \in DOMAIN t.patches
  <2>1. t \in Data!Tables /\ DatumOK(t, d)
    BY <1>3 DEF Sound
  <2> QED
    BY <1>3, <1>4, <2>1, RowTypes DEF DatumOK
<1>6. PICK old \in Seq(DOMAIN t.patches) : old = f.patches
  BY <1>5, SeqOf
<1>7. PICK qs \in Seq(DOMAIN t.patches) : qs = Data!Of(t, b, ps, k)
  BY OfTypes
<1>8. PICK all : all = old \o qs
  OBVIOUS
<1>9. /\ all \in Seq(DOMAIN t.patches) /\ Len(all) = Len(old) + Len(qs)
      /\ Len(old) \in Nat /\ Len(qs) \in Nat
      /\ \A i \in 1 .. Len(old) + Len(qs) : all[i] = IF i <= Len(old) THEN old[i] ELSE qs[i - Len(old)]
  BY <1>8, ConcatProperties, LenProperties
<1>10. PICK y : y = Data!Patched(t, b, ps)[k]
  OBVIOUS
<1>11. y \in Data!Payload
  <2>1. Data!Patched(t, b, ps) \in [DOMAIN t.bundles[b].items -> Wide]
    BY PatchedIs
  <2>2. y \in Wide /\ y.n <= MaxNumber
    BY <1>10, <2>1
  <2> QED
    BY <2>2, PayloadIsWide
<1>12. PICK row : row = Data!Row(t, b, ps, k)
  OBVIOUS
<1>13. row = [key |-> k, payload |-> y, from |-> d, patches |-> all]
  BY <1>1, <1>2, <1>4, <1>6, <1>7, <1>8, <1>10, <1>12 DEF Data!Row
<1>14. DOMAIN t.patches \subseteq Nat
  BY RowTypes DEF Sound
<1>15. all \in Seq(Nat)
  <2>1. \A i \in DOMAIN all : all[i] \in Nat
    BY <1>9, <1>14, LenProperties, ElementOfSeq
  <2> QED
    BY <1>9, <2>1, SeqOf
<1>16. row \in Data!Datum
  <2>1. k \in Key
    BY ChainTypes
  <2> QED
    BY <1>5, <1>11, <1>13, <1>15, <2>1 DEF Data!Datum
<1>17. \A i \in DOMAIN all : all[i] \in DOMAIN t.patches
  BY <1>9, LenProperties, ElementOfSeq
<1>18. Data!IsPrefix(f.patches, all)
  <2>1. Len(old) <= Len(all) /\ \A i \in 1 .. Len(old) : old[i] = all[i]
    BY <1>9
  <2> QED
    BY <1>5, <1>6, <1>15, <2>1, PrefixIs
<1>19. SubSeq(all, Len(old) + 1, Len(all)) = qs
  BY <1>8, AddedAre
<1>20. /\ Data!Succeeds(x, Data!Changes(t.patches, qs))
       /\ Data!Result(x, Data!Changes(t.patches, qs)) = y
  <2>1. Data!ChangesOf(t, b, ps, k) = Data!Changes(t.patches, qs)
    BY <1>7 DEF Data!ChangesOf
  <2>2. Data!Succeeds(x, Data!ChangesOf(t, b, ps, k))
    BY <1>1 DEF Data!Runs
  <2>3. y = Data!Result(x, Data!ChangesOf(t, b, ps, k))
    BY <1>1, <1>10, PatchedIs
  <2> QED
    BY <2>1, <2>2, <2>3
<1>21. RowOK(t, row)
  <2>1. row.from = d /\ row.patches = all /\ row.key = k /\ row.payload = y
    BY <1>13
  <2> QED
    BY <1>3, <1>4, <1>6, <1>17, <1>18, <1>19, <1>20, <2>1 DEF RowOK
<1> QED
  BY <1>10, <1>12, <1>13, <1>16, <1>21

\* What Admissible says of the patches and of the items.
LEMMA AdmissibleMeans ==
    ASSUME NEW t, NEW b, NEW mode, NEW P, NEW ps \in Seq(P), Data!Admissible(t, b, ps, mode)
    PROVE  /\ \A i \in DOMAIN ps : t.patches[ps[i]].bundle = b /\ Data!Target(t, b, ps[i]) # {}
           /\ \A k \in DOMAIN t.bundles[b].items : Data!Find(t.data, k, t.bundles[b].items[k]) # {}
<1>1. \A i \in DOMAIN ps : ps[i] \in Data!ToSet(ps)
  BY DEF Data!ToSet
<1> QED
  BY <1>1 DEF Data!Admissible

\* So do the rows of the first n patches.
LEMMA RowsFit ==
    ASSUME Data!CuratedAssumption, NEW t, Sound(t), NEW b \in DOMAIN t.bundles, NEW ps \in Seq(DOMAIN t.patches),
           NEW mode, Data!Admissible(t, b, ps, mode), NEW n \in 0 .. Len(ps),
           \A i \in 1 .. n : /\ Data!Runs(t, b, ps, Data!ItemOf(t, b, ps[i]))
                             /\ Data!Patched(t, b, ps)[Data!ItemOf(t, b, ps[i])].n <= MaxNumber
    PROVE  /\ Data!Rows(t, b, ps, n) \in Seq(Data!Datum) /\ DOMAIN Data!Rows(t, b, ps, n) = 1 .. n
           /\ \A i \in 1 .. n :
                LET k == Data!ItemOf(t, b, ps[i])
                    row == Data!Rows(t, b, ps, n)[i]
                IN  RowOK(t, row) /\ row.key = k /\ row.payload = Data!Patched(t, b, ps)[k]
<1>1. Len(ps) \in Nat /\ DOMAIN ps = 1 .. Len(ps) /\ n \in Nat
  BY LenProperties
<1>2. /\ \A i \in DOMAIN ps : Data!Target(t, b, ps[i]) # {}
      /\ \A k \in DOMAIN t.bundles[b].items : Data!Find(t.data, k, t.bundles[b].items[k]) # {}
  BY AdmissibleMeans
<1>3. ASSUME NEW i \in 1 .. n
      PROVE  LET k == Data!ItemOf(t, b, ps[i])
                 row == Data!Row(t, b, ps, k)
             IN  row \in Data!Datum /\ RowOK(t, row) /\ row.key = k /\ row.payload = Data!Patched(t, b, ps)[k]
  <2>1. i \in DOMAIN ps
    BY <1>1
  <2>2. PICK p \in DOMAIN t.patches : p = ps[i]
    BY <1>1, <2>1, ElementOfSeq
  <2>3. PICK k : k = Data!ItemOf(t, b, p)
    OBVIOUS
  <2>4. k \in DOMAIN t.bundles[b].items
    BY <1>2, <2>1, <2>2, <2>3, TargetIs
  <2>5. Data!Runs(t, b, ps, k) /\ Data!Patched(t, b, ps)[k].n <= MaxNumber
    BY <2>2, <2>3
  <2>6. Data!Find(t.data, k, t.bundles[b].items[k]) # {}
    BY <1>2, <2>4
  <2> QED
    BY ZenonT(40), <1>2, <2>2, <2>3, <2>4, <2>5, <2>6, RowFits
<1>4. PICK e : e = [i \in 1 .. n |-> Data!Row(t, b, ps, Data!ItemOf(t, b, ps[i]))]
  OBVIOUS
<1>5. \A i \in 1 .. n : Data!Row(t, b, ps, Data!ItemOf(t, b, ps[i])) \in Data!Datum
  BY <1>3
<1>6. e \in Seq(Data!Datum)
  BY <1>1, <1>4, <1>5, IsASeq
<1>7. Data!Rows(t, b, ps, n) = e
  BY <1>4 DEF Data!Rows
<1> QED
  BY <1>3, <1>4, <1>6, <1>7

\* The application that fails leaves rows that fit.
LEMMA ApplyFailsKeeps ==
    ASSUME Data!CuratedAssumption, Sound(now), NEW b \in DOMAIN now.bundles, NEW ps \in Seq(DOMAIN now.patches),
           NEW mode, Data!ApplyFails(b, ps, mode)
    PROVE  Sound(now')
<1>1. PICK n \in 0 .. Len(ps) - 1 :
        /\ \A i \in 1 .. n : /\ Data!Runs(now, b, ps, Data!ItemOf(now, b, ps[i]))
                             /\ Data!Patched(now, b, ps)[Data!ItemOf(now, b, ps[i])].n <= MaxNumber
        /\ now' = [now EXCEPT !.data = Data!PutAll(@, Data!Rows(now, b, ps, n))]
  BY DEF Data!ApplyFails
<1>2. n \in 0 .. Len(ps) /\ Data!Admissible(now, b, ps, mode)
  BY LenProperties DEF Data!ApplyFails
<1>3. PICK t : t = now
  OBVIOUS
<1>4. PICK added : added = Data!Rows(t, b, ps, n)
  OBVIOUS
<1>5. added \in Seq(Data!Datum) /\ \A j \in DOMAIN added : RowOK(t, added[j])
  BY <1>1, <1>2, <1>3, <1>4, RowsFit
<1>6. PICK u : u = [t EXCEPT !.data = Data!PutAll(@, added)]
  OBVIOUS
<1>7. Sound(t)
  BY <1>3
<1>8. Sound(u)
  BY <1>5, <1>6, <1>7, RowsKeep DEF Rowed
<1> QED
  BY <1>1, <1>3, <1>4, <1>6, <1>8

\* A list after another begins with it; it has the other's members where it has them.
LEMMA LongerList ==
    ASSUME NEW P, P \subseteq Nat, NEW s \in Seq(P), NEW t \in Seq(P)
    PROVE  /\ s \o t \in Seq(P) /\ Data!IsPrefix(s, s \o t)
           /\ \A r \in Seq(Nat) : Data!IsPrefix(r, s) => Data!IsPrefix(r, s \o t)
<1>1. PICK m \in Nat, n \in Nat : m = Len(s) /\ n = Len(t)
  BY LenProperties
<1>2. PICK all : all = s \o t
  OBVIOUS
<1>3. all \in Seq(P) /\ Len(all) = m + n /\ \A i \in 1 .. m : all[i] = s[i]
  BY <1>1, <1>2, ConcatProperties
<1>4. s \in Seq(Nat) /\ all \in Seq(Nat)
  <2>1. \A x \in Seq(P) : \A i \in DOMAIN x : x[i] \in Nat
    BY LenProperties, ElementOfSeq
  <2>2. (\A i \in DOMAIN s : s[i] \in Nat) /\ (\A i \in DOMAIN all : all[i] \in Nat)
    BY <1>3, <2>1
  <2> QED
    BY <1>3, <2>2, SeqOf
<1>5. Data!IsPrefix(s, all)
  BY <1>1, <1>3, <1>4, PrefixIs
<1>6. ASSUME NEW r \in Seq(Nat), Data!IsPrefix(r, s) PROVE Data!IsPrefix(r, all)
  <2>1. Len(r) <= Len(s) /\ \A i \in 1 .. Len(r) : r[i] = s[i]
    BY <1>4, <1>6, PrefixIs
  <2>2. PICK l \in Nat : l = Len(r)
    BY LenProperties
  <2>3. Len(r) <= Len(all) /\ \A i \in 1 .. Len(r) : r[i] = all[i]
    <3>1. \A i \in 1 .. Len(r) : i \in 1 .. m
      BY <1>1, <2>1, <2>2
    <3>2. \A i \in 1 .. Len(r) : r[i] = all[i]
      BY <1>3, <2>1, <3>1
    <3>3. Len(r) <= Len(all)
      BY <1>1, <1>3, <2>1, <2>2
    <3> QED
      BY <3>2, <3>3
  <2> QED
    BY <1>4, <2>3, PrefixIs
<1> QED
  BY <1>2, <1>3, <1>5, <1>6

\* The steps of one list of patches and another.
LEMMA StepsInTwo ==
    ASSUME Data!CuratedAssumption, NEW t, Sound(t), NEW b \in DOMAIN t.bundles,
           NEW ps \in Seq(DOMAIN t.patches), NEW qs \in Seq(DOMAIN t.patches)
    PROVE  StepsOf(t, b, ps \o qs) = StepsOf(t, b, ps) \o StepsOf(t, b, qs)
<1>1. PICK m \in Nat, n \in Nat : m = Len(ps) /\ n = Len(qs) /\ DOMAIN ps = 1 .. m /\ DOMAIN qs = 1 .. n
  BY LenProperties
<1>2. PICK all \in Seq(DOMAIN t.patches) : all = ps \o qs
  BY ConcatProperties
<1>3. Len(all) = m + n /\ \A i \in 1 .. m + n : all[i] = IF i <= m THEN ps[i] ELSE qs[i - m]
  BY <1>1, <1>2, ConcatProperties
<1>4. DOMAIN all = 1 .. m + n
  BY <1>3, LenProperties
<1>5. PICK x \in Seq(Step), y \in Seq(Step), z \in Seq(Step) :
        x = StepsOf(t, b, ps) /\ y = StepsOf(t, b, qs) /\ z = StepsOf(t, b, all)
  BY StepsOfType
<1>6. Len(x) = m /\ Len(y) = n /\ Len(z) = m + n
  BY <1>1, <1>3, <1>5, StepsOfType
<1> DEFINE made(p) == [key |-> Data!KeyOf(t, b, p), change |-> t.patches[p].change]
<1>7. /\ \A i \in 1 .. m : x[i] = made(ps[i])
      /\ \A i \in 1 .. n : y[i] = made(qs[i])
      /\ \A i \in 1 .. m + n : z[i] = made(all[i])
  BY <1>1, <1>4, <1>5 DEF StepsOf
<1>8. PICK xy : xy = x \o y
  OBVIOUS
<1>9. /\ xy \in Seq(Step) /\ Len(xy) = m + n
      /\ \A i \in 1 .. m + n : xy[i] = IF i <= m THEN x[i] ELSE y[i - m]
  BY <1>6, <1>8, ConcatProperties
<1>10. ASSUME NEW i \in 1 .. m + n PROVE z[i] = xy[i]
  <2> HIDE DEF made
  <2>1. CASE i <= m
    <3>1. i \in 1 .. m
      BY <2>1
    <3>2. all[i] = ps[i] /\ xy[i] = x[i]
      BY <1>3, <1>9, <2>1
    <3>3. z[i] = made(all[i]) /\ x[i] = made(ps[i])
      BY <1>7, <3>1
    <3> QED
      BY <3>2, <3>3
  <2>2. CASE ~ (i <= m)
    <3>1. i - m \in 1 .. n
      BY <2>2
    <3>2. all[i] = qs[i - m] /\ xy[i] = y[i - m]
      BY <1>3, <1>9, <2>2
    <3>3. z[i] = made(all[i]) /\ y[i - m] = made(qs[i - m])
      BY <1>7, <3>1
    <3> QED
      BY <3>2, <3>3
  <2> QED
    BY <2>1, <2>2
<1>11. z = xy
  <2>1. Len(z) = Len(xy) /\ \A i \in 1 .. Len(z) : z[i] = xy[i]
    BY <1>6, <1>9, <1>10
  <2> QED
    BY <1>9, <2>1, SeqEqual
<1> QED
  BY <1>2, <1>5, <1>8, <1>11

\* Patches for bundle b make its chain longer.
LEMMA LongerChain ==
    ASSUME Data!CuratedAssumption, NEW t, Sound(t), NEW b \in DOMAIN t.bundles,
           NEW ps \in Seq(DOMAIN t.patches), ps # <<>>,
           \A i \in DOMAIN ps : t.patches[ps[i]].bundle = b /\ Data!Target(t, b, ps[i]) # {},
           NEW chain, chain = t.bundles[b].chain \o ps
    PROVE  /\ chain \in Seq(DOMAIN t.patches)
           /\ \A q \in DOMAIN chain :
                LET base == t.bundles[t.patches[chain[q]].bundle].chain
                IN  Len(base) < q /\ Data!IsPrefix(base, chain)
           /\ Data!Patched(t, b, ps) =
                Data!Replay(t.bundles[t.patches[Head(chain)].bundle].items, StepsOf(t, b, chain))
<1>1. PICK old \in Seq(DOMAIN t.patches) : old = t.bundles[b].chain
  BY ChainTypes
<1>2. PICK m \in Nat, n \in Nat : m = Len(old) /\ n = Len(ps) /\ DOMAIN old = 1 .. m /\ DOMAIN ps = 1 .. n
  BY LenProperties
<1>3. /\ chain \in Seq(DOMAIN t.patches) /\ Len(chain) = m + n
      /\ \A i \in 1 .. m + n : chain[i] = IF i <= m THEN old[i] ELSE ps[i - m]
  BY ZenonT(40), <1>1, <1>2, ConcatProperties
<1>4. DOMAIN chain = 1 .. m + n
  BY <1>3, LenProperties
<1>5. DOMAIN t.patches \subseteq Nat
  BY RowTypes DEF Sound
<1>6. /\ Data!IsPrefix(old, chain)
      /\ \A r \in Seq(Nat) : Data!IsPrefix(r, old) => Data!IsPrefix(r, chain)
  BY <1>1, <1>5, LongerList
<1>7. BundleOK(t, b) /\ t \in Data!Tables
  BY DEF Sound
<1>8. n > 0
  BY <1>2, EmptySeq
<1>9. ASSUME NEW q \in DOMAIN chain
      PROVE  LET base == t.bundles[t.patches[chain[q]].bundle].chain
             IN  Len(base) < q /\ Data!IsPrefix(base, chain)
  <2>1. PICK base : base = t.bundles[t.patches[chain[q]].bundle].chain
    OBVIOUS
  <2>2. CASE q <= m
    <3>1. q \in DOMAIN old /\ chain[q] = old[q]
      BY <1>2, <1>3, <1>4, <2>2
    <3>2. Len(base) < q /\ Data!IsPrefix(base, old)
      BY <1>1, <1>7, <2>1, <3>1 DEF BundleOK, Data!InTurn
    <3>3. old[q] \in DOMAIN t.patches
      BY <1>2, <3>1, ElementOfSeq
    <3>4. t.patches[old[q]].bundle \in DOMAIN t.bundles
      BY <3>3 DEF Sound, PatchOK
    <3>5. base \in Seq(Nat)
      BY <1>7, <2>1, <3>1, <3>4, RowTypes
    <3> QED
      BY <1>6, <2>1, <3>2, <3>5
  <2>3. CASE ~ (q <= m)
    <3>1. q - m \in DOMAIN ps /\ chain[q] = ps[q - m] /\ m < q
      <4>1. q \in 1 .. m + n
        BY <1>4
      <4>2. chain[q] = ps[q - m]
        BY <1>3, <2>3, <4>1
      <4>3. q - m \in 1 .. n /\ m < q
        BY <2>3, <4>1
      <4> QED
        BY <1>2, <4>2, <4>3
    <3>2. base = old
      BY <1>1, <2>1, <3>1
    <3> QED
      BY <1>2, <1>6, <2>1, <3>1, <3>2
  <2> QED
    BY <2>2, <2>3
<1>10. t.patches[Head(chain)].bundle = Data!Root(t, b)
  <2>1. Head(chain) = chain[1] /\ 1 \in 1 .. m + n
    BY <1>3, <1>8
  <2>2. CASE m = 0
    <3>1. old = <<>>
      BY <1>2, <2>2, EmptySeq
    <3>2. chain[1] = ps[1] /\ 1 \in DOMAIN ps
      BY <1>2, <1>3, <1>8, <2>1, <2>2
    <3>3. t.patches[chain[1]].bundle = b
      BY <3>2
    <3>4. Data!Root(t, b) = b
      BY <1>1, <3>1, Zenon DEF Data!Root
    <3> QED
      BY <2>1, <3>3, <3>4
  <2>3. CASE m # 0
    <3>1. old # <<>>
      BY <1>2, <2>3, EmptySeq
    <3>2. chain[1] = old[1]
      BY <1>3, <2>1, <2>3
    <3>3. Head(old) = old[1]
      BY <1>2, <2>3
    <3>4. Data!Root(t, b) = t.patches[Head(old)].bundle
      BY <1>1, <3>1, Zenon DEF Data!Root
    <3> QED
      BY <2>1, <3>2, <3>3, <3>4
  <2> QED
    BY <2>2, <2>3
<1>11. Data!Patched(t, b, ps) = Data!Replay(t.bundles[Data!Root(t, b)].items, StepsOf(t, b, chain))
  <2>1. PICK K, root : K = DOMAIN t.bundles[b].items /\ root = t.bundles[Data!Root(t, b)].items
    OBVIOUS
  <2>2. root \in [K -> Wide]
    BY <2>1, ChainTypes
  <2>3. PICK x \in Seq(Step), y \in Seq(Step) : x = StepsOf(t, b, old) /\ y = StepsOf(t, b, ps)
    BY StepsOfType
  <2>4. StepsOf(t, b, chain) = x \o y
    BY <1>1, <2>3, StepsInTwo
  <2>5. t.bundles[b].items = Data!Replay(root, x)
    BY <1>1, <1>7, <2>1, <2>3, ChainTypes DEF BundleOK, Data!Replayed
  <2>6. \A i \in DOMAIN ps : Data!Target(t, b, ps[i]) # {}
    OBVIOUS
  <2>7. Data!Patched(t, b, ps) = Data!Replay(t.bundles[b].items, y)
    BY <2>3, <2>6, PatchedIs
  <2>8. Data!Replay(root, x \o y) = Data!Replay(Data!Replay(root, x), y)
    BY <2>2, ReplayBoth, Zenon
  <2> QED
    BY <2>1, <2>4, <2>5, <2>7, <2>8
<1> QED
  BY <1>3, <1>9, <1>10, <1>11

\* Patches are applied: the new rows and the new bundle fit.
LEMMA ApplyKeeps ==
    ASSUME Data!CuratedAssumption, Sound(now), NEW b \in DOMAIN now.bundles, NEW ps \in Seq(DOMAIN now.patches),
           ps # <<>>, NEW mode, Data!Apply(b, ps, mode)
    PROVE  Sound(now')
<1>1. PICK t : t = now
  OBVIOUS
<1>2. /\ Sound(t) /\ b \in DOMAIN t.bundles /\ ps \in Seq(DOMAIN t.patches)
      /\ Data!Admissible(t, b, ps, mode)
      /\ \A k \in DOMAIN t.bundles[b].items :
            Data!Runs(t, b, ps, k) /\ Data!Patched(t, b, ps)[k].n <= MaxNumber
  BY <1>1 DEF Data!Apply
<1>3. t \in Data!Tables /\ BundleOK(t, b)
  BY <1>2 DEF Sound
<1>4. PICK n \in Nat : n = Len(ps) /\ DOMAIN ps = 1 .. n
  BY <1>2, LenProperties
<1>5. \A i \in DOMAIN ps : t.patches[ps[i]].bundle = b /\ Data!Target(t, b, ps[i]) # {}
  BY <1>2, AdmissibleMeans
<1>6. \A i \in 1 .. n : ps[i] \in DOMAIN t.patches
  BY <1>2, <1>4, ElementOfSeq
<1>7. \A i \in 1 .. n : /\ Data!ItemOf(t, b, ps[i]) = Data!KeyOf(t, b, ps[i])
                        /\ Data!KeyOf(t, b, ps[i]) \in DOMAIN t.bundles[b].items
                        /\ \A k : k \in Data!Target(t, b, ps[i]) <=> k = Data!KeyOf(t, b, ps[i])
  BY <1>2, <1>4, <1>5, <1>6, TargetIs
<1>8. PICK added : added = Data!Rows(t, b, ps, n)
  OBVIOUS
<1>9. /\ added \in Seq(Data!Datum) /\ DOMAIN added = 1 .. n
      /\ \A i \in 1 .. n : /\ RowOK(t, added[i]) /\ added[i].key = Data!ItemOf(t, b, ps[i])
                           /\ added[i].payload = Data!Patched(t, b, ps)[Data!ItemOf(t, b, ps[i])]
  <2>1. n \in 0 .. Len(ps)
    BY <1>4
  <2>2. \A i \in 1 .. n : /\ Data!Runs(t, b, ps, Data!ItemOf(t, b, ps[i]))
                          /\ Data!Patched(t, b, ps)[Data!ItemOf(t, b, ps[i])].n <= MaxNumber
    BY <1>2, <1>7
  <2> QED
    BY <1>2, <1>8, <2>1, <2>2, RowsFit
<1>10. PICK u : u = [t EXCEPT !.data = Data!PutAll(@, added)]
  OBVIOUS
<1>11. /\ Sound(u) /\ Grows(t, u) /\ u.bundles = t.bundles /\ u.patches = t.patches
       /\ \A j \in DOMAIN added :
            \E i \in DOMAIN u.data : u.data[i].key = added[j].key /\ u.data[i].payload = added[j].payload
  <2>1. \A j \in DOMAIN added : RowOK(t, added[j])
    BY <1>9
  <2> QED
    <3>1. Sound(t) /\ added \in Seq(Data!Datum)
      BY <1>2, <1>9
    <3>2. Rowed(t, added, u)
      BY <1>10, <2>1, <3>1, RowsKeep
    <3> QED
      BY <3>2, Zenon DEF Rowed
<1>12. PICK chain, items : chain = t.bundles[b].chain \o ps /\ items = Data!Patched(t, b, ps)
  OBVIOUS
<1>13. PICK c : c = [chain |-> chain, items |-> items]
  OBVIOUS
<1>14. PICK K : K = DOMAIN t.bundles[b].items
  OBVIOUS
<1>15. items \in [K -> Wide] /\ K \subseteq Key /\ K # {}
  BY <1>2, <1>5, <1>12, <1>14, PatchedIs, ChainTypes
<1>16. /\ chain \in Seq(DOMAIN t.patches)
       /\ \A q \in DOMAIN chain :
            LET base == t.bundles[t.patches[chain[q]].bundle].chain
            IN  Len(base) < q /\ Data!IsPrefix(base, chain)
       /\ items = Data!Replay(t.bundles[t.patches[Head(chain)].bundle].items, StepsOf(t, b, chain))
  BY ZenonT(40), <1>2, <1>5, <1>12, LongerChain
<1>17. c \in Data!Bundle
  <2>1. \A k \in K : items[k] \in Data!Payload
    BY <1>2, <1>12, <1>14, <1>15, PayloadIsWide
  <2>2. items \in [K -> Data!Payload]
    BY <1>15, <2>1
  <2>3. chain \in Seq(Nat)
    <3>1. DOMAIN t.patches \subseteq Nat
      BY <1>3, RowTypes
    <3>2. \A q \in DOMAIN chain : chain[q] \in Nat
      BY <1>16, <3>1, LenProperties, ElementOfSeq
    <3> QED
      BY <1>16, <3>2, SeqOf
  <2> QED
    BY <1>13, <1>15, <2>2, <2>3 DEF Data!Bundle
<1>18. ASSUME NEW k \in K
       PROVE  \E i \in DOMAIN u.data : u.data[i].key = k /\ u.data[i].payload = items[k]
  <2>1. CASE \E i \in 1 .. n : k \in Data!Target(t, b, ps[i])
    <3>1. PICK i \in 1 .. n : k \in Data!Target(t, b, ps[i])
      BY <2>1
    <3>2. added[i].key = k /\ added[i].payload = items[k]
      BY <1>7, <1>9, <1>12, <3>1
    <3> QED
      BY <1>9, <1>11, <3>2
  <2>2. CASE ~ \E i \in 1 .. n : k \in Data!Target(t, b, ps[i])
    <3>1. Data!ChangesOf(t, b, ps, k) = <<>>
      BY <1>2, <1>4, <2>2, OfTypes
    <3>2. items[k] = Data!Result(t.bundles[b].items[k], <<>>)
      BY <1>2, <1>5, <1>12, <1>14, <3>1, PatchedIs
    <3>3. t.bundles[b].items[k] \in Wide
      BY <1>2, <1>14, ChainTypes, PayloadIsWide
    <3>4. items[k] = t.bundles[b].items[k]
      <4>1. <<>> \in Seq(Change) /\ Len(<<>>) = 0
        BY EmptySeq
      <4> QED
        BY <3>2, <3>3, <4>1, ResultType
    <3>5. PICK i \in DOMAIN t.data : t.data[i].key = k /\ t.data[i].payload = t.bundles[b].items[k]
      BY <1>3, <1>14 DEF BundleOK
    <3>6. i \in DOMAIN u.data /\ u.data[i] = t.data[i]
      BY <1>11 DEF Grows
    <3> QED
      BY <3>4, <3>5, <3>6
  <2> QED
    BY <2>1, <2>2
<1>19. BundleFits(u, c)
  <2>1. c.chain = chain /\ c.items = items /\ DOMAIN items = K
    BY <1>13, <1>15
  <2>2. c.chain \in Seq(DOMAIN u.patches) /\ DOMAIN c.items # {}
    BY <1>11, <1>15, <1>16, <2>1
  <2>3. \A k \in DOMAIN c.items : \E i \in DOMAIN u.data : u.data[i].key = k /\ u.data[i].payload = c.items[k]
    BY <1>18, <2>1
  <2>4. \A q \in DOMAIN c.chain :
          LET base == u.bundles[u.patches[c.chain[q]].bundle].chain
          IN  Len(base) < q /\ Data!IsPrefix(base, c.chain)
    BY <1>11, <1>16, <2>1
  <2>5. /\ b \in DOMAIN u.bundles /\ DOMAIN c.items = DOMAIN u.bundles[b].items
        /\ c.items = Data!Replay(u.bundles[u.patches[Head(c.chain)].bundle].items, StepsOf(u, b, c.chain))
    <3>1. StepsOf(u, b, chain) = StepsOf(t, b, chain)
      <4>1. DOMAIN u.bundles[b].items = DOMAIN t.bundles[b].items
        BY <1>11
      <4>2. Sound(t) /\ Grows(t, u) /\ chain \in Seq(DOMAIN t.patches)
        BY <1>2, <1>11, <1>16
      <4> QED
        BY <4>1, <4>2, StepsStay
    <3> QED
      BY <1>2, <1>11, <1>14, <1>16, <2>1, <3>1
  <2> QED
    BY <1>17, <2>2, <2>3, <2>4, <2>5, Zenon DEF BundleFits
<1>20. PICK v : v = [u EXCEPT !.bundles = Data!PutBundle(@, c)]
  OBVIOUS
<1>21. Sound(v)
  BY <1>11, <1>19, <1>20, BundleKeeps
<1>22. now' = v
  <2>1. now' = [t EXCEPT !.data = Data!PutAll(@, added), !.bundles = Data!PutBundle(@, c)]
    BY <1>1, <1>4, <1>8, <1>12, <1>13 DEF Data!Apply
  <2> QED
    BY <1>3, <1>10, <1>20, <2>1 DEF Data!Tables
<1> QED
  BY <1>21, <1>22

\* The items of an import.
LEMMA ItemsAre ==
    ASSUME Data!CuratedAssumption, NEW m \in Import
    PROVE  /\ \E K \in SUBSET Key : Data!Items(m) \in [K -> Data!Payload]
           /\ DOMAIN Data!Items(m) # {}
           /\ Data!NewRows(m) \in Seq(Data!Datum)
           /\ \A i \in DOMAIN Data!NewRows(m) :
                Data!NewRows(m)[i].from = 0 /\ Data!NewRows(m)[i].patches = <<>>
           /\ \A k \in DOMAIN Data!Items(m) : \E i \in DOMAIN Data!NewRows(m) :
                Data!NewRows(m)[i].key = k /\ Data!NewRows(m)[i].payload = Data!Items(m)[k]
<1>1. m \in Seq([key : Key, payload : Data!Payload]) /\ m # <<>>
  BY DEF Data!CuratedAssumption
<1>2. PICK n \in Nat : n = Len(m) /\ DOMAIN m = 1 .. n /\ n > 0
  BY <1>1, EmptySeq, LenProperties
<1>3. \A i \in 1 .. n : m[i].key \in Key /\ m[i].payload \in Data!Payload
  <2>1. \A i \in 1 .. n : m[i] \in [key : Key, payload : Data!Payload]
    BY <1>1, <1>2, ElementOfSeq
  <2> QED
    BY <2>1
<1>4. PICK K : K = {m[i].key : i \in 1 .. n}
  OBVIOUS
<1>5. Data!Items(m) = [k \in K |-> m[CHOOSE i \in 1 .. n : m[i].key = k].payload]
  BY <1>2, <1>4 DEF Data!Items
<1>6. \A k \in K : \E i \in 1 .. n : m[i].key = k /\ Data!Items(m)[k] = m[i].payload
  <2>1. ASSUME NEW k \in K PROVE \E i \in 1 .. n : m[i].key = k /\ Data!Items(m)[k] = m[i].payload
    <3>1. PICK c : c = CHOOSE i \in 1 .. n : m[i].key = k
      OBVIOUS
    <3>2. c \in 1 .. n /\ m[c].key = k
      BY <1>4, <3>1
    <3> QED
      BY <1>5, <3>1, <3>2
  <2> QED
    BY <2>1
<1>7. K \in SUBSET Key /\ K # {} /\ Data!Items(m) \in [K -> Data!Payload]
  BY <1>2, <1>3, <1>4, <1>5, <1>6
<1>8. PICK added : added = [i \in 1 .. n |-> [key |-> m[i].key, payload |-> m[i].payload, from |-> 0, patches |-> <<>>]]
  OBVIOUS
<1>9. added = Data!NewRows(m)
  BY <1>2, <1>8 DEF Data!NewRows
<1>10. \A i \in 1 .. n :
          [key |-> m[i].key, payload |-> m[i].payload, from |-> 0, patches |-> <<>>] \in Data!Datum
  <2>1. <<>> \in Seq(Nat) /\ 0 \in Nat
    BY EmptySeq
  <2> QED
    BY <1>3, <2>1 DEF Data!Datum
<1>11. added \in Seq(Data!Datum)
  BY <1>8, <1>10, IsASeq
<1>12. DOMAIN added = 1 .. n /\ \A i \in 1 .. n : /\ added[i].key = m[i].key /\ added[i].payload = m[i].payload
                                                /\ added[i].from = 0 /\ added[i].patches = <<>>
  BY <1>8
<1> QED
  BY <1>6, <1>7, <1>9, <1>11, <1>12

\* An import is bundled.
LEMMA BundledKeeps ==
    ASSUME Data!CuratedAssumption, Sound(now), NEW m \in Import
    PROVE  Sound(Data!Bundled(m))
<1>1. PICK t : t = now
  OBVIOUS
<1>2. Sound(t) /\ t \in Data!Tables
  BY <1>1 DEF Sound
<1>3. PICK added, items : added = Data!NewRows(m) /\ items = Data!Items(m)
  OBVIOUS
<1>4. /\ \E K \in SUBSET Key : items \in [K -> Data!Payload]
      /\ DOMAIN items # {} /\ added \in Seq(Data!Datum)
      /\ \A i \in DOMAIN added : added[i].from = 0 /\ added[i].patches = <<>>
      /\ \A k \in DOMAIN items : \E i \in DOMAIN added : added[i].key = k /\ added[i].payload = items[k]
  BY <1>3, ItemsAre
<1>5. \A j \in DOMAIN added : RowOK(t, added[j])
  <2>1. ASSUME NEW j \in DOMAIN added PROVE RowOK(t, added[j])
    <3>1. DOMAIN added[j].patches = {}
      BY <1>4
    <3> QED
      BY <1>4, <3>1 DEF RowOK
  <2> QED
    BY <2>1
<1>6. PICK u : u = [t EXCEPT !.data = Data!PutAll(@, added)]
  OBVIOUS
<1>7. /\ Sound(u) /\ \A j \in DOMAIN added :
            \E i \in DOMAIN u.data : u.data[i].key = added[j].key /\ u.data[i].payload = added[j].payload
  <2>1. Sound(t) /\ added \in Seq(Data!Datum)
    BY <1>2, <1>4
  <2>2. Rowed(t, added, u)
    BY <1>5, <1>6, <2>1, RowsKeep
  <2> QED
    BY <2>2, Zenon DEF Rowed
<1>8. PICK c : c = [chain |-> <<>>, items |-> items]
  OBVIOUS
<1>9. BundleFits(u, c)
  <2>1. c.chain = <<>> /\ c.items = items /\ DOMAIN <<>> = {}
    BY <1>8
  <2>2. <<>> \in Seq(Nat) /\ <<>> \in Seq(DOMAIN u.patches)
    BY EmptySeq
  <2>3. c \in Data!Bundle
    BY <1>4, <1>8, <2>2 DEF Data!Bundle
  <2>4. \A k \in DOMAIN c.items : \E i \in DOMAIN u.data : u.data[i].key = k /\ u.data[i].payload = c.items[k]
    BY <1>4, <1>7, <2>1
  <2>5. \A q \in DOMAIN c.chain : FALSE
    BY <2>1
  <2> QED
    BY <1>4, <2>1, <2>2, <2>3, <2>4, <2>5 DEF BundleFits
<1>10. PICK v : v = [u EXCEPT !.bundles = Data!PutBundle(@, c)]
  OBVIOUS
<1>11. Sound(v)
  BY <1>7, <1>9, <1>10, BundleKeeps
<1>12. Data!Bundled(m) = v
  <2>1. Data!Bundled(m) = [t EXCEPT !.data = Data!PutAll(@, added), !.bundles = Data!PutBundle(@, c)]
    BY <1>1, <1>3, <1>8 DEF Data!Bundled
  <2> QED
    BY <1>2, <1>6, <1>10, <2>1 DEF Data!Tables
<1> QED
  BY <1>11, <1>12

-----------------------------------------------------------------------------
(* Curated data: every step                                                *)

\* What is written and what is committed are sound.
DataInv == Sound(now) /\ Sound(saved) /\ open \in {"yes", "no"}

\* At first there are no rows.
LEMMA DataInit == ASSUME Data!CuratedAssumption, Data!Init PROVE DataInv
<1>1. PICK t : t = [data |-> <<>>, bundles |-> <<>>, patches |-> <<>>]
  OBVIOUS
<1>2. now = t /\ saved = t /\ open = "no"
  BY <1>1 DEF Data!Init
<1>3. /\ t.data = <<>> /\ t.bundles = <<>> /\ t.patches = <<>>
      /\ DOMAIN t.data = {} /\ DOMAIN t.bundles = {} /\ DOMAIN t.patches = {}
  BY <1>1
<1>4. t \in Data!Tables
  <2>1. <<>> \in Seq(Data!Datum) /\ <<>> \in Seq(Data!Bundle) /\ <<>> \in Seq(Data!Patch)
    BY EmptySeq
  <2> QED
    BY <1>1, <2>1 DEF Data!Tables
<1>5. Sound(t)
  BY <1>3, <1>4 DEF Sound
<1> QED
  BY <1>2, <1>5 DEF DataInv

\* The lists of patches that are applied.
LEMMA PatchListsAre ==
    ASSUME NEW ps \in Data!PatchLists
    PROVE  ps \in Seq(DOMAIN now.patches) /\ ps # <<>>
<1>1. PICK i \in 1 .. MaxRun : ps \in [1 .. i -> DOMAIN now.patches]
  BY DEF Data!PatchLists
<1>2. i \in Nat /\ i > 0
  BY <1>1
<1>3. ps \in Seq(DOMAIN now.patches)
  BY <1>1, <1>2
<1>4. 1 \in DOMAIN ps
  BY <1>1, <1>2
<1> QED
  BY <1>3, <1>4

\* Every operation, commit and rollback keeps them sound.
LEMMA DataStep == ASSUME Data!CuratedAssumption, DataInv, [Data!Next]_Data!vars PROVE DataInv'
<1>1. Sound(now) /\ Sound(saved) /\ open \in {"yes", "no"}
  BY DEF DataInv
<1>2. CASE UNCHANGED Data!vars
  <2>1. now' = now /\ saved' = saved /\ open' = open
    BY <1>2 DEF Data!vars
  <2>2. Sound(now') /\ Sound(saved')
    BY <1>1, <2>1
  <2> QED
    BY <1>1, <2>1, <2>2 DEF DataInv
<1>3. ASSUME NEW m \in Import, Data!CommitImport(m) PROVE DataInv'
  <2>1. now' = Data!Bundled(m) /\ saved' = now' /\ open' = open
    BY <1>3 DEF Data!CommitImport
  <2>2. Sound(Data!Bundled(m))
    BY <1>1, BundledKeeps
  <2>3. Sound(now') /\ Sound(saved')
    BY <2>1, <2>2
  <2> QED
    BY <1>1, <2>1, <2>3 DEF DataInv
<1>4. ASSUME NEW m \in Import, Data!Curate(m) PROVE DataInv'
  <2>1. now' = Data!Bundled(m) /\ saved' = saved /\ open' = "yes"
    BY <1>4 DEF Data!Curate, Data!Write
  <2>2. Sound(Data!Bundled(m))
    BY <1>1, BundledKeeps
  <2>3. Sound(now') /\ Sound(saved')
    BY <1>1, <2>1, <2>2
  <2> QED
    BY <2>1, <2>3 DEF DataInv
<1>5. ASSUME NEW b \in DOMAIN now.bundles, NEW d \in {0} \cup DOMAIN now.data, NEW c \in Change,
             NEW a \in {"yes", "no"}, Data!Create(b, d, c, a)
      PROVE  DataInv'
  <2>1. PICK u : u = [now EXCEPT !.patches =
                        Append(@, [bundle |-> b, datum |-> d, change |-> c, approved |-> a])]
    OBVIOUS
  <2>2. now' = u /\ saved' = saved /\ open' = "yes"
    BY <1>5, <2>1 DEF Data!Create, Data!Write
  <2>3. Sound(u)
    BY <1>1, <2>1, CreateKeeps
  <2>4. Sound(now') /\ Sound(saved')
    BY <1>1, <2>2, <2>3
  <2> QED
    BY <2>2, <2>4 DEF DataInv
<1>6. ASSUME NEW p \in DOMAIN now.patches, Data!Approve(p) PROVE DataInv'
  <2>1. PICK u : u = [now EXCEPT !.patches[p].approved = "yes"]
    OBVIOUS
  <2>2. now' = u /\ saved' = saved /\ open' = "yes"
    BY <1>6, <2>1 DEF Data!Approve, Data!Write
  <2>3. Sound(u)
    BY <1>1, <2>1, ApproveKeeps
  <2>4. Sound(now') /\ Sound(saved')
    BY <1>1, <2>2, <2>3
  <2> QED
    BY <2>2, <2>4 DEF DataInv
<1>7. ASSUME NEW b \in DOMAIN now.bundles, NEW ps \in Data!PatchLists, NEW mode \in Data!Mode,
             Data!Apply(b, ps, mode)
      PROVE  DataInv'
  <2>1. ps \in Seq(DOMAIN now.patches) /\ ps # <<>>
    BY PatchListsAre
  <2>2. Sound(now')
    BY <1>1, <1>7, <2>1, ApplyKeeps
  <2>3. open' = open /\ (saved' = now' \/ saved' = saved)
    BY <1>7 DEF Data!Apply
  <2>4. Sound(saved')
    BY <1>1, <2>2, <2>3
  <2> QED
    BY <1>1, <2>2, <2>3, <2>4 DEF DataInv
<1>8. ASSUME NEW b \in DOMAIN now.bundles, NEW ps \in Data!PatchLists, NEW mode \in Data!Mode,
             Data!ApplyFails(b, ps, mode)
      PROVE  DataInv'
  <2>1. ps \in Seq(DOMAIN now.patches)
    BY PatchListsAre
  <2>2. Sound(now')
    BY <1>1, <1>8, <2>1, ApplyFailsKeeps
  <2>3. open' = open /\ saved' = saved
    BY <1>8 DEF Data!ApplyFails
  <2>4. Sound(saved')
    BY <1>1, <2>3
  <2> QED
    BY <1>1, <2>2, <2>3, <2>4 DEF DataInv
<1>9. CASE Data!Commit
  <2>1. now' = now /\ saved' = now /\ open' = "no"
    BY <1>9 DEF Data!Commit
  <2>2. Sound(now') /\ Sound(saved')
    BY <1>1, <2>1
  <2> QED
    BY <2>1, <2>2 DEF DataInv
<1>10. CASE Data!Close
  <2>1. now' = saved /\ saved' = saved /\ open' = "no"
    BY <1>10 DEF Data!Close
  <2>2. Sound(now') /\ Sound(saved')
    BY <1>1, <2>1
  <2> QED
    BY <2>1, <2>2 DEF DataInv
<1> QED
  BY <1>2, <1>3, <1>4, <1>5, <1>6, <1>7, <1>8, <1>9, <1>10 DEF Data!Next

\* What the properties say of sound tables.
LEMMA DataHolds ==
    ASSUME DataInv
    PROVE  Data!TypeOK /\ Data!ChainReplays /\ Data!ServedAsReplayed /\ Data!LineageIsTrue
<1>1. Sound(now) /\ Sound(saved) /\ open \in {"yes", "no"}
  BY DEF DataInv
<1>2. Data!TypeOK
  BY <1>1 DEF Sound, Data!TypeOK
<1>3. Data!ChainReplays
  BY <1>1 DEF Sound, BundleOK, Data!ChainReplays
<1>4. Data!LineageIsTrue
  BY <1>1 DEF Sound, DatumOK, Data!LineageIsTrue
<1>5. Data!ServedAsReplayed
  <2>1. ASSUME NEW b \in DOMAIN saved.bundles, NEW k \in DOMAIN saved.bundles[b].items
        PROVE  \E i \in Data!Find(saved.data, k, saved.bundles[b].items[k]) :
                    saved.data[i].payload = Data!Replayed(saved, b)[k]
    <3>1. BundleOK(saved, b)
      BY <1>1 DEF Sound
    <3>2. saved.bundles[b].items = Data!Replayed(saved, b)
      BY <3>1 DEF BundleOK
    <3>3. PICK i \in DOMAIN saved.data :
            saved.data[i].key = k /\ saved.data[i].payload = saved.bundles[b].items[k]
      BY <3>1 DEF BundleOK
    <3>4. i \in Data!Find(saved.data, k, saved.bundles[b].items[k])
      BY <3>3 DEF Data!Find
    <3> QED
      BY <3>2, <3>3, <3>4
  <2> QED
    BY <2>1 DEF Data!ServedAsReplayed
<1> QED
  BY <1>2, <1>3, <1>4, <1>5

-----------------------------------------------------------------------------
(* All of them                                                             *)

\* Each component's behaviour is one of its specification.
LEMMA CacheRuns == Spec /\ which = "cache" => Cache!Spec
<1>1. Init /\ which = "cache" => Cache!Init
  BY DEF Init
<1>2. which = "cache" /\ [Next]_vars => [Cache!Next]_(Cache!vars)
  BY DEF Next, vars, evidence, Cache!vars
<1>3. which = "cache" /\ [Next]_vars => (which = "cache")'
  BY DEF Next, vars
<1> QED
  BY <1>1, <1>2, <1>3, PTL DEF Spec, Cache!Spec

LEMMA TiersRun == Spec /\ ~(which = "cache") => Tiers!Spec
<1>1. Init /\ ~(which = "cache") => Tiers!Init
  BY DEF Init
<1>2. ~(which = "cache") /\ [Next]_vars => [Tiers!Next]_(Tiers!vars)
  BY DEF Next, vars, evidence, Tiers!vars
<1>3. ~(which = "cache") /\ [Next]_vars => (~(which = "cache"))'
  BY DEF Next, vars
<1> QED
  BY <1>1, <1>2, <1>3, PTL DEF Spec, Tiers!Spec

LEMMA OneChoice == Spec => [](which = "cache") \/ [](~(which = "cache"))
<1>1. which = "cache" /\ [Next]_vars => (which = "cache")'
  BY DEF Next, vars
<1>2. ~(which = "cache") /\ [Next]_vars => (~(which = "cache"))'
  BY DEF Next, vars
<1> QED
  BY <1>1, <1>2, PTL DEF Spec

LEMMA WebRuns == Spec => Web!Spec
<1>1. Init => Web!Init
  BY DEF Init
<1>2. [Next]_vars => [Web!Next]_(Web!vars)
  BY DEF Next, vars, search, Web!vars
<1> QED
  BY <1>1, <1>2, PTL DEF Spec, Web!Spec

LEMMA ServiceRuns == Spec => Service!Spec
<1>1. Init => Service!Init
  BY DEF Init
<1>2. [Next]_vars => [Service!Next]_(Service!vars)
  BY DEF Next, vars, llm, Service!vars, Service!Registry, Service!Clock, Service!Limiter,
         Service!Observed
<1> QED
  BY <1>1, <1>2, PTL DEF Spec, Service!Spec

LEMMA DataRuns == Spec => Data!Spec
<1>1. Init => Data!Init
  BY DEF Init
<1>2. [Next]_vars => [Data!Next]_(Data!vars)
  BY DEF Next, vars, curated, Data!vars
<1> QED
  BY <1>1, <1>2, PTL DEF Spec, Data!Spec

LEMMA EvidenceAssumptions == Tiers!Assumptions /\ Cache!Assumptions
BY TiersAssumption, CacheAssumption DEF Tiers!Assumptions, Cache!Assumptions

\* A cache hit holds no record older than a day, whatever processes write and the clock does
\* between (evidence_store.py get).
THEOREM ServedAlwaysFresh == Spec => []ServedIsFresh
<1>1. Cache!Spec => []Cache!ServedIsFresh
  BY EvidenceAssumptions, Cache!CacheIsFresh
<1>2. Tiers!Spec => []Tiers!ServedIsFresh
  BY EvidenceAssumptions, Tiers!CacheIsFresh
<1>3. which = "cache" /\ Cache!ServedIsFresh => ServedIsFresh
  BY DEF ServedIsFresh
<1>4. ~(which = "cache") /\ Tiers!ServedIsFresh => ServedIsFresh
  BY DEF ServedIsFresh
<1> QED
  BY <1>1, <1>2, <1>3, <1>4, CacheRuns, TiersRun, OneChoice, PTL

\* Worse tiers are asked only if the better ones were not enough, and all of them are unless the
\* time is over (evidence_engine.py run).
THEOREM TiersAlwaysInTurn == Spec => []TiersInTurn
<1>1. Cache!Spec => []Cache!TiersInTurn
  BY EvidenceAssumptions, Cache!TiersAreInTurn
<1>2. Tiers!Spec => []Tiers!TiersInTurn
  BY EvidenceAssumptions, Tiers!TiersAreInTurn
<1>3. which = "cache" /\ Cache!TiersInTurn => TiersInTurn
  BY DEF TiersInTurn
<1>4. ~(which = "cache") /\ Tiers!TiersInTurn => TiersInTurn
  BY DEF TiersInTurn
<1> QED
  BY <1>1, <1>2, <1>3, <1>4, CacheRuns, TiersRun, OneChoice, PTL

\* A metric takes the time budget and one call at most (evidence_engine.py run).
THEOREM AlwaysInTime == Spec => []CollectedInTime
<1>1. Cache!Spec => []Cache!CollectedInTime
  BY EvidenceAssumptions, Cache!CollectionIsInTime
<1>2. Tiers!Spec => []Tiers!CollectedInTime
  BY EvidenceAssumptions, Tiers!CollectionIsInTime
<1>3. which = "cache" /\ Cache!CollectedInTime => CollectedInTime
  BY DEF CollectedInTime
<1>4. ~(which = "cache") /\ Tiers!CollectedInTime => CollectedInTime
  BY DEF CollectedInTime
<1> QED
  BY <1>1, <1>2, <1>3, <1>4, CacheRuns, TiersRun, OneChoice, PTL

\* A strict value rests on two sources that state it (search_v3/gate.py).
THEOREM CommitsAreBacked == Spec => []StrictCommitIsBacked
<1>1. Web!Spec => []Web!StrictCommitIsBacked
  BY SearchAssumption, StrictValuesAreBacked
<1> QED
  BY <1>1, WebRuns, PTL DEF StrictCommitIsBacked

\* Queries and pages stay within the budgets, whatever crawls find, and a crawled page is a new
\* one, linked from a page loaded before (search_v3/runner.py, document_fetcher.py).
THEOREM AllLoadsAreDue == Spec => []LoadsAreDue
<1>1. Web!Spec => []Web!WithinBudget
  BY SearchAssumption, BudgetsHold
<1>2. Web!Spec => []Web!LinksLeadBack
  BY SearchAssumption, LinksComeFromPages
<1>3. Web!WithinBudget /\ Web!LinksLeadBack => LoadsAreDue
  BY DEF LoadsAreDue
<1> QED
  BY <1>1, <1>2, <1>3, WebRuns, PTL

\* A managed answer comes from a model the policy leaves for the task, and a failure that the
\* ladder names leads to the model it names (llm/service.py call, call_structured;
\* model_selector.py select).
THEOREM AnswersStayAllowed == Spec => []AnswersAreAllowed
<1>1. Service!Spec => []Service!AnswersAreAllowed
  BY ServiceAssumption, Service!AnswersAllowed
<1>2. Service!Spec => []Service!LadderIsTaken
  BY ServiceAssumption, Service!LadderTaken
<1>3. Service!AnswersAreAllowed /\ Service!LadderIsTaken => AnswersAreAllowed
  BY DEF AnswersAreAllowed
<1> QED
  BY <1>1, <1>2, <1>3, ServiceRuns, PTL

\* The rate limit and the limit of the day hold up to a known excess
\* (llm/service.py RateLimiter, _check_daily_cost_reset).
THEOREM LimitsAlwaysHold == Spec => []LimitsHold
<1>1. Service!Spec => []Service!RateHolds
  BY ServiceAssumption, Service!RateBounded
<1>2. Service!Spec => []Service!DayHolds
  BY ServiceAssumption, Service!DayBounded
<1>3. Service!RateHolds /\ Service!DayHolds => LimitsHold
  BY DEF LimitsHold
<1> QED
  BY <1>1, <1>2, <1>3, ServiceRuns, PTL

\* However patches are applied, whatever fails half-way, is rolled back or lost, a bundle is what
\* its chain of patches says, so is what is found for its items once it is committed, and the
\* lineage of a datum is a true history (brownfield/dop_store.py, curated_internal_source.py).
THEOREM DataAlwaysTrue == Spec => []DataIsTrue
<1>1. Data!Init => DataInv
  BY DataAssumption, DataInit
<1>2. DataInv /\ [Data!Next]_(Data!vars) => DataInv'
  BY DataAssumption, DataStep
<1>3. DataInv => DataIsTrue
  BY DataHolds DEF DataIsTrue
<1> QED
  BY <1>1, <1>2, <1>3, DataRuns, PTL DEF Data!Spec

\* Every component stays within its types, whichever was chosen.
THEOREM AlwaysTyped == Spec => []TypeOK
<1>1. Cache!Spec => []Cache!TypeOK
  BY EvidenceAssumptions, Cache!TypeCorrect
<1>2. Tiers!Spec => []Tiers!TypeOK
  BY EvidenceAssumptions, Tiers!TypeCorrect
<1>3. Web!Spec => []Web!TypeOK
  BY SearchAssumption, SearchIsTyped
<1>4. Service!Spec => []Service!TypeOK
  BY ServiceAssumption, Service!TypeCorrect
<1>5. Data!Spec => []Data!TypeOK
  <2>1. Data!Init => DataInv
    BY DataAssumption, DataInit
  <2>2. DataInv /\ [Data!Next]_(Data!vars) => DataInv'
    BY DataAssumption, DataStep
  <2>3. DataInv => Data!TypeOK
    BY DataHolds
  <2> QED
    BY <2>1, <2>2, <2>3, PTL DEF Data!Spec
<1>6. (which = "cache" /\ Cache!TypeOK) \/ (~(which = "cache") /\ Tiers!TypeOK)
        => IF which = "cache" THEN Cache!TypeOK ELSE Tiers!TypeOK
  OBVIOUS
<1>7. (IF which = "cache" THEN Cache!TypeOK ELSE Tiers!TypeOK) /\ Web!TypeOK /\ Data!TypeOK /\ Service!TypeOK
        => TypeOK
  BY DEF TypeOK
<1>8. (which = "cache" /\ Cache!TypeOK) \/ (~(which = "cache") /\ Tiers!TypeOK)
        => (Web!TypeOK /\ Data!TypeOK /\ Service!TypeOK => TypeOK)
  BY <1>6, <1>7
<1>9. Spec => []Web!TypeOK /\ []Data!TypeOK /\ []Service!TypeOK
  BY <1>3, <1>4, <1>5, WebRuns, DataRuns, ServiceRuns, PTL
<1> QED
  BY <1>1, <1>2, <1>8, <1>9, CacheRuns, TiersRun, OneChoice, PTL

=============================================================================
