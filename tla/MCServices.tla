----------------------------- MODULE MCServices -----------------------------
(***************************************************************************)
(* Instances for TLC of the components that a run of the kernel calls.     *)
(***************************************************************************)
EXTENDS Services, TLC

CONSTANTS c1, c2, m1, s1, s2, s3, pa, pb, pc, k1, k2

\* Of Evidence: an official source and two commercial ones, whose values may disagree ...
DetailedCall ==
    [Client |-> {c1}, Metric |-> {m1}, Source |-> {s1, s2, s3}, Order |-> <<s1, s2, s3>>,
     Tier |-> (s1 :> 1) @@ (s2 :> 3) @@ (s3 :> 3), Capable |-> (m1 :> {s1, s2, s3}),
     Value |-> {10, 20}, Request |-> {<<m1>>}, Policy |-> {"strict", "exploration"},
     Day |-> 1, MaxTotalTime |-> 1, LongestCall |-> 1, Horizon |-> 3]

\* ... and two processes on one cache.
SharedCache ==
    [Client |-> {c1, c2}, Metric |-> {m1}, Source |-> {s1}, Order |-> <<s1>>,
     Tier |-> (s1 :> 1), Capable |-> (m1 :> {s1}),
     Value |-> {10}, Request |-> {<<m1>>}, Policy |-> {"strict"},
     Day |-> 1, MaxTotalTime |-> 1, LongestCall |-> 1, Horizon |-> 3]

\* Of Search: two pages of one host, one of which may redirect to the page of the other; a
\* content that states two values, one of another year and one of another unit.
HostOfPage == (pa :> "one") @@ (pb :> "one") @@ (pc :> "other")
LandsOn == (pa :> {pa}) @@ (pb :> {pb, pc}) @@ (pc :> {pc})
FactsStated == [c \in {"two", "old", "none"} |->
    CASE c = "two" -> {[fits |-> "yes", number |-> 1], [fits |-> "yes", number |-> 2]}
      [] c = "old" -> {[fits |-> "otherYear", number |-> 1]}
      [] OTHER -> {[fits |-> "otherUnit", number |-> 1]}]
HitLists == {<<>>, <<pa>>, <<pa, pb>>, <<pb, pc>>}
PhasePlan == <<[queries |-> 3, topK |-> 1, depth |-> 0, links |-> 0],
               [queries |-> 2, topK |-> 2, depth |-> 1, links |-> 2]>>
QueryBudget == [l \in {"strict", "lax"} |-> IF l = "strict" THEN 4 ELSE 3]
FetchBudget == [l \in {"strict", "lax"} |-> IF l = "strict" THEN 3 ELSE 4]

\* Of Curated: two imports that share a key, a bundle of one number, and one of a number
\* and a text.
Imports == {<<[key |-> k1, payload |-> [kind |-> "number", n |-> 2]]>>,
            <<[key |-> k1, payload |-> [kind |-> "number", n |-> 1]],
              [key |-> k2, payload |-> [kind |-> "text", n |-> 0]]>>}
Changes == {[op |-> "set", value |-> [kind |-> "number", n |-> 2]],
            [op |-> "add", value |-> [kind |-> "number", n |-> 1]]}

\* Of LLM: a cheap, a dear and a mocked model; a task that must be answered with an object
\* and climbs to the dear model, and one that the policy forbids.
LLMTask == {"extract", "prior"}
LLMModel == {"mini", "four", "mock"}
GatesOfTask == [t \in LLMTask |-> IF t = "extract" THEN {"json"} ELSE {"text"}]
Providers == [m \in LLMModel |-> IF m = "mock" THEN "mock" ELSE "openai"]
DefaultModels == [q \in {"openai", "mock"} |-> IF q = "mock" THEN "mock" ELSE "mini"]
Costs == [m \in LLMModel |-> CASE m = "mini" -> 1 [] m = "four" -> 2 [] OTHER -> 0]
AllCapable == [t \in LLMTask |-> LLMModel]
Strict == [forbidden |-> {"prior"}, allow |-> {"mini", "four"}, profile |-> {"mini", "four"},
           maxCost |-> 2,
           prefer |-> [t \in LLMTask |-> IF t = "extract" THEN <<"mini">> ELSE <<>>],
           ladder |-> [t \in LLMTask |->
               IF t = "extract" THEN <<[when |-> "json", next |-> "four"]>> ELSE <<>>],
           order |-> <<"four", "mini", "mock">>]
LLMPolicies == [p \in {"strict"} |-> Strict]
=============================================================================
