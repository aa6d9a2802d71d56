----------------------------- MODULE LLMProofs ------------------------------
(***************************************************************************)
(* Theorems about the language model service, for any tasks, models,       *)
(* policies, costs and limits.                                             *)
(***************************************************************************)
EXTENDS LLM, SequenceTheorems, WellFoundedInduction, TLAPS

-----------------------------------------------------------------------------
(* Selection                                                               *)

\* A set of natural numbers that is not empty has a least one.
LEMMA MinIsLeast ==
    ASSUME NEW S \in SUBSET Nat, S # {}
    PROVE  Min(S) \in S /\ \A y \in S : Min(S) <= y
<1>1. PICK x \in S : \A y \in S : ~ (<<y, x>> \in OpToRel(<, Nat))
  BY NatLessThanWellFounded, WFMin
<1>2. \A y \in S : ~ (y < x)
  BY <1>1 DEF OpToRel
<1>3. x \in S /\ \A y \in S : x <= y
  BY <1>2
<1> QED
  BY <1>3 DEF Min

\* The steps of a ladder are numbered.
LEMMA NamedType ==
    ASSUME LLMAssumption, NEW p \in DOMAIN Policy, NEW t \in Task, NEW f
    PROVE  /\ Named(p, t, f) \in SUBSET Nat
           /\ \A i \in Named(p, t, f) : Policy[p].ladder[t][i].next \in Model
<1>1. Policy[p] \in Routing
  BY DEF LLMAssumption
<1>2. Policy[p].ladder[t] \in Seq([when: {"json", "text"}, next: Model])
  BY <1>1 DEF Routing
<1> DEFINE ladder == Policy[p].ladder[t]
<1> HIDE DEF ladder
<1>3. ladder \in Seq([when: {"json", "text"}, next: Model])
  BY <1>2 DEF ladder
<1>4. DOMAIN ladder \subseteq Nat
  BY <1>3, LenProperties
<1>5. \A i \in DOMAIN ladder : ladder[i] \in [when: {"json", "text"}, next: Model]
  <2> DEFINE S == [when: {"json", "text"}, next: Model]
  <2>1. ladder \in Seq(S)
    BY <1>3
  <2> HIDE DEF S
  <2>2. \A i \in DOMAIN ladder : ladder[i] \in S
    BY <2>1, LenProperties, ElementOfSeq
  <2> QED
    BY <2>2 DEF S
<1>6. Named(p, t, f) \subseteq DOMAIN ladder
  BY DEF Named, ladder
<1>7. \A i \in Named(p, t, f) : ladder[i].next \in Model
  BY <1>5, <1>6
<1> QED
  BY <1>4, <1>6, <1>7 DEF ladder

\* The preferred models are models.
LEMMA PreferredType ==
    ASSUME LLMAssumption, NEW p \in DOMAIN Policy, NEW t \in Task, NEW f
    PROVE  Preferred(p, t, f) \in Seq(Model)
<1>1. Policy[p].prefer[t] \in Seq(Model)
  BY DEF LLMAssumption, Routing
<1>2. CASE Named(p, t, f) = {}
  BY <1>1, <1>2 DEF Preferred
<1>3. CASE Named(p, t, f) # {}
  <2>1. Policy[p].ladder[t][Min(Named(p, t, f))].next \in Model
    BY <1>3, NamedType, MinIsLeast
  <2> QED
    BY <1>1, <1>3, <2>1, ConcatProperties DEF Preferred
<1> QED
  BY <1>2, <1>3

\* A candidate is a model.
LEMMA CandidatesAreModels ==
    ASSUME LLMAssumption, NEW p, NEW t \in Task, NEW b
    PROVE  Candidates(p, t, b) \subseteq Model
BY DEF Candidates, LLMAssumption, Routing

\* If there are candidates the chosen model is one.
LEMMA ChosenIsCandidate ==
    ASSUME LLMAssumption, NEW p, NEW t \in Task, NEW f, NEW b, Candidates(p, t, b) # {}
    PROVE  Chosen(p, t, f, b) \in Candidates(p, t, b)
<1> DEFINE pre == Preferred(p, t, f)
<1> DEFINE ranked == pre \o Policy[p].order
<1> DEFINE I == {i \in DOMAIN ranked : ranked[i] \in Candidates(p, t, b)}
<1>1. p \in DOMAIN Policy
  BY DEF Candidates
<1>2. pre \in Seq(Model) /\ Policy[p].order \in Seq(Model)
  BY <1>1, PreferredType DEF LLMAssumption, Routing
<1>3. PICK m \in Candidates(p, t, b) : TRUE
  OBVIOUS
<1>4. m \in Model
  BY CandidatesAreModels
<1>5. PICK i \in DOMAIN Policy[p].order : Policy[p].order[i] = m
  BY <1>1, <1>4 DEF LLMAssumption
<1> HIDE DEF pre
<1>6. /\ ranked \in Seq(Model)
      /\ Len(ranked) = Len(pre) + Len(Policy[p].order)
      /\ \A k \in 1 .. Len(ranked) :
             ranked[k] = IF k <= Len(pre) THEN pre[k] ELSE Policy[p].order[k - Len(pre)]
  BY <1>2, ConcatProperties
<1>7. i \in 1 .. Len(Policy[p].order) /\ Len(pre) \in Nat /\ Len(Policy[p].order) \in Nat
  BY <1>2, <1>5, LenProperties
<1> HIDE DEF ranked
<1>8. Len(pre) + i \in 1 .. Len(ranked)
  <2> DEFINE a == Len(pre)
  <2> DEFINE c == Len(Policy[p].order)
  <2>1. Len(ranked) = a + c
    BY <1>6
  <2>2. a \in Nat /\ c \in Nat /\ i \in 1 .. c
    BY <1>7
  <2> HIDE DEF a, c
  <2>3. a + i \in 1 .. (a + c)
    BY <2>2
  <2>4. Len(pre) = a
    BY DEF a
  <2> QED
    BY <2>1, <2>3, <2>4
<1>9. ranked[Len(pre) + i] = m
  <2>1. ~ (Len(pre) + i <= Len(pre)) /\ (Len(pre) + i) - Len(pre) = i
    BY <1>7
  <2> QED
    BY <1>5, <1>6, <1>8, <2>1
<1>10. DOMAIN ranked = 1 .. Len(ranked) /\ Len(ranked) \in Nat
  BY <1>6, LenProperties
<1>11. I \in SUBSET Nat /\ Len(pre) + i \in I
  BY <1>3, <1>8, <1>9, <1>10
<1>12. Min(I) \in I
  BY <1>11, MinIsLeast
<1> QED
  BY <1>12 DEF Chosen, ranked, pre

\* The model of the ladder is chosen when it is a candidate.
LEMMA LadderIsChosen ==
    ASSUME LLMAssumption, NEW p, NEW t \in Task, NEW f, NEW b, Named(p, t, f) # {},
           Policy[p].ladder[t][Min(Named(p, t, f))].next \in Candidates(p, t, b)
    PROVE  Chosen(p, t, f, b) = Policy[p].ladder[t][Min(Named(p, t, f))].next
<1> DEFINE next == Policy[p].ladder[t][Min(Named(p, t, f))].next
<1> DEFINE rest == Policy[p].prefer[t]
<1> DEFINE ranked == (<<next>> \o rest) \o Policy[p].order
<1> DEFINE I == {i \in DOMAIN ranked : ranked[i] \in Candidates(p, t, b)}
<1>1. p \in DOMAIN Policy
  BY DEF Candidates
<1>2. rest \in Seq(Model) /\ Policy[p].order \in Seq(Model)
  BY <1>1 DEF LLMAssumption, Routing
<1>3. next \in Model
  BY CandidatesAreModels
<1> HIDE DEF next, rest
<1>4. /\ <<next>> \o rest \in Seq(Model) /\ Len(<<next>> \o rest) >= 1
      /\ (<<next>> \o rest)[1] = next
  BY <1>2, <1>3, ConcatProperties, LenProperties
<1>5. ranked \in Seq(Model) /\ Len(ranked) >= 1 /\ ranked[1] = next
  <2> DEFINE front == <<next>> \o rest
  <2> DEFINE back == Policy[p].order
  <2>1. front \in Seq(Model) /\ back \in Seq(Model) /\ Len(front) >= 1 /\ front[1] = next
    BY <1>2, <1>4
  <2> HIDE DEF front, back
  <2>2. /\ front \o back \in Seq(Model) /\ Len(front \o back) = Len(front) + Len(back)
        /\ Len(front) \in Nat /\ Len(back) \in Nat
        /\ \A k \in 1 .. Len(front) + Len(back) :
               (front \o back)[k] = IF k <= Len(front) THEN front[k] ELSE back[k - Len(front)]
    BY <2>1, ConcatProperties, LenProperties
  <2>3. 1 \in 1 .. Len(front) + Len(back)
    BY <2>1, <2>2
  <2>4. (front \o back)[1] = next
    BY <2>1, <2>2, <2>3
  <2>5. Len(front \o back) >= 1
    BY <2>1, <2>2
  <2> QED
    BY <2>2, <2>4, <2>5 DEF front, back
<1>6. ranked = Preferred(p, t, f) \o Policy[p].order
  BY DEF Preferred, next, rest
<1> HIDE DEF ranked
<1>7. DOMAIN ranked = 1 .. Len(ranked) /\ Len(ranked) \in Nat
  BY <1>5, LenProperties
<1>8. next \in Candidates(p, t, b)
  BY DEF next
<1>9. I \in SUBSET Nat /\ 1 \in I
  BY <1>5, <1>7, <1>8
<1>10. Min(I) \in I /\ Min(I) <= 1
  BY <1>9, MinIsLeast
<1>11. Min(I) = 1
  BY <1>7, <1>10
<1>12. Chosen(p, t, f, b) = ranked[Min(I)]
  BY <1>6 DEF Chosen
<1>13. ranked[Min(I)] = next
  BY <1>5, <1>11
<1> QED
  BY <1>12, <1>13 DEF next

\* A request goes to a model; to a candidate if there is one.
LEMMA RouteType ==
    ASSUME LLMAssumption, TypeOK, NEW p, NEW t \in Task, NEW f, NEW b
    PROVE  LET r == Route(p, t, f, b)
           IN  /\ r.managed \in {"yes", "no"} /\ r.model \in Model
               /\ r.managed = "yes" <=> Candidates(p, t, b) # {}
               /\ r.managed = "yes" => /\ r.model = Chosen(p, t, f, b)
                                       /\ r.model \in Candidates(p, t, b)
<1>1. DefaultModel[fallback] \in Model
  BY DEF LLMAssumption, TypeOK
<1> QED
  BY <1>1, ChosenIsCandidate, CandidatesAreModels DEF Route

-----------------------------------------------------------------------------
(* Type correctness                                                        *)

\* The invariant: the types, and that a token is missing only when the minute
\* is over and the next request will refill.
TokenInv ==
    /\ tokens = -1 => Expired
    /\ pc = "full" => tokens = 0

\* Attempts are counted, the first is made before the limits of `call` are
\* looked at, and only those of a selected model can fail.
JobInv ==
    /\ job # NoJob => job.attempt <= job.attempts
    /\ pc \in {"limiting", "full", "asleep", "charging"} => job.attempt = 1
    /\ pc = "failed" => /\ job.attempt < job.attempts
                       /\ job.kind = "structured" /\ job.managed = "yes"

TypeInv == TypeOK /\ TokenInv /\ JobInv

LEMMA TypeInit == LLMAssumption /\ Init => TypeInv
<1> SUFFICES ASSUME LLMAssumption, Init PROVE TypeInv
  OBVIOUS
<1>1. DOMAIN cache = {}
  BY DEF Init
<1>2. asked \in [0 .. Horizon -> Nat] /\ spent \in [0 .. MaxDay -> Nat]
  BY DEF Init
<1>3. registered \subseteq {"openai", "mock"} /\ fallback \in registered
  BY DEF Init
<1> QED
  BY <1>1, <1>2, <1>3 DEF Init, TypeInv, TypeOK, TokenInv, JobInv, LLMAssumption, Place

\* Adding to one value of a table keeps its type.
LEMMA Adding ==
    ASSUME NEW S, NEW f \in [S -> Nat], NEW x, NEW c \in Nat
    PROVE  [f EXCEPT ![x] = @ + c] \in [S -> Nat]
<1>1. CASE x \in S
  BY <1>1
<1>2. CASE x \notin S
  BY <1>2
<1> QED
  BY <1>1, <1>2

\* What is sent is a job.
LEMMA SendType ==
    ASSUME LLMAssumption, NEW j \in Job, Send(j)
    PROVE  /\ pc' \in Place /\ (job' \in Job \/ job' = NoJob)
           /\ pc' = "idle" <=> job' = NoJob
           /\ pc' # "full"
           /\ pc' = "asking" => job' = j
           /\ pc' \in {"idle", "asking"}
           /\ job' # NoJob => job' = j
<1>1. j # NoJob
  BY DEF Job, NoJob
<1> QED
  BY <1>1 DEF Send, Place

LEMMA TypeStep == LLMAssumption /\ TypeInv /\ [Next]_vars => TypeInv'
<1> SUFFICES ASSUME LLMAssumption, TypeInv, [Next]_vars PROVE TypeInv'
  OBVIOUS
<1> USE DEF TypeInv
<1>job. job # NoJob => job \in Job
  BY DEF TypeOK
<1>1. ASSUME NEW t \in Task, NEW p \in PolicyRef, NEW b \in Budget, Call(t, p, b)
      PROVE  TypeInv'
  <2> DEFINE r == Route(p, t, {}, b)
  <2> DEFINE j == [kind |-> "call", task |-> t, policy |-> p, budget |-> b,
                   managed |-> r.managed, model |-> r.model,
                   by |-> IF CacheKey(t, r.model) \in DOMAIN cache
                          THEN cache[CacheKey(t, r.model)] ELSE r.model,
                   day |-> 0, gates |-> "off", attempts |-> 1, attempt |-> 1,
                   failures |-> {}]
  <2>1. r.managed \in {"yes", "no"} /\ r.model \in Model
    BY RouteType
  <2>2. job' = j /\ pc' \in {"limiting", "returned"}
    BY <1>1 DEF Call
  <2> HIDE DEF r
  <2>3. j.by \in Model
    BY <2>1 DEF TypeOK
  <2>4. j \in Job
    BY <2>1, <2>3 DEF Job, LLMAssumption
  <2>5. j # NoJob /\ j.attempt <= j.attempts /\ j.attempt = 1
    BY DEF NoJob
  <2> HIDE DEF j
  <2> QED
    BY <1>1, <2>2, <2>4, <2>5
       DEF Call, TypeOK, TokenInv, JobInv, Expired, Registry, Clock, Limiter, Observed, Place
<1>2. ASSUME NEW t \in Task, NEW p \in PolicyRef, NEW b \in Budget,
             NEW n \in 1 .. MaxAttempts, NEW g \in {"on", "off"},
             CallStructured(t, p, b, n, g)
      PROVE  TypeInv'
  <2> DEFINE r == Route(p, t, {}, b)
  <2> DEFINE j == [kind |-> "structured", task |-> t, policy |-> p, budget |-> b,
                   managed |-> r.managed, model |-> r.model, by |-> r.model, day |-> 0,
                   gates |-> IF r.managed = "yes" THEN g ELSE "off",
                   attempts |-> IF r.managed = "yes" THEN n ELSE 1,
                   attempt |-> 1, failures |-> {}]
  <2>1. r.managed \in {"yes", "no"} /\ r.model \in Model
    BY RouteType
  <2>2. Send(j)
    BY <1>2 DEF CallStructured
  <2> HIDE DEF r
  <2>3. j \in Job /\ j.attempt <= j.attempts
    BY <2>1 DEF Job, LLMAssumption
  <2> HIDE DEF j
  <2> QED
    BY <1>2, <2>2, <2>3, SendType
       DEF CallStructured, TypeOK, TokenInv, JobInv, Expired, Registry, Clock, Limiter, Observed
<1>3. CASE TakeToken
  BY <1>3 DEF TakeToken, TypeOK, TokenInv, JobInv, Expired, Registry, Clock, Observed, Place,
              LLMAssumption
<1>4. CASE WaitOrNot
  BY <1>4 DEF WaitOrNot, TypeOK, TokenInv, JobInv, Expired, Registry, Clock, Observed, Place,
              LLMAssumption
<1>5. CASE Wake
  BY <1>5 DEF Wake, TypeOK, TokenInv, JobInv, Expired, Registry, Clock, Observed, Place,
              LLMAssumption
<1>6. CASE Charge
  <2>1. job \in Job
    BY <1>6, <1>job DEF Charge, TypeOK
  <2>0. day \in Nat
    BY DEF TypeOK, LLMAssumption
  <2>2. /\ [job EXCEPT !.day = day] \in Job /\ [job EXCEPT !.day = day] # NoJob
        /\ [job EXCEPT !.day = day].attempt = job.attempt
        /\ [job EXCEPT !.day = day].attempts = job.attempts
    BY <2>1, <2>0 DEF Job, NoJob
  <2>3. [i \in 0 .. Horizon |-> IF i < time THEN asked[i] ELSE asked[i] + 1] \in [0 .. Horizon -> Nat]
    BY DEF TypeOK
  <2>4. daily' \in Nat
    BY <1>6 DEF Charge, Booked, TypeOK
  <2>5. /\ resetDay' = day
        /\ UNCHANGED <<Registry, Clock, Limiter, cache, spent>>
        /\ \/ /\ pc' = "asking" /\ job' = [job EXCEPT !.day = day]
              /\ asked' = [i \in 0 .. Horizon |-> IF i < time THEN asked[i] ELSE asked[i] + 1]
           \/ pc' = "idle" /\ job' = NoJob /\ UNCHANGED asked
    BY <1>6 DEF Charge
  <2>6. asked' \in [0 .. Horizon -> Nat]
    BY <2>3, <2>5 DEF TypeOK
  <2>7. job.attempt <= job.attempts
    BY <1>6, <2>1 DEF JobInv, TypeOK, Charge
  <2>8. CASE pc' = "asking" /\ job' = [job EXCEPT !.day = day]
    <3>1. job' \in Job /\ job' # NoJob /\ job'.attempt <= job'.attempts
      BY <2>2, <2>7, <2>8
    <3>2. pc' = "asking" /\ resetDay' = day /\ UNCHANGED <<Registry, Clock, Limiter, cache, spent>>
      BY <2>5, <2>8
    <3>3. resetDay' \in 0 .. day'
      BY <3>2, <2>0 DEF Clock
    <3> QED
      BY <2>4, <2>6, <3>1, <3>2, <3>3
         DEF TypeOK, TokenInv, JobInv, Expired, Registry, Clock, Limiter, Place
  <2>9. CASE pc' = "idle" /\ job' = NoJob
    BY <2>4, <2>5, <2>6, <2>9
       DEF TypeOK, TokenInv, JobInv, Expired, Registry, Clock, Limiter, Place
  <2> QED
    BY <2>5, <2>8, <2>9
<1>7. CASE Answered
  <2>1. job \in Job
    BY <1>7, <1>job DEF Answered, TypeOK
  <2>2. job.task \in Task /\ job.model \in Model /\ CostOf[job.model] \in Nat
    BY <2>1 DEF Job, LLMAssumption
  <2>3. [spent EXCEPT ![job.day] = @ + CostOf[job.model]] \in [0 .. MaxDay -> Nat]
    BY <2>2, Adding DEF TypeOK
  <2>4. DOMAIN cache' \subseteq Task \X Model /\ \A k \in DOMAIN cache' : cache'[k] \in Model
    BY <1>7, <2>2 DEF Answered, CacheKey, TypeOK
  <2>5. job' # NoJob
    BY <1>7, <2>1 DEF Answered, Job, NoJob
  <2>6. pc' = "returned" /\ UNCHANGED <<Registry, Clock, Limiter, resetDay, job, asked>>
    BY <1>7 DEF Answered
  <2>7. daily' \in Nat
    BY <1>7, <2>2 DEF Answered, TypeOK
  <2>8. spent' \in [0 .. MaxDay -> Nat]
    BY <1>7, <2>3 DEF Answered
  <2> QED
    BY <2>1, <2>4, <2>5, <2>6, <2>7, <2>8
       DEF TypeOK, TokenInv, JobInv, Expired, Registry, Clock, Limiter, Place
<1>8. CASE Raised
  BY <1>8 DEF Raised, TypeOK, TokenInv, JobInv, Expired, Registry, Clock, Limiter, Observed, Place
<1>9. ASSUME NEW answer \in {"object", "text", "broken"}, AnsweredStructured(answer)
      PROVE  TypeInv'
  <2>1. job \in Job
    BY <1>9, <1>job DEF AnsweredStructured, TypeOK
  <2>2. CostOf[job.model] \in Nat /\ FailuresOf(job.task, answer) \in SUBSET {"json", "text"}
    BY <2>1 DEF Job, LLMAssumption, FailuresOf
  <2>3. \E f \in SUBSET {"json", "text"} : job' = [job EXCEPT !.failures = f]
    BY <1>9, <2>1, <2>2 DEF AnsweredStructured, Job
  <2>4. /\ job' \in Job /\ job' # NoJob
        /\ job'.attempt = job.attempt /\ job'.attempts = job.attempts
        /\ job'.kind = job.kind /\ job'.managed = job.managed
    BY <2>1, <2>3 DEF Job, NoJob
  <2>6. pc' = "failed" => /\ job.attempt # job.attempts
                          /\ job.kind = "structured" /\ job.managed = "yes"
    BY <1>9 DEF AnsweredStructured
  <2>7. job.attempt <= job.attempts /\ job.attempt \in Nat /\ job.attempts \in Nat
    BY <2>1 DEF JobInv, Job, NoJob
  <2>5. pc' = "failed" \/ pc' = "returned"
    BY <1>9 DEF AnsweredStructured
  <2>10. daily' = daily + CostOf[job.model]
    BY <1>9 DEF AnsweredStructured
  <2>8. daily' \in Nat
    BY <2>2, <2>10 DEF TypeOK
  <2>9. UNCHANGED <<Registry, Clock, Limiter, resetDay, cache, Observed>>
    BY <1>9 DEF AnsweredStructured
  <2> QED
    BY <2>4, <2>5, <2>6, <2>7, <2>8, <2>9
       DEF TypeOK, TokenInv, JobInv, Expired, Registry, Clock, Limiter, Observed, Place
<1>10. CASE Escalate
  <2> DEFINE r == Route(job.policy, job.task, job.failures, job.budget)
  <2> DEFINE j == [job EXCEPT !.model = r.model, !.by = r.model, !.attempt = @ + 1]
  <2>1. job \in Job /\ job # NoJob
    BY <1>10, <1>job DEF Escalate, TypeOK
  <2>2. r.model \in Model
    BY <2>1, RouteType DEF Job
  <2>3. job.attempt < job.attempts
    BY <1>10 DEF Escalate, JobInv
  <2>4. Send(j)
    BY <1>10 DEF Escalate
  <2> HIDE DEF r
  <2>7. job.attempt + 1 \in 1 .. MaxAttempts
    BY <2>1, <2>3 DEF Job, LLMAssumption
  <2>5. j \in Job /\ j.attempt = job.attempt + 1 /\ j.attempts = job.attempts
    BY <2>1, <2>2, <2>7 DEF Job
  <2>6. j.attempt <= j.attempts
    BY <2>1, <2>3, <2>5 DEF Job
  <2> HIDE DEF j
  <2> QED
    BY <1>10, <2>4, <2>5, <2>6, SendType
       DEF Escalate, TypeOK, TokenInv, JobInv, Expired, Registry, Clock, Limiter, Observed
<1>11. CASE Return
  BY <1>11 DEF Return, TypeOK, TokenInv, JobInv, Expired, Registry, Clock, Limiter, Observed,
               Place
<1>12. CASE ClearCache
  <2>1. DOMAIN cache' = {}
    BY <1>12 DEF ClearCache
  <2> QED
    BY <1>12, <2>1
       DEF ClearCache, TypeOK, TokenInv, JobInv, Expired, Registry, Clock, Limiter, Observed
<1>13. CASE Tick
  BY <1>13 DEF Tick, TypeOK, TokenInv, JobInv, Expired, Registry, Limiter, Observed,
               LLMAssumption
<1>14. CASE Midnight
  BY <1>14 DEF Midnight, TypeOK, TokenInv, JobInv, Expired, Registry, Limiter, Observed,
               LLMAssumption
<1>15. CASE UNCHANGED vars
  BY <1>15 DEF vars, TypeOK, TokenInv, JobInv, Expired
<1> QED
  BY <1>1, <1>2, <1>3, <1>4, <1>5, <1>6, <1>7, <1>8, <1>9, <1>10, <1>11, <1>12, <1>13,
     <1>14, <1>15 DEF Next

\* Every variable keeps its type.
THEOREM TypeCorrect ==
    ASSUME LLMAssumption
    PROVE  Spec => []TypeOK
<1>1. Init => TypeInv
  BY TypeInit
<1>2. TypeInv /\ [Next]_vars => TypeInv'
  BY TypeStep
<1>3. TypeInv => TypeOK
  BY DEF TypeInv
<1> QED
  BY <1>1, <1>2, <1>3, PTL DEF Spec

-----------------------------------------------------------------------------
(* What the policy allows                                                  *)

\* The cache keeps an answer under the model that gave it; a job knows who will
\* answer it, and a selected model is a candidate; a second attempt has one.
AllowedInv ==
    /\ \A k \in DOMAIN cache : cache[k] = k[2]
    /\ job # NoJob =>
           /\ job.by = job.model
           /\ job.managed = "yes" =>
                  job.model \in Candidates(job.policy, job.task, job.budget)

\* A later attempt is made by the model chosen after the failures of the one
\* before, until its answer passes.
LadderInv ==
    pc \in {"asking", "returned"} /\ job.attempt > 1 /\ job.failures # {} =>
        job.model = Chosen(job.policy, job.task, job.failures, job.budget)

SelectInv == AllowedInv /\ LadderInv

\* A new job of a request: the facts both kinds of call start with.
LEMMA SentIsAllowed ==
    ASSUME LLMAssumption, TypeOK, AllowedInv, NEW j \in Job, Send(j), UNCHANGED cache,
           j.by = j.model,
           j.managed = "yes" => j.model \in Candidates(j.policy, j.task, j.budget)
    PROVE  AllowedInv'
<1>1. job' = j \/ job' = NoJob
  BY DEF Send
<1> QED
  BY <1>1 DEF AllowedInv, Candidates

LEMMA SelectStep ==
    ASSUME LLMAssumption, TypeInv, SelectInv, [Next]_vars
    PROVE  SelectInv'
<1> USE DEF SelectInv
<1>job. job # NoJob => job \in Job
  BY DEF TypeInv, TypeOK
<1>kept. ASSUME UNCHANGED <<cache, job>>, pc' = pc \/ pc' \notin {"asking", "returned"}
         PROVE  SelectInv'
  <2>1. job' = job /\ cache' = cache
    BY <1>kept
  <2>2. AllowedInv'
    BY <2>1 DEF AllowedInv
  <2>3. LadderInv'
    BY <1>kept, <2>1 DEF LadderInv
  <2> QED
    BY <2>2, <2>3
<1>done. ASSUME UNCHANGED cache, job' = NoJob, pc' = "idle"
         PROVE  SelectInv'
  BY <1>done DEF AllowedInv, LadderInv
<1>1. ASSUME NEW t \in Task, NEW p \in PolicyRef, NEW b \in Budget, Call(t, p, b)
      PROVE  SelectInv'
  <2> DEFINE r == Route(p, t, {}, b)
  <2>1. /\ r.managed \in {"yes", "no"} /\ r.model \in Model
        /\ r.managed = "yes" => r.model \in Candidates(p, t, b)
    BY RouteType DEF TypeInv
  <2>2. /\ job'.policy = p /\ job'.task = t /\ job'.budget = b
        /\ job'.managed = r.managed /\ job'.model = r.model
        /\ job'.by = IF CacheKey(t, r.model) \in DOMAIN cache
                     THEN cache[CacheKey(t, r.model)] ELSE r.model
        /\ job'.attempt = 1
        /\ UNCHANGED cache
    BY <1>1 DEF Call
  <2> HIDE DEF r
  <2>3. job'.by = r.model
    BY <2>2 DEF AllowedInv, CacheKey
  <2> QED
    BY <2>1, <2>2, <2>3 DEF AllowedInv, LadderInv, Candidates
<1>2. ASSUME NEW t \in Task, NEW p \in PolicyRef, NEW b \in Budget,
             NEW n \in 1 .. MaxAttempts, NEW g \in {"on", "off"},
             CallStructured(t, p, b, n, g)
      PROVE  SelectInv'
  <2> DEFINE r == Route(p, t, {}, b)
  <2> DEFINE j == [kind |-> "structured", task |-> t, policy |-> p, budget |-> b,
                   managed |-> r.managed, model |-> r.model, by |-> r.model, day |-> 0,
                   gates |-> IF r.managed = "yes" THEN g ELSE "off",
                   attempts |-> IF r.managed = "yes" THEN n ELSE 1,
                   attempt |-> 1, failures |-> {}]
  <2>1. /\ r.managed \in {"yes", "no"} /\ r.model \in Model
        /\ r.managed = "yes" => r.model \in Candidates(p, t, b)
    BY RouteType DEF TypeInv
  <2>2. Send(j) /\ UNCHANGED cache
    BY <1>2 DEF CallStructured
  <2> HIDE DEF r
  <2>3. j \in Job
    BY <2>1 DEF Job, LLMAssumption
  <2>4. /\ j.by = j.model /\ j.attempt = 1
        /\ j.managed = "yes" => j.model \in Candidates(j.policy, j.task, j.budget)
    BY <2>1
  <2> HIDE DEF j
  <2>5. AllowedInv'
    BY <2>2, <2>3, <2>4, SentIsAllowed DEF TypeInv
  <2>6. LadderInv'
    BY <2>2, <2>3, <2>4, SendType DEF LadderInv
  <2> QED
    BY <2>5, <2>6
<1>3. CASE TakeToken
  BY <1>3, <1>kept DEF TakeToken
<1>4. CASE WaitOrNot
  BY <1>4, <1>kept DEF WaitOrNot
<1>5. CASE Wake
  BY <1>5, <1>kept DEF Wake
<1>6. CASE Charge
  <2>1. job \in Job /\ job # NoJob /\ UNCHANGED cache
    BY <1>6, <1>job DEF Charge, TypeInv, TypeOK
  <2>2. \/ pc' = "idle" /\ job' = NoJob
        \/ pc' = "asking" /\ job' = [job EXCEPT !.day = day]
    BY <1>6 DEF Charge
  <2>3. CASE pc' = "idle" /\ job' = NoJob
    BY <1>done, <2>1, <2>3
  <2>4. CASE pc' = "asking" /\ job' = [job EXCEPT !.day = day]
    <3>1. /\ job'.policy = job.policy /\ job'.task = job.task /\ job'.budget = job.budget
          /\ job'.managed = job.managed /\ job'.model = job.model /\ job'.by = job.by
          /\ job'.attempt = job.attempt /\ job'.failures = job.failures
      BY <2>1, <2>4 DEF Job
    <3>2. job.attempt = 1
      BY <1>6, <2>1 DEF Charge, TypeInv, JobInv
    <3>3. AllowedInv'
      BY <2>1, <3>1 DEF AllowedInv
    <3>4. LadderInv'
      BY <3>1, <3>2 DEF LadderInv
    <3> QED
      BY <3>3, <3>4
  <2> QED
    BY <2>2, <2>3, <2>4
<1>7. CASE Answered
  <2>1. job \in Job /\ job # NoJob /\ pc = "asking"
    BY <1>7, <1>job DEF Answered, TypeInv, TypeOK
  <2>2. pc' = "returned" /\ job' = job
    BY <1>7 DEF Answered
  <2>3. \A k \in DOMAIN cache' : cache'[k] = k[2]
    BY <1>7 DEF Answered, CacheKey, AllowedInv
  <2>4. AllowedInv'
    BY <2>1, <2>2, <2>3 DEF AllowedInv
  <2>5. LadderInv'
    BY <2>1, <2>2 DEF LadderInv
  <2> QED
    BY <2>4, <2>5
<1>8. CASE Raised
  BY <1>8, <1>done DEF Raised
<1>9. ASSUME NEW answer \in {"object", "text", "broken"}, AnsweredStructured(answer)
      PROVE  SelectInv'
  <2>1. job \in Job /\ job # NoJob /\ pc = "asking" /\ UNCHANGED cache
    BY <1>9, <1>job DEF AnsweredStructured, TypeInv, TypeOK
  <2> DEFINE fails == IF job.managed = "yes" /\ job.gates = "on"
                      THEN FailuresOf(job.task, answer) ELSE {}
  <2>2. /\ job' = [job EXCEPT !.failures = IF job.attempt = job.attempts THEN @ ELSE fails]
        /\ pc' = IF fails # {} /\ job.attempt # job.attempts THEN "failed" ELSE "returned"
    BY <1>9 DEF AnsweredStructured
  <2> HIDE DEF fails
  <2>3. /\ job'.policy = job.policy /\ job'.task = job.task /\ job'.budget = job.budget
        /\ job'.managed = job.managed /\ job'.model = job.model /\ job'.by = job.by
        /\ job'.attempt = job.attempt
        /\ job'.failures = IF job.attempt = job.attempts THEN job.failures ELSE fails
    BY <2>1, <2>2 DEF Job
  <2>4. AllowedInv'
    BY <2>1, <2>3 DEF AllowedInv
  <2>5. ASSUME job.attempt = job.attempts PROVE LadderInv'
    BY <2>1, <2>3, <2>5 DEF LadderInv
  <2>6. ASSUME job.attempt # job.attempts PROVE LadderInv'
    BY <2>2, <2>3, <2>6 DEF LadderInv
  <2> QED
    BY <2>4, <2>5, <2>6
<1>10. CASE Escalate
  <2> DEFINE r == Route(job.policy, job.task, job.failures, job.budget)
  <2> DEFINE j == [job EXCEPT !.model = r.model, !.by = r.model, !.attempt = @ + 1]
  <2>1. job \in Job /\ job # NoJob /\ job.managed = "yes"
    BY <1>10, <1>job DEF Escalate, TypeInv, TypeOK, JobInv
  <2>2. Candidates(job.policy, job.task, job.budget) # {}
    BY <2>1 DEF AllowedInv
  <2>3. /\ r.model = Chosen(job.policy, job.task, job.failures, job.budget)
        /\ r.model \in Candidates(job.policy, job.task, job.budget) /\ r.model \in Model
    BY <2>1, <2>2, RouteType DEF TypeInv, Job
  <2>4. Send(j) /\ UNCHANGED cache
    BY <1>10 DEF Escalate
  <2> HIDE DEF r
  <2>5. job.attempt + 1 \in 1 .. MaxAttempts
    BY <1>10, <2>1 DEF Escalate, TypeInv, JobInv, Job, LLMAssumption
  <2>6. /\ j \in Job /\ j.by = j.model /\ j.model = r.model
        /\ j.policy = job.policy /\ j.task = job.task /\ j.budget = job.budget
        /\ j.failures = job.failures
    BY <2>1, <2>3, <2>5 DEF Job
  <2> HIDE DEF j
  <2>7. j.model \in Candidates(j.policy, j.task, j.budget)
    BY <2>3, <2>6
  <2>8. AllowedInv'
    BY <2>4, <2>6, <2>7, SentIsAllowed DEF TypeInv
  <2>9. pc' = "asking" => job' = j
    BY <2>4, <2>6, SendType
  <2>10. pc' # "returned"
    BY <2>4, <2>6, SendType
  <2>11. LadderInv'
    BY <2>3, <2>6, <2>9, <2>10 DEF LadderInv
  <2> QED
    BY <2>8, <2>11
<1>11. CASE Return
  BY <1>11, <1>done DEF Return
<1>12. CASE ClearCache
  <2>1. DOMAIN cache' = {}
    BY <1>12 DEF ClearCache
  <2> QED
    BY <1>12, <2>1 DEF ClearCache, AllowedInv, LadderInv, Candidates, TypeInv, TypeOK
<1>13. CASE Tick
  BY <1>13, <1>kept DEF Tick
<1>14. CASE Midnight
  BY <1>14, <1>kept DEF Midnight
<1>15. CASE UNCHANGED vars
  BY <1>15, <1>kept DEF vars
<1> QED
  BY <1>1, <1>2, <1>3, <1>4, <1>5, <1>6, <1>7, <1>8, <1>9, <1>10, <1>11, <1>12, <1>13,
     <1>14, <1>15 DEF Next

\* In the beginning nothing is kept and nobody is asked.
LEMMA SelectInit == Init => SelectInv
<1> SUFFICES ASSUME Init PROVE SelectInv
  OBVIOUS
<1>1. DOMAIN cache = {} /\ job = NoJob /\ pc = "idle"
  BY DEF Init
<1> QED
  BY <1>1 DEF SelectInv, AllowedInv, LadderInv

\* What a caller gets for a request whose model was selected was given by a
\* model the policy leaves for the task within both cost limits, whether it
\* comes from the cache, from the first attempt or from an escalated one
\* (service.py: call, call_structured; model_selector.py: select).
THEOREM AnswersAllowed ==
    ASSUME LLMAssumption
    PROVE  Spec => []AnswersAreAllowed
<1>1. Init => TypeInv /\ SelectInv
  BY TypeInit, SelectInit
<1>2. TypeInv /\ SelectInv /\ [Next]_vars => TypeInv' /\ SelectInv'
  BY TypeStep, SelectStep
<1>3. TypeInv /\ SelectInv => AnswersAreAllowed
  <2> SUFFICES ASSUME TypeInv, SelectInv, pc = "returned", job.managed = "yes"
               PROVE  job.by \in Candidates(job.policy, job.task, job.budget)
    BY DEF AnswersAreAllowed
  <2>1. job # NoJob
    BY DEF TypeInv, TypeOK
  <2> QED
    BY <2>1 DEF SelectInv, AllowedInv
<1> QED
  BY <1>1, <1>2, <1>3, PTL DEF Spec

\* The model of a step of the ladder that names a failure makes the next
\* attempt whenever the policy lets it (model_selector.py: select).
THEOREM LadderTaken ==
    ASSUME LLMAssumption
    PROVE  Spec => []LadderIsTaken
<1>1. Init => TypeInv /\ SelectInv
  BY TypeInit, SelectInit
<1>2. TypeInv /\ SelectInv /\ [Next]_vars => TypeInv' /\ SelectInv'
  BY TypeStep, SelectStep
<1>3. TypeInv /\ SelectInv => LadderIsTaken
  <2> DEFINE named == Named(job.policy, job.task, job.failures)
  <2> DEFINE next == Policy[job.policy].ladder[job.task][Min(named)].next
  <2> SUFFICES ASSUME TypeInv, SelectInv, pc \in {"asking", "returned"}, job.attempt > 1,
                      named # {}, next \in Candidates(job.policy, job.task, job.budget)
               PROVE  job.model = next
    BY DEF LadderIsTaken
  <2>1. job \in Job
    BY DEF TypeInv, TypeOK
  <2>2. job.failures # {}
    BY DEF Named
  <2>3. job.model = Chosen(job.policy, job.task, job.failures, job.budget)
    BY <2>2 DEF SelectInv, LadderInv
  <2>4. job.task \in Task
    BY <2>1 DEF Job
  <2> QED
    BY <2>3, <2>4, LadderIsChosen
<1> QED
  BY <1>1, <1>2, <1>3, PTL DEF Spec

-----------------------------------------------------------------------------
(* The limit of the day                                                    *)

\* What `call` booked for the day of the last reset is part of daily_cost, and
\* a request that is being answered still fits under the limit.
DayInv ==
    /\ \A d \in 0 .. MaxDay : spent[d] <= MaxCostPerDay
    /\ \A d \in 0 .. MaxDay : d > resetDay => spent[d] = 0
    /\ spent[resetDay] <= daily
    /\ pc = "asking" /\ job.kind = "call" =>
           job.day = resetDay /\ daily + CostOf[job.model] <= MaxCostPerDay

LEMMA DayInit == LLMAssumption /\ Init => DayInv
<1> SUFFICES ASSUME LLMAssumption, Init PROVE DayInv
  OBVIOUS
<1>1. \A d \in 0 .. MaxDay : spent[d] = 0
  BY DEF Init
<1>2. 0 \in 0 .. MaxDay /\ resetDay = 0 /\ daily = 0 /\ pc = "idle"
  BY DEF Init, LLMAssumption
<1> QED
  BY <1>1, <1>2 DEF DayInv, LLMAssumption

LEMMA DayStep ==
    ASSUME LLMAssumption, TypeInv, DayInv, [Next]_vars
    PROVE  DayInv'
<1>kept. ASSUME UNCHANGED <<daily, resetDay, spent>>,
                \/ pc' = "asking" => job'.kind = "structured"
                \/ pc' = pc /\ job' = job
         PROVE  DayInv'
  BY <1>kept DEF DayInv
<1>days. resetDay \in 0 .. MaxDay /\ day \in 0 .. MaxDay /\ resetDay <= day
  BY DEF TypeInv, TypeOK, LLMAssumption
<1>spent. spent \in [0 .. MaxDay -> Nat] /\ daily \in Nat /\ MaxCostPerDay \in Nat
  BY DEF TypeInv, TypeOK, LLMAssumption
<1>1. ASSUME NEW t \in Task, NEW p \in PolicyRef, NEW b \in Budget, Call(t, p, b)
      PROVE  DayInv'
  <2>1. UNCHANGED <<daily, resetDay, spent>> /\ pc' # "asking"
    BY <1>1 DEF Call, Observed
  <2> QED
    BY <2>1, <1>kept
<1>2. ASSUME NEW t \in Task, NEW p \in PolicyRef, NEW b \in Budget,
             NEW n \in 1 .. MaxAttempts, NEW g \in {"on", "off"},
             CallStructured(t, p, b, n, g)
      PROVE  DayInv'
  <2>1. UNCHANGED <<daily, resetDay, spent>>
    BY <1>2 DEF CallStructured, Observed
  <2>2. pc' = "asking" => job'.kind = "structured"
    BY <1>2 DEF CallStructured, Send
  <2> QED
    BY <2>1, <2>2, <1>kept
<1>3. CASE TakeToken
  BY <1>3, <1>kept DEF TakeToken, Observed
<1>4. CASE WaitOrNot
  BY <1>4, <1>kept DEF WaitOrNot, Observed
<1>5. CASE Wake
  BY <1>5, <1>kept DEF Wake, Observed
<1>6. CASE Charge
  <2>1. resetDay' = day /\ daily' = Booked /\ spent' = spent
    BY <1>6 DEF Charge
  <2>2. spent[day] <= Booked
    <3>1. spent[resetDay] <= daily /\ (day > resetDay => spent[day] = 0)
      BY <1>days DEF DayInv
    <3>2. CASE day = resetDay
      BY <3>1, <3>2 DEF Booked
    <3>3. CASE day # resetDay
      <4>1. day > resetDay
        BY <3>3, <1>days
      <4>2. spent[day] = 0 /\ Booked = 0
        BY <3>1, <3>3, <4>1 DEF Booked
      <4> QED
        BY <4>2
    <3> QED
      BY <3>2, <3>3
  <2>3. \A d \in 0 .. MaxDay : d > day => spent[d] = 0
    BY <1>days DEF DayInv
  <2>4. pc' = "asking" =>
            job'.day = day /\ job'.model = job.model /\ Booked + CostOf[job.model] <= MaxCostPerDay
    <3>1. job \in Job
      BY <1>6 DEF Charge, TypeInv, TypeOK
    <3>2. pc' = "asking" => /\ job' = [job EXCEPT !.day = day]
                            /\ Booked + CostOf[job.model] <= MaxCostPerDay
      BY <1>6 DEF Charge
    <3> QED
      BY <3>1, <3>2 DEF Job
  <2>5. pc' = "asking" /\ job'.kind = "call" =>
            job'.day = resetDay' /\ daily' + CostOf[job'.model] <= MaxCostPerDay
    BY <2>1, <2>4
  <2> QED
    BY <2>1, <2>2, <2>3, <2>5 DEF DayInv
<1>7. CASE Answered
  <2>1. job \in Job /\ pc = "asking" /\ job.kind = "call"
    BY <1>7 DEF Answered, TypeInv, TypeOK
  <2>2. CostOf[job.model] \in Nat
    BY <2>1 DEF Job, LLMAssumption
  <2>3. job.day = resetDay /\ daily + CostOf[job.model] <= MaxCostPerDay
    BY <2>1 DEF DayInv
  <2>4. /\ daily' = daily + CostOf[job.model] /\ resetDay' = resetDay /\ pc' = "returned"
        /\ spent' = [spent EXCEPT ![job.day] = @ + CostOf[job.model]]
    BY <1>7 DEF Answered
  <2>5. spent[resetDay] \in Nat /\ spent[resetDay] <= daily
    BY <1>days, <1>spent DEF DayInv
  <2>6. \A d \in 0 .. MaxDay : spent'[d] = IF d = resetDay THEN spent[d] + CostOf[job.model]
                                                            ELSE spent[d]
    BY <2>3, <2>4, <1>spent
  <2>7. spent'[resetDay] <= daily' /\ spent'[resetDay] <= MaxCostPerDay
    BY <2>2, <2>3, <2>4, <2>5, <2>6, <1>days, <1>spent
  <2>8. \A d \in 0 .. MaxDay : spent'[d] <= MaxCostPerDay
    BY <2>6, <2>7 DEF DayInv
  <2>9. \A d \in 0 .. MaxDay : d > resetDay => spent'[d] = 0
    BY <2>6, <1>days DEF DayInv
  <2> QED
    BY <2>4, <2>7, <2>8, <2>9 DEF DayInv
<1>8. CASE Raised
  BY <1>8, <1>kept DEF Raised, Observed
<1>9. ASSUME NEW answer \in {"object", "text", "broken"}, AnsweredStructured(answer)
      PROVE  DayInv'
  <2>1. pc' # "asking" /\ resetDay' = resetDay /\ spent' = spent
    BY <1>9 DEF AnsweredStructured, Observed
  <2>2. job \in Job
    BY <1>9 DEF AnsweredStructured, TypeInv, TypeOK
  <2>3. daily' = daily + CostOf[job.model] /\ CostOf[job.model] \in Nat
    BY <1>9, <2>2 DEF AnsweredStructured, Job, LLMAssumption
  <2>4. spent[resetDay] \in Nat /\ spent[resetDay] <= daily
    BY <1>days, <1>spent DEF DayInv
  <2>5. spent[resetDay] <= daily'
    BY <2>3, <2>4, <1>spent
  <2> QED
    BY <2>1, <2>5 DEF DayInv
<1>10. CASE Escalate
  <2>1. UNCHANGED <<daily, resetDay, spent>>
    BY <1>10 DEF Escalate, Observed
  <2>2. job \in Job /\ job.kind = "structured"
    BY <1>10 DEF Escalate, TypeInv, TypeOK, JobInv
  <2>3. pc' = "asking" => job'.kind = "structured"
    BY <1>10, <2>2 DEF Escalate, Send, Job
  <2> QED
    BY <2>1, <2>3, <1>kept
<1>11. CASE Return
  BY <1>11, <1>kept DEF Return, Observed
<1>12. CASE ClearCache
  BY <1>12, <1>kept DEF ClearCache, Observed
<1>13. CASE Tick
  BY <1>13, <1>kept DEF Tick, Observed
<1>14. CASE Midnight
  BY <1>14, <1>kept DEF Midnight, Observed
<1>15. CASE UNCHANGED vars
  BY <1>15, <1>kept DEF vars, Observed
<1> QED
  BY <1>1, <1>2, <1>3, <1>4, <1>5, <1>6, <1>7, <1>8, <1>9, <1>10, <1>11, <1>12, <1>13,
     <1>14, <1>15 DEF Next

\* What `call` books for the requests it checked on one day stays within
\* max_cost_per_day, wherever midnight falls and whatever call_structured adds
\* to daily_cost (service.py: call, _check_daily_cost_reset).
THEOREM DayBounded ==
    ASSUME LLMAssumption
    PROVE  Spec => []DayHolds
<1>1. Init => TypeInv /\ DayInv
  BY TypeInit, DayInit
<1>2. TypeInv /\ DayInv /\ [Next]_vars => TypeInv' /\ DayInv'
  BY TypeStep, DayStep
<1>3. TypeInv /\ DayInv => DayHolds
  BY DEF TypeInv, TypeOK, DayInv, DayHolds
<1> QED
  BY <1>1, <1>2, <1>3, PTL DEF Spec
-----------------------------------------------------------------------------
(* The rate                                                                *)

\* A token that was taken and has not led to a question yet.
Pending == IF pc = "charging" THEN 1 ELSE 0

\* b questions were asked before the tokens were last refilled: since then not more than tokens
\* were taken, the one that was not there no sooner than a minute later, and a minute before that
\* not more than the limit and one.
RateFrom(b) ==
    /\ b <= Before(asked, refilled + 1)
    /\ asked[Horizon] - b <= MaxPerMinute - tokens - Pending
    /\ Before(asked, refilled + Minute) - b <= MaxPerMinute
    /\ \A i \in 0 .. Horizon : (refilled - Minute < i /\ i <= refilled)
           => b - Before(asked, i) <= MaxPerMinute + 1

\* The count only grows, and says the same from now on.
CountInv ==
    /\ \A i, j \in 0 .. Horizon : i <= j => asked[i] <= asked[j]
    /\ \A i \in 0 .. Horizon : time <= i => asked[i] = asked[Horizon]

RateInv == CountInv /\ RateHolds /\ \E b \in Nat : RateFrom(b)

\* What was asked before a tick.
LEMMA BeforeGrows ==
    ASSUME LLMAssumption, TypeOK, CountInv
    PROVE  /\ \A i \in Nat : Before(asked, i) \in Nat /\ Before(asked, i) <= asked[Horizon]
           /\ \A i, j \in Nat : i <= j => Before(asked, i) <= Before(asked, j)
           /\ \A i \in Nat : time < i => Before(asked, i) = asked[Horizon]
<1>1. Horizon \in Nat /\ time \in 0 .. Horizon /\ asked \in [0 .. Horizon -> Nat]
  BY DEF LLMAssumption, TypeOK
<1>2. \A i \in Nat : \/ i = 0 /\ Before(asked, i) = 0
                     \/ i \in 1 .. Horizon /\ i - 1 \in 0 .. Horizon /\ Before(asked, i) = asked[i - 1]
                     \/ i > Horizon /\ Before(asked, i) = asked[Horizon]
  BY <1>1 DEF Before
<1>3. \A k \in 0 .. Horizon : asked[k] \in Nat /\ asked[k] <= asked[Horizon]
  BY <1>1 DEF CountInv
<1>4. \A i \in Nat : Before(asked, i) \in Nat /\ Before(asked, i) <= asked[Horizon]
  BY <1>1, <1>2, <1>3
<1>5. \A i, j \in Nat : i <= j => Before(asked, i) <= Before(asked, j)
  <2> SUFFICES ASSUME NEW i \in Nat, NEW j \in Nat, i <= j
               PROVE  Before(asked, i) <= Before(asked, j)
    OBVIOUS
  <2>1. CASE i = 0 \/ j > Horizon
    <3>1. CASE i = 0
      <4>1. Before(asked, i) = 0 /\ Before(asked, j) \in Nat
        BY <3>1, <1>4 DEF Before
      <4> QED
        BY <4>1
    <3>2. CASE j > Horizon
      <4>1. Before(asked, j) = asked[Horizon] /\ Before(asked, i) <= asked[Horizon]
        BY <3>2, <1>1, <1>2, <1>4
      <4> QED
        BY <4>1
    <3> QED
      BY <2>1, <3>1, <3>2
  <2>2. CASE i \in 1 .. Horizon /\ j \in 1 .. Horizon
    <3>1. i - 1 \in 0 .. Horizon /\ j - 1 \in 0 .. Horizon /\ i - 1 <= j - 1
      BY <2>2, <1>1
    <3>2. Before(asked, i) = asked[i - 1] /\ Before(asked, j) = asked[j - 1]
      BY <2>2, <1>1, <1>2
    <3> QED
      BY <3>1, <3>2 DEF CountInv
  <2> QED
    BY <2>1, <2>2, <1>1
<1>6. \A i \in Nat : time < i => Before(asked, i) = asked[Horizon]
  <2> SUFFICES ASSUME NEW i \in Nat, time < i PROVE Before(asked, i) = asked[Horizon]
    OBVIOUS
  <2>1. CASE i > Horizon
    BY <2>1, <1>1, <1>2
  <2>2. CASE i \in 1 .. Horizon
    <3>1. i - 1 \in 0 .. Horizon /\ time <= i - 1 /\ Before(asked, i) = asked[i - 1]
      BY <2>2, <1>1, <1>2
    <3> QED
      BY <3>1 DEF CountInv
  <2> QED
    BY <2>1, <2>2, <1>1
<1> QED
  BY <1>4, <1>5, <1>6

LEMMA RateInit == LLMAssumption /\ Init => RateInv
<1> SUFFICES ASSUME LLMAssumption, Init PROVE RateInv
  OBVIOUS
<1>1. Horizon \in Nat /\ Minute \in Nat /\ MaxPerMinute \in Nat
  BY DEF LLMAssumption
<1>2. \A i \in 0 .. Horizon : asked[i] = 0
  BY DEF Init
<1>3. \A i \in Nat : Before(asked, i) = 0
  <2>1. \A i \in Nat : i # 0 => (IF i <= Horizon THEN i - 1 ELSE Horizon) \in 0 .. Horizon
    BY <1>1
  <2> QED
    BY <1>2, <2>1 DEF Before
<1>4. CountInv /\ RateHolds
  <2>1. \A i \in 0 .. Horizon : i + Minute \in Nat /\ i \in Nat
    BY <1>1
  <2> QED
    BY <1>1, <1>2, <1>3, <2>1 DEF CountInv, RateHolds
<1>5. refilled = 0 /\ tokens = MaxPerMinute /\ Pending = 0
  BY DEF Init, Pending
<1>6. RateFrom(0)
  <2>1. refilled + 1 \in Nat /\ refilled + Minute \in Nat /\ Horizon \in 0 .. Horizon
    BY <1>1, <1>5
  <2>2. \A i \in 0 .. Horizon : Before(asked, i) = 0
    BY <1>1, <1>3
  <2> QED
    BY <1>1, <1>2, <1>3, <1>5, <2>1, <2>2 DEF RateFrom
<1> QED
  BY <1>4, <1>6 DEF RateInv

LEMMA RateStep ==
    ASSUME LLMAssumption, TypeInv, RateInv, [Next]_vars
    PROVE  RateInv'
<1>t. /\ Horizon \in Nat /\ Minute \in Nat \ {0} /\ MaxPerMinute \in Nat \ {0}
      /\ time \in 0 .. Horizon /\ refilled \in 0 .. time /\ tokens \in -1 .. MaxPerMinute
      /\ asked \in [0 .. Horizon -> Nat] /\ asked[Horizon] \in Nat
      /\ tokens = -1 => Expired
  BY DEF LLMAssumption, TypeInv, TypeOK, TokenInv
<1>0. PICK b \in Nat : RateFrom(b)
  BY DEF RateInv
<1>g. /\ \A i \in Nat : Before(asked, i) \in Nat /\ Before(asked, i) <= asked[Horizon]
      /\ \A i, j \in Nat : i <= j => Before(asked, i) <= Before(asked, j)
      /\ \A i \in Nat : time < i => Before(asked, i) = asked[Horizon]
  BY BeforeGrows DEF TypeInv, RateInv
<1>p. Pending \in {0, 1} /\ Pending' \in {0, 1}
  BY DEF Pending
\* Nothing is asked and no token is taken.
<1>kept. ASSUME UNCHANGED <<asked, tokens, refilled>>, time' \in {time, time + 1}, Pending' <= Pending
         PROVE  RateInv'
  <2>1. CountInv' /\ RateHolds'
    BY <1>kept, <1>t DEF RateInv, CountInv, RateHolds
  <2>2. RateFrom(b)'
    BY <1>kept, <1>0, <1>t, <1>p DEF RateFrom
  <2> QED
    BY <2>1, <2>2 DEF RateInv
\* A token is taken without a refill.
<1>take. ASSUME UNCHANGED <<asked, refilled, time>>, tokens' = tokens - 1, Pending = 0
         PROVE  RateInv'
  <2>1. CountInv' /\ RateHolds'
    BY <1>take DEF RateInv, CountInv, RateHolds
  <2>2. RateFrom(b)'
    BY <1>take, <1>0, <1>t, <1>p DEF RateFrom
  <2> QED
    BY <2>1, <2>2 DEF RateInv
\* A token is taken after a refill.
<1>fill. ASSUME UNCHANGED <<asked, time>>, tokens' = MaxPerMinute - 1, refilled' = time, Expired
         PROVE  RateInv'
  <2>1. CountInv' /\ RateHolds'
    BY <1>fill DEF RateInv, CountInv, RateHolds
  <2>2. PICK n \in Nat : n = asked[Horizon]
    BY <1>t
  <2>3. n <= Before(asked, time + 1) /\ n - n <= MaxPerMinute - tokens' - Pending'
    BY SMTT(30), <2>2, <1>fill, <1>g, <1>t, <1>p
  <2>4. Before(asked, time + Minute) - n <= MaxPerMinute
    <3>1. time + Minute \in Nat
      BY <1>t
    <3> QED
      BY <2>2, <3>1, <1>g, <1>t
  <2>5. ASSUME NEW i \in 0 .. Horizon, time - Minute < i, i <= time
        PROVE  n - Before(asked, i) <= MaxPerMinute + 1
    <3>1. i > refilled /\ refilled + 1 \in Nat /\ refilled + 1 <= i /\ i \in Nat
      BY <2>5, <1>fill, <1>t DEF Expired
    <3>2. Before(asked, refilled + 1) <= Before(asked, i) /\ Before(asked, i) \in Nat
            /\ Before(asked, refilled + 1) \in Nat
      BY <3>1, <1>g
    <3>3. b <= Before(asked, refilled + 1) /\ n - b <= MaxPerMinute - tokens - Pending
      BY <2>2, <1>0 DEF RateFrom
    <3> QED
      BY <3>2, <3>3, <1>t, <1>p
  <2>6. RateFrom(n)'
    BY <2>2, <2>3, <2>4, <2>5, <1>fill DEF RateFrom
  <2> QED
    BY <2>1, <2>6 DEF RateInv
\* A question is asked.
<1>ask. ASSUME UNCHANGED <<tokens, refilled, time>>, Pending = 1, Pending' = 0,
               asked' = [i \in 0 .. Horizon |-> IF i < time THEN asked[i] ELSE asked[i] + 1]
        PROVE  RateInv'
  <2>1. asked'[Horizon] = asked[Horizon] + 1
    BY <1>ask, <1>t
  <2>2. \A i \in Nat : Before(asked', i) = (IF i <= time THEN Before(asked, i) ELSE Before(asked, i) + 1)
    BY <1>ask, <1>t DEF Before
  <2>3. CountInv'
    <3>1. \A i \in 0 .. Horizon : asked[i] \in Nat
      BY <1>t
    <3> QED
      BY <1>ask, <1>t, <3>1 DEF RateInv, CountInv
  <2>4. PICK n \in Nat : n = asked[Horizon]
    BY <1>t
  <2>5. /\ b <= Before(asked, refilled + 1) /\ n + 1 - b <= MaxPerMinute - tokens
        /\ Before(asked, refilled + Minute) - b <= MaxPerMinute
        /\ \A i \in 0 .. Horizon : (refilled - Minute < i /\ i <= refilled)
               => b - Before(asked, i) <= MaxPerMinute + 1
    BY <2>4, <1>ask, <1>0, <1>t DEF RateFrom
  <2>6. Before(asked', refilled + Minute) - b <= MaxPerMinute
    <3>1. refilled + Minute \in Nat
      BY <1>t
    <3>2. CASE refilled + Minute <= time
      BY <3>1, <3>2, <2>2, <2>5
    <3>3. CASE ~ (refilled + Minute <= time)
      <4>1. tokens >= 0
        BY <3>3, <1>t DEF Expired
      <4>2. Before(asked, refilled + Minute) \in Nat /\ Before(asked, refilled + Minute) <= n
              /\ Before(asked', refilled + Minute) = Before(asked, refilled + Minute) + 1
        BY <3>1, <3>3, <2>2, <2>4, <1>g, <1>t
      <4> QED
        BY <4>1, <4>2, <2>5, <1>t
    <3> QED
      BY <3>2, <3>3
  <2>7. \A i \in 0 .. Horizon : i <= refilled => Before(asked', i) = Before(asked, i)
    BY <2>2, <1>t
  <2>8. b <= Before(asked', refilled + 1)
    <3>1. refilled + 1 \in Nat
      BY <1>t
    <3>2. Before(asked, refilled + 1) \in Nat
      BY <3>1, <1>g
    <3> QED
      BY <3>1, <3>2, <2>2, <2>5
  <2>9. RateFrom(b)'
    <3>1. refilled' = refilled /\ tokens' = tokens /\ Pending' = 0
      BY <1>ask
    <3>2. asked'[Horizon] - b <= MaxPerMinute - tokens - 0
      BY <2>1, <2>4, <2>5, <1>t
    <3>3. \A i \in 0 .. Horizon : (refilled - Minute < i /\ i <= refilled)
             => b - Before(asked', i) <= MaxPerMinute + 1
      BY <2>5, <2>7
    <3> QED
      BY <3>1, <3>2, <3>3, <2>6, <2>8 DEF RateFrom
  <2>10. ASSUME NEW i \in 0 .. Horizon
         PROVE  Before(asked', i + Minute) - Before(asked', i) <= 2 * MaxPerMinute + 1
    <3>1. i \in Nat /\ i + Minute \in Nat /\ i <= i + Minute
      BY <1>t
    <3>2. /\ Before(asked, i) \in Nat /\ Before(asked, i + Minute) \in Nat
          /\ Before(asked, i + Minute) - Before(asked, i) <= 2 * MaxPerMinute + 1
      BY <3>1, <1>g DEF RateInv, RateHolds
    <3>3. CASE i + Minute <= time
      <4>1. i <= time
        BY <3>3, <1>t
      <4> QED
        BY <3>1, <3>2, <3>3, <4>1, <2>2
    <3>4. CASE i > time
      BY <3>1, <3>2, <3>4, <2>2, <1>t
    <3>5. CASE i <= time /\ time < i + Minute
      <4>1. Before(asked', i) = Before(asked, i) /\ Before(asked', i + Minute) = Before(asked, i + Minute) + 1
        BY <3>1, <3>5, <2>2, <1>t
      <4>2. CASE i > refilled
        <5>1. refilled + 1 \in Nat /\ refilled + 1 <= i
          BY <4>2, <1>t
        <5>2. Before(asked, refilled + 1) <= Before(asked, i) /\ Before(asked, refilled + 1) \in Nat
          BY <5>1, <3>1, <1>g
        <5>3. Before(asked, i + Minute) <= n
          BY <3>1, <1>g, <2>4
        <5> QED
          BY <4>1, <5>2, <5>3, <3>2, <2>5, <1>t
      <4>3. CASE i <= refilled
        <5>1. refilled - Minute < i
          BY <3>5, <1>t
        <5>2. b - Before(asked, i) <= MaxPerMinute + 1
          BY <4>3, <5>1, <2>5
        <5>3. refilled + Minute \in Nat /\ i + Minute <= refilled + Minute
          BY <4>3, <1>t
        <5>4. /\ Before(asked, i + Minute) <= Before(asked, refilled + Minute)
              /\ Before(asked, refilled + Minute) \in Nat
          BY <5>3, <3>1, <1>g
        <5>5. Before(asked', refilled + Minute) = Before(asked, refilled + Minute) + 1
          BY <5>3, <3>5, <2>2, <1>t
        <5> QED
          BY SMTT(30), <4>1, <5>2, <5>4, <5>5, <3>2, <2>6, <1>t
      <4> QED
        BY <4>2, <4>3, <1>t
    <3> QED
      BY <3>3, <3>4, <3>5, <1>t
  <2>11. RateHolds'
    BY <2>10, <1>ask DEF RateHolds
  <2> QED
    BY <2>3, <2>9, <2>11 DEF RateInv
<1>1. ASSUME NEW t \in Task, NEW p \in PolicyRef, NEW c \in Budget, Call(t, p, c) PROVE RateInv'
  BY <1>1, <1>kept DEF Call, Clock, Limiter, Observed, Pending
<1>2. ASSUME NEW t \in Task, NEW p \in PolicyRef, NEW c \in Budget, NEW n \in 1 .. MaxAttempts,
             NEW g \in {"on", "off"}, CallStructured(t, p, c, n, g)
      PROVE  RateInv'
  BY <1>2, <1>kept DEF CallStructured, Send, Clock, Limiter, Observed, Pending
<1>3. CASE TakeToken
  <2>1. UNCHANGED <<asked, time>> /\ Pending = 0
    BY <1>3 DEF TakeToken, Clock, Observed, Pending
  <2>2. CASE Expired
    BY <1>3, <2>1, <2>2, <1>t, <1>fill DEF TakeToken
  <2>3. CASE ~Expired /\ tokens > 0
    BY <1>3, <2>1, <2>3, <1>take DEF TakeToken
  <2>4. CASE ~Expired /\ ~(tokens > 0)
    BY <1>3, <2>1, <2>4, <1>kept DEF TakeToken, Pending
  <2> QED
    BY <2>2, <2>3, <2>4
<1>4. CASE WaitOrNot
  <2>1. UNCHANGED <<asked, time, refilled>> /\ Pending = 0
    BY <1>4 DEF WaitOrNot, Clock, Observed, Pending
  <2>2. CASE Expired
    BY <1>4, <2>1, <2>2, <1>take DEF WaitOrNot
  <2>3. CASE ~Expired
    BY <1>4, <2>1, <2>3, <1>kept DEF WaitOrNot, Pending
  <2> QED
    BY <2>2, <2>3
<1>5. CASE Wake
  BY <1>5, <1>fill DEF Wake, Clock, Observed
<1>6. CASE Charge
  <2>1. UNCHANGED <<tokens, refilled, time>> /\ Pending = 1 /\ Pending' = 0
    BY <1>6 DEF Charge, Clock, Limiter, Pending
  <2>2. CASE UNCHANGED asked
    BY <2>1, <2>2, <1>kept
  <2>3. CASE asked' = [i \in 0 .. Horizon |-> IF i < time THEN asked[i] ELSE asked[i] + 1]
    BY <2>1, <2>3, <1>ask
  <2>4. UNCHANGED asked \/ asked' = [i \in 0 .. Horizon |-> IF i < time THEN asked[i] ELSE asked[i] + 1]
    BY <1>6 DEF Charge
  <2> QED
    BY <2>2, <2>3, <2>4
<1>7. CASE Answered
  BY <1>7, <1>kept DEF Answered, Clock, Limiter, Pending
<1>8. CASE Raised
  BY <1>8, <1>kept DEF Raised, Clock, Limiter, Observed, Pending
<1>9. ASSUME NEW answer \in {"object", "text", "broken"}, AnsweredStructured(answer) PROVE RateInv'
  BY <1>9, <1>kept DEF AnsweredStructured, Clock, Limiter, Observed, Pending
<1>10. CASE Escalate
  BY <1>10, <1>kept DEF Escalate, Send, Clock, Limiter, Observed, Pending
<1>11. CASE Return
  BY <1>11, <1>kept DEF Return, Clock, Limiter, Observed, Pending
<1>12. CASE ClearCache
  BY <1>12, <1>kept DEF ClearCache, Clock, Limiter, Observed, Pending
<1>13. CASE Tick
  BY <1>13, <1>kept DEF Tick, Limiter, Observed, Pending
<1>14. CASE Midnight
  BY <1>14, <1>kept DEF Midnight, Limiter, Observed, Pending
<1>15. CASE UNCHANGED vars
  BY <1>15, <1>kept DEF vars, Pending
<1> QED
  BY <1>1, <1>2, <1>3, <1>4, <1>5, <1>6, <1>7, <1>8, <1>9, <1>10, <1>11, <1>12, <1>13,
     <1>14, <1>15 DEF Next

\* In any minute `call` asks providers at most twice the limit and once more, wherever the clock
\* stands when a token is taken, found missing or waited for (service.py: RateLimiter).
THEOREM RateBounded ==
    ASSUME LLMAssumption
    PROVE  Spec => []RateHolds
<1>1. Init => TypeInv /\ RateInv
  BY TypeInit, RateInit
<1>2. TypeInv /\ RateInv /\ [Next]_vars => TypeInv' /\ RateInv'
  BY TypeStep, RateStep
<1>3. RateInv => RateHolds
  BY DEF RateInv
<1> QED
  BY <1>1, <1>2, <1>3, PTL DEF Spec

=============================================================================
