------------------------------- MODULE Fermi -------------------------------
(***************************************************************************)
(* Fermi trees of cmis_v2 (engines/estimation.py): a tree is built leaf by *)
(* leaf, a subtree is a tree of its own that its parent names, and a tree  *)
(* is evaluated twice over, by interval arithmetic and by sampling the     *)
(* distributions of engines/distribution.py.                               *)
(*                                                                         *)
(* The trees live in the memory of the process: nothing reads back the     *)
(* copies it writes.                                                       *)
(***************************************************************************)
EXTENDS Intervals, Sequences, FiniteSets

CONSTANTS Variable,
          Hint,       \* the family a registered metric asks for, or Absent
          Limits,     \* the bounds of a variable, or Absent
          Operation,
          LeafRange,  \* the ranges of the leaves
          MaxTrees, MaxChildren,
          Far,        \* a value in the tail of a lognormal
          Error, Infinity, Absent

\* What the theorems assume: the operations that the tools describe, and numbers.
FermiAssumption ==
    /\ Operation \subseteq {"multiply", "add", "subtract", "divide"}
    /\ LeafRange \subseteq Interval /\ Far \in Int /\ Infinity \notin Int
    /\ \A v \in Variable : Limits[v] = Absent \/ (Limits[v].lo \in Int /\ Limits[v].hi \in Int)
    /\ MaxTrees \in Nat /\ MaxChildren \in Nat

VARIABLES trees,    \* _FERMI_STORE
          fitted,   \* per variable, the distribution that _ESTIMATION_STORE holds
          answer    \* what the last evaluation returned

vars == <<trees, fitted, answer>>

Tree == DOMAIN trees
Subtrees(t) == {trees[t].children[i].id : i \in {j \in DOMAIN trees[t].children :
                                                  trees[t].children[j].type = "subtree"}}

Leaf == [type : {"leaf"}, var : Variable, iv : LeafRange]

-----------------------------------------------------------------------------
(***************************************************************************)
(* Distributions.                                                          *)
(***************************************************************************)
Fitted(kind, iv) == [kind |-> kind, iv |-> iv]

\* The families a fit may end in: too narrow a range, a range that a lognormal cannot take, and a
\* search over random samples that finds no beta all end in the uniform one.
FitKinds(kind, iv, limits) ==
    CASE iv.lo = iv.hi -> {"uniform"}
      [] kind = "lognormal" /\ iv.lo < iv.hi -> IF iv.lo <= 0 THEN {"uniform"} ELSE {"lognormal"}
      [] kind = "beta" /\ iv.lo < iv.hi ->
            IF limits # Absent /\ limits.hi <= limits.lo THEN {"uniform"} ELSE {"beta", "uniform"}
      [] OTHER -> {"uniform"}

\* What a fit leaves for a variable: nothing for one that is not registered.
Fits(v, iv) ==
    IF Hint[v] = Absent THEN {Absent}
    ELSE {Fitted(k, iv) : k \in FitKinds(Hint[v], iv, Limits[v])}

\* Values that a sample may take: the ends of a uniform, those of the bounds of a beta, which are
\* 0 and 1 when the metric has none, and any positive value for a lognormal.
Support(dist, limits) ==
    CASE dist.kind = "uniform" -> {dist.iv.lo, dist.iv.hi}
      [] dist.kind = "beta" -> IF limits = Absent THEN {0, 1} ELSE {limits.lo, limits.hi}
      [] dist.kind = "lognormal" -> {1, Far}

\* A leaf is sampled from the distribution of the variable it names, if the store has one.
LeafSamples(leaf) ==
    IF fitted[leaf.var] = Absent THEN {leaf.iv.lo, leaf.iv.hi}
    ELSE Support(fitted[leaf.var], Limits[leaf.var])

-----------------------------------------------------------------------------
(***************************************************************************)
(* Evaluation.  A subtree is always younger than its parent, so recursion  *)
(* goes up in tree numbers.                                                *)
(***************************************************************************)
\* Error where the code raises: a tree without children, a divisor that holds zero.
Combine(op, a, b) ==
    IF Error \in {a, b} THEN Error
    ELSE CASE op = "multiply" -> Times(a, b)
           [] op = "add" -> Plus(a, b)
           [] op = "subtract" -> Less(a, b)
           [] op = "divide" -> IF HoldsZero(b) THEN Error ELSE Over(a, b)

\* One after another, from the first.
Combined(op, kids) ==
    LET acc[i \in DOMAIN kids] == IF i = 1 THEN kids[1] ELSE Combine(op, acc[i - 1], kids[i])
    IN  acc[Len(kids)]

\* The ranges of the children of t, by those of the trees.
KidRanges(t, value) ==
    [i \in DOMAIN trees[t].children |->
        IF trees[t].children[i].type = "leaf" THEN trees[t].children[i].iv
        ELSE value[trees[t].children[i].id]]

NodeValue ==
    LET value[t \in Tree] == IF trees[t].children = <<>> THEN Error
                             ELSE Combined(trees[t].op, KidRanges(t, value))
    IN  value

Total(numbers) ==
    LET sum[i \in 0 .. Len(numbers)] == IF i = 0 THEN 0 ELSE sum[i - 1] + numbers[i]
    IN  sum[Len(numbers)]

KidCounts(t, marked, count) ==
    [i \in DOMAIN trees[t].children |->
        IF trees[t].children[i].type = "leaf"
        THEN IF trees[t].children[i] \in marked THEN 1 ELSE 0
        ELSE count[trees[t].children[i].id]]

\* How many of the leaves below a tree are among the marked ones.
CountOf(marked) ==
    LET count[t \in Tree] == Total(KidCounts(t, marked, count))
    IN  count

Leaves(t) == CountOf(Leaf)[t]
UniformLeaves(t) == CountOf({leaf \in Leaf : fitted[leaf.var] = Absent})[t]

\* One element of the sample lists combined; dividing by zero gives infinity.
SampleOp(op, x, y) ==
    IF Infinity \in {x, y} THEN Infinity
    ELSE CASE op = "multiply" -> x * y
           [] op = "add" -> x + y
           [] op = "subtract" -> x - y
           [] op = "divide" -> IF y = 0 THEN Infinity ELSE Div(x, y)

ApplySamples(op, A, B) == {SampleOp(op, x, y) : x \in A, y \in B}

SamplesCombined(op, kids) ==
    LET acc[i \in DOMAIN kids] == IF i = 1 THEN kids[1] ELSE ApplySamples(op, acc[i - 1], kids[i])
    IN  acc[Len(kids)]

KidSamples(t, sample) ==
    [i \in DOMAIN trees[t].children |->
        IF trees[t].children[i].type = "leaf" THEN LeafSamples(trees[t].children[i])
        ELSE sample[trees[t].children[i].id]]

\* The values that one Monte Carlo sample of a tree may have.
Samples ==
    LET sample[t \in Tree] == IF trees[t].children = <<>> THEN {}
                              ELSE SamplesCombined(trees[t].op, KidSamples(t, sample))
    IN  sample

-----------------------------------------------------------------------------
Init ==
    /\ trees = <<>>
    /\ fitted = [v \in Variable |-> Absent]
    /\ answer = Absent

NewTree(op) == [op |-> op, children |-> <<>>, evaluated |-> FALSE, result |-> Absent]

CreateTree(op) ==
    /\ Len(trees) < MaxTrees
    /\ trees' = Append(trees, NewTree(op))
    /\ UNCHANGED <<fitted, answer>>

\* Mutant: the tree keeps its mark.
WithChildKept(t, child) == [trees EXCEPT ![t].children = Append(@, child)]

WithChild(t, child) == [trees EXCEPT ![t].children = Append(@, child), ![t].evaluated = FALSE]

AddLeaf(t, v, iv) ==
    /\ Len(trees[t].children) < MaxChildren
    /\ trees' = WithChild(t, [type |-> "leaf", var |-> v, iv |-> iv])
    /\ UNCHANGED <<fitted, answer>>

AddSubtree(t, op) ==
    /\ Len(trees[t].children) < MaxChildren
    /\ Len(trees) < MaxTrees
    /\ trees' = Append(WithChild(t, [type |-> "subtree", id |-> Len(trees) + 1]), NewTree(op))
    /\ UNCHANGED <<fitted, answer>>

Below(t) ==
    LET below[s \in Tree] == Subtrees(s) \union UNION {below[u] : u \in Subtrees(s)}
    IN  below[t]

HasCycle(t) == \E s \in {t} \union Below(t) : s \in Below(s)

\* What evaluate_fermi_tree returns: the range, the samples and how many leaves were uniform.
Answer(t) ==
    [tree |-> t, result |-> NodeValue[t], samples |-> Samples[t],
     uniform |-> UniformLeaves(t), leaves |-> Leaves(t)]

EvaluateTree(t) ==
    IF trees[t].children = <<>> \/ HasCycle(t) \/ NodeValue[t] = Error
    THEN /\ answer' = Absent
         /\ UNCHANGED <<trees, fitted>>
    ELSE /\ answer' = Answer(t)
         /\ trees' = [trees EXCEPT ![t].evaluated = TRUE, ![t].result = NodeValue[t]]
         /\ UNCHANGED fitted

\* An estimate of a variable is made, with its distribution.
Estimated(v, iv) ==
    /\ \E d \in Fits(v, iv) : fitted' = [fitted EXCEPT ![v] = d]
    /\ UNCHANGED <<trees, answer>>

Next ==
    \/ \E op \in Operation : CreateTree(op)
    \/ \E t \in Tree :
        \/ \E v \in Variable, iv \in LeafRange : AddLeaf(t, v, iv)
        \/ \E op \in Operation : AddSubtree(t, op)
        \/ EvaluateTree(t)
    \/ \E v \in Variable, iv \in LeafRange : Estimated(v, iv)

Spec == Init /\ [][Next]_vars

-----------------------------------------------------------------------------
(***************************************************************************)
(* Properties.                                                             *)
(***************************************************************************)
TypeOK ==
    /\ Len(trees) <= MaxTrees
    /\ \A t \in Tree : Len(trees[t].children) <= MaxChildren /\ \A s \in Subtrees(t) : s \in Tree
    /\ \A v \in Variable : fitted[v] = Absent \/ fitted[v].kind \in {"uniform", "beta", "lognormal"}

\* An evaluation's two computations agree as far as they can: if every leaf was sampled from its
\* own range, each sample lies in the range that interval arithmetic returned.
SamplesWithin ==
    answer # Absent /\ answer.uniform = answer.leaves
        => \A x \in answer.samples : x # Infinity /\ Holds(answer.result, x)

\* A tree that is marked evaluated holds what its children give now, unless a subtree below it
\* grew: add_fermi_leaf resets the mark of the tree it grows and of no tree above it.
StaleOnlyThroughSubtrees ==
    \A t \in Tree :
        trees[t].evaluated /\ trees[t].result # NodeValue[t] => Subtrees(t) # {}

\* The two together: what an evaluation answers, and how long what it stores stays true.
FermiIsSound == SamplesWithin /\ StaleOnlyThroughSubtrees
=============================================================================
