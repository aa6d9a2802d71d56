----------------------------- MODULE StoreProofs -----------------------------
(***************************************************************************)
(* Theorems about what is stored, for any number of clients, packs and     *)
(* contents: the versions of packs and what is served from them (Packs),   *)
(* the artifacts with their rows, references and backups (Artifacts), the  *)
(* beliefs with their files and caches (Beliefs), what older versions left *)
(* under an old key (Legacy), a project's move to a new ontology           *)
(* (Migration) and the contexts that outcomes update (Feedback).  Each has *)
(* its invariant and its theorems; at the end are those of all together.   *)
(***************************************************************************)
EXTENDS Stores, FiniteSetTheorems, WellFoundedInduction, TLAPS

-----------------------------------------------------------------------------
(* Numbers                                                                 *)

\* Every set of numbers that is not empty has a least one.
LEMMA LeastNumber ==
    ASSUME NEW T, T \subseteq Nat, T # {}
    PROVE  \E x \in T : \A y \in T : x <= y
<1>1. IsWellFoundedOn(OpToRel(<, Nat), Nat)
  BY NatLessThanWellFounded, Zenon
<1>2. PICK x \in T : \A y \in T : ~ (<<y, x>> \in OpToRel(<, Nat))
  BY <1>1, WFMin, Zenon
<1>3. \A y \in T : ~ (y < x)
  BY <1>2 DEF OpToRel
<1>4. x \in T
  BY <1>2
<1>5. QED
  BY <1>3, <1>4

\* A set that holds 0, and with a number the next, holds every natural number.
LEMMA CountingUp ==
    ASSUME NEW S, 0 \in S, \A n \in Nat : n \in S => n + 1 \in S
    PROVE  Nat \subseteq S
<1> DEFINE out == Nat \ S
<1>1. SUFFICES ASSUME out # {} PROVE FALSE
  OBVIOUS
<1>2. IsWellFoundedOn(OpToRel(<, Nat), Nat)
  BY NatLessThanWellFounded, Zenon
<1>3. PICK least \in out : \A y \in out : ~ (<<y, least>> \in OpToRel(<, Nat))
  <2>1. out \subseteq Nat
    OBVIOUS
  <2> HIDE DEF out
  <2> QED BY <1>1, <1>2, <2>1, WFMin, Zenon
<1>4. least # 0 /\ least - 1 \in Nat
  OBVIOUS
<1>5. least - 1 \in S
  <2>1. \A y \in out : ~ (y < least)
    BY <1>3 DEF OpToRel
  <2> QED BY <1>4, <2>1
<1>6. (least - 1) + 1 \in S
  BY <1>4, <1>5
<1> QED BY <1>4, <1>6

\* The states g of n steps, of which step i is f[i].
Trace(g, S, base, n, f) ==
    g \in [0 .. n -> S] /\ g[0] = base /\ \A i \in 1 .. n : g[i] = f[i][g[i - 1]]

\* A step that stays within S can be taken n times.
LEMMA StepsExist ==
    ASSUME NEW S, NEW base \in S, NEW n \in Nat, NEW f \in [1 .. n -> [S -> S]]
    PROVE  \E g : Trace(g, S, base, n, f)
<1> DEFINE Good(m, g) == g[0] = base /\ \A i \in 1 .. m : g[i] = f[i][g[i - 1]]
           Taken == {m \in Nat : m <= n => \E g \in [0 .. m -> S] : Good(m, g)}
<1>1. 0 \in Taken
  <2> DEFINE h == [i \in 0 .. 0 |-> base]
  <2>1. h \in [0 .. 0 -> S] /\ Good(0, h)
    OBVIOUS
  <2> HIDE DEF Good
  <2> QED
    BY <2>1
<1>2. ASSUME NEW k \in Nat, k \in Taken PROVE k + 1 \in Taken
  <2>1. SUFFICES ASSUME k + 1 <= n PROVE \E h \in [0 .. k + 1 -> S] : Good(k + 1, h)
    <3> HIDE DEF Good
    <3> QED
      OBVIOUS
  <2>2. PICK g \in [0 .. k -> S] : Good(k, g)
    <3> HIDE DEF Good
    <3> QED
      BY <1>2, <2>1
  <2> DEFINE h == [i \in 0 .. k + 1 |-> IF i = k + 1 THEN f[k + 1][g[k]] ELSE g[i]]
  <2>3. g[k] \in S /\ k + 1 \in 1 .. n
    BY <2>1, <2>2
  <2>4. h \in [0 .. k + 1 -> S]
    <3>1. f[k + 1][g[k]] \in S
      BY <2>3
    <3>2. \A i \in 0 .. k + 1 : i # k + 1 => i \in 0 .. k
      OBVIOUS
    <3> QED
      BY <2>2, <3>1, <3>2
  <2>5. h[0] = base
    BY <2>2
  <2>6. ASSUME NEW i \in 1 .. k + 1 PROVE h[i] = f[i][h[i - 1]]
    <3>1. i - 1 \in 0 .. k + 1 /\ i - 1 # k + 1 /\ i \in 0 .. k + 1
      OBVIOUS
    <3>2. h[i - 1] = g[i - 1]
      BY <3>1
    <3>3. CASE i = k + 1
      BY <3>1, <3>2, <3>3
    <3>4. CASE i # k + 1
      <4>1. i \in 1 .. k
        BY <3>4
      <4>2. g[i] = f[i][g[i - 1]]
        BY <2>2, <4>1
      <4>3. h[i] = g[i]
        BY <3>1, <3>4
      <4> QED
        BY <3>2, <4>2, <4>3
    <3> QED
      BY <3>3, <3>4
  <2> QED
    BY <2>4, <2>5, <2>6
<1>3. Nat \subseteq Taken
  <2> HIDE DEF Taken
  <2> QED
    BY <1>1, <1>2, CountingUp
<1>4. PICK g \in [0 .. n -> S] : Good(n, g)
  <2>1. n \in Taken
    <3> HIDE DEF Taken
    <3> QED
      BY <1>3
  <2> HIDE DEF Good
  <2> QED
    BY <2>1
<1> QED
  BY <1>4 DEF Trace

\* The bounds of a set of numbers below n, of which the least is its largest member.
Bounds(T) == {b \in Nat : \A x \in T : x <= b}

\* Every set of numbers that is not empty and has a bound has a largest one.
LEMMA LargestNumber ==
    ASSUME NEW T, T \subseteq Nat, T # {}, NEW n \in Nat, \A x \in T : x <= n
    PROVE  \E x \in T : \A y \in T : y <= x
<1>1. n \in Bounds(T) /\ Bounds(T) \subseteq Nat
  BY DEF Bounds
<1>2. PICK b \in Bounds(T) : \A c \in Bounds(T) : b <= c
  BY <1>1, LeastNumber
<1>3. CASE b \in T
  BY <1>3, <1>2 DEF Bounds
<1>4. CASE b \notin T
  <2>1. \A x \in T : x \in Nat /\ x <= b /\ x # b
    BY <1>2, <1>4 DEF Bounds
  <2>2. PICK x \in T : TRUE
    OBVIOUS
  <2>3. b \in Nat /\ b > 0
    BY <1>2, <2>1, <2>2 DEF Bounds
  <2>4. b - 1 \in Bounds(T)
    BY <2>1, <2>3 DEF Bounds
  <2>5. QED
    BY <1>2, <2>3, <2>4
<1>5. QED
  BY <1>3, <1>4

\* Max of such a set is its largest member.
LEMMA MaxIsLargest ==
    ASSUME NEW T, T \subseteq Nat, T # {}, NEW n \in Nat, \A x \in T : x <= n
    PROVE  P!Max(T) \in T /\ \A y \in T : y <= P!Max(T)
<1>1. \E x \in T : \A y \in T : x >= y
  BY LargestNumber
<1>2. P!Max(T) \in T /\ \A y \in T : P!Max(T) >= y
  BY <1>1 DEF P!Max
<1>3. QED
  BY <1>2

-----------------------------------------------------------------------------
(* Packs: what holds of the tables                                         *)

PackTables == UNION {[K -> PackSpec] : K \in SUBSET (Pack \X (1 .. MaxVersions))}

\* The versions of a pack begin with 1 and have no gap.
Dense(packs) == \A p \in Pack : \A v, u \in 1 .. MaxVersions :
    <<p, v>> \in DOMAIN packs /\ u <= v => <<p, u>> \in DOMAIN packs

\* The packs g have the versions of f, and these say the same.
Extends(f, g) == DOMAIN f \subseteq DOMAIN g /\ \A k \in DOMAIN f : g[k] = f[k]

\* A row waiting to be inserted follows versions that its client has seen.
Follows(entry, packs) ==
    /\ entry.spec \in PackSpec
    /\ \E p \in Pack, v \in 1 .. MaxVersions :
        entry.key = <<p, v>> /\ \A u \in 1 .. v - 1 : <<p, u>> \in DOMAIN packs

TablesOK ==
    /\ tables \in [packs : PackTables, bundles : SUBSET Bundle]
    /\ saved \in [packs : PackTables, bundles : SUBSET Bundle]
    /\ writer \in Client \cup {Absent}
    /\ writer = Absent => saved = tables
    /\ Extends(saved.packs, tables.packs) /\ saved.bundles \subseteq tables.bundles
    /\ Dense(tables.packs) /\ Dense(saved.packs)

HeldOK ==
    /\ DOMAIN held = Client
    /\ \A c \in Client : held[c] # Absent => Follows(held[c], P!Seen(c).packs)

PackInv == TablesOK /\ HeldOK

\* The latest version of a pack, if it has one.
LEMMA LatestVersion ==
    ASSUME P!PackAssumption, NEW t, t.packs \in PackTables, NEW p
    PROVE  \/ P!LastVersion(t, p) = 0 /\ \A v : <<p, v>> \notin DOMAIN t.packs
           \/ /\ P!LastVersion(t, p) \in 1 .. MaxVersions
              /\ <<p, P!LastVersion(t, p)>> \in DOMAIN t.packs
<1> DEFINE T == {0} \cup {k[2] : k \in {k \in DOMAIN t.packs : k[1] = p}}
<1>1. MaxVersions \in Nat
  BY DEF P!PackAssumption
<1>2. DOMAIN t.packs \subseteq Pack \X (1 .. MaxVersions)
  BY DEF PackTables
<1>3. T \subseteq Nat /\ T # {} /\ \A x \in T : x <= MaxVersions
  BY <1>1, <1>2
<1>4. P!Max(T) \in T /\ \A y \in T : y <= P!Max(T)
  BY <1>1, <1>3, MaxIsLargest
<1>5. P!LastVersion(t, p) = P!Max(T)
  BY DEF P!LastVersion
<1>6. CASE P!Max(T) = 0
  <2>1. \A v : <<p, v>> \in DOMAIN t.packs => v \in T /\ v >= 1
    BY <1>2, <1>1
  <2>2. QED
    BY <2>1, <1>3, <1>4, <1>5, <1>6
<1>7. CASE P!Max(T) # 0
  <2>1. PICK k \in DOMAIN t.packs : k[1] = p /\ k[2] = P!Max(T)
    BY <1>4, <1>7
  <2>2. k = <<p, P!Max(T)>> /\ P!Max(T) \in 1 .. MaxVersions
    BY <2>1, <1>2
  <2>3. QED
    BY <2>1, <2>2, <1>5
<1>8. QED
  BY <1>6, <1>7

\* An insert adds a version that follows those before it and changes none.
LEMMA InsertedRow ==
    ASSUME P!PackAssumption, NEW packs \in PackTables, Dense(packs), NEW entry, Follows(entry, packs)
    PROVE  LET new == P!WithRow(packs, entry.key, entry.spec)
           IN  new \in PackTables /\ Dense(new) /\ Extends(packs, new)
<1> DEFINE new == P!WithRow(packs, entry.key, entry.spec)
<1>1. PICK p \in Pack, v \in 1 .. MaxVersions :
          entry.key = <<p, v>> /\ \A u \in 1 .. v - 1 : <<p, u>> \in DOMAIN packs
  BY DEF Follows
<1>2. DOMAIN packs \subseteq Pack \X (1 .. MaxVersions) /\ \A k \in DOMAIN packs : packs[k] \in PackSpec
  BY DEF PackTables
<1>3. DOMAIN new = DOMAIN packs \cup {entry.key}
  BY DEF P!WithRow
<1>4. \A k \in DOMAIN new : new[k] = IF k \in DOMAIN packs THEN packs[k] ELSE entry.spec
  BY DEF P!WithRow
<1>5. new \in PackTables
  <2>1. DOMAIN new \in SUBSET (Pack \X (1 .. MaxVersions))
    BY <1>1, <1>2, <1>3
  <2>2. new \in [DOMAIN new -> PackSpec]
    <3>1. \A k \in DOMAIN new : new[k] \in PackSpec
      BY <1>2, <1>4 DEF Follows
    <3>2. new = [k \in DOMAIN new |-> new[k]]
      BY DEF P!WithRow
    <3>3. QED
      BY <3>1, <3>2
  <2>3. QED
    BY <2>1, <2>2 DEF PackTables
<1>6. Extends(packs, new)
  BY <1>3, <1>4 DEF Extends
<1>7. Dense(new)
  <2> SUFFICES ASSUME NEW q \in Pack, NEW w \in 1 .. MaxVersions, NEW u \in 1 .. MaxVersions,
                      <<q, w>> \in DOMAIN new, u <= w
               PROVE  <<q, u>> \in DOMAIN new
    BY DEF Dense
  <2>1. CASE <<q, w>> \in DOMAIN packs
    BY <2>1, <1>3 DEF Dense
  <2>2. CASE <<q, w>> = entry.key
    <3>1. q = p /\ w = v
      BY <2>2, <1>1
    <3>2. MaxVersions \in Nat
      BY DEF P!PackAssumption
    <3>3. u = v \/ u \in 1 .. v - 1
      BY <3>1, <3>2
    <3>4. QED
      BY <3>1, <3>3, <1>1, <1>3
  <2>3. QED
    BY <2>1, <2>2, <1>3
<1>8. QED
  BY <1>5, <1>6, <1>7

\* Rows that follow what a client has seen follow it also when it sees more.
LEMMA FollowsMore ==
    ASSUME NEW entry, NEW f, NEW g, Follows(entry, f), DOMAIN f \subseteq DOMAIN g
    PROVE  Follows(entry, g)
  BY DEF Follows

LEMMA ExtendsItself == \A f : Extends(f, f)
  BY DEF Extends

-----------------------------------------------------------------------------
(* Packs: every step keeps the tables in order                             *)

\* What every step does to what is committed.
Grows == Extends(saved.packs, saved'.packs) /\ saved.bundles \subseteq saved'.bundles

LEMMA StartStep ==
    ASSUME P!PackAssumption, PackInv, NEW c \in Client, NEW p \in Pack, NEW s \in PackSpec,
           P!Create(c, p, s) \/ P!AppendVersion(c, p, s)
    PROVE  PackInv' /\ Grows
<1>1. PICK v \in 1 .. MaxVersions :
          /\ P!Start(c, p, s, v)
          /\ \A u \in 1 .. v - 1 : <<p, u>> \in DOMAIN P!Seen(c).packs
  <2>1. MaxVersions \in Nat
    BY DEF P!PackAssumption
  <2>2. CASE P!Create(c, p, s)
    <3>1. P!Start(c, p, s, 1) /\ 1 \in 1 .. MaxVersions
      BY <2>1, <2>2 DEF P!Create, P!Start
    <3>2. QED
      BY <3>1
  <2>3. CASE P!AppendVersion(c, p, s)
    <3> DEFINE t == P!Seen(c)
               v == P!LastVersion(t, p) + 1
    <3>1. t.packs \in PackTables /\ Dense(t.packs)
      BY DEF PackInv, TablesOK, P!Seen
    <3>2. P!Start(c, p, s, v) /\ v <= MaxVersions
      BY <2>3 DEF P!AppendVersion, P!Start
    <3> HIDE DEF t
    <3>3. CASE P!LastVersion(t, p) = 0
      BY <2>1, <3>2, <3>3 DEF t
    <3>4. CASE P!LastVersion(t, p) # 0
      <4>1. P!LastVersion(t, p) \in 1 .. MaxVersions /\ <<p, P!LastVersion(t, p)>> \in DOMAIN t.packs
        BY <3>1, <3>4, LatestVersion
      <4>2. v \in 1 .. MaxVersions /\ v - 1 = P!LastVersion(t, p)
        BY <4>1, <3>2, <2>1
      <4>3. \A u \in 1 .. v - 1 : u \in 1 .. MaxVersions /\ u <= P!LastVersion(t, p)
        BY <4>1, <4>2, <2>1
      <4>4. \A u \in 1 .. v - 1 : <<p, u>> \in DOMAIN t.packs
        BY <4>1, <4>3, <3>1 DEF Dense
      <4>5. QED
        BY <4>2, <4>4, <3>2 DEF t
    <3>5. QED
      BY <3>3, <3>4
  <2>4. QED
    BY <2>2, <2>3
<1> DEFINE entry == [key |-> <<p, v>>, spec |-> s]
<1>2. Follows(entry, P!Seen(c).packs)
  BY <1>1 DEF Follows
<1>3. UNCHANGED <<tables, saved, writer>> /\ held' = [held EXCEPT ![c] = entry]
  BY <1>1 DEF P!Start
<1>4. \A d \in Client : P!Seen(d)' = P!Seen(d)
  BY <1>3 DEF P!Seen
<1>5. HeldOK'
  <2>1. DOMAIN held' = Client
    BY <1>3 DEF PackInv, HeldOK
  <2>2. ASSUME NEW d \in Client, held'[d] # Absent PROVE Follows(held'[d], P!Seen(d).packs)
    BY <1>2, <1>3, <2>2 DEF PackInv, HeldOK
  <2>3. QED
    BY <2>1, <2>2, <1>4 DEF HeldOK
<1>6. QED
  BY <1>3, <1>5, ExtendsItself DEF PackInv, TablesOK, Grows

\* A step after which the others see what they saw, or all that is written.
LEMMA OthersSee ==
    ASSUME PackInv, NEW c \in Client, writer \in {Absent, c}, writer' \in {Absent, c},
           saved' = saved \/ saved' = tables, writer' = Absent => tables' = saved',
           \A d \in Client \ {c} : held'[d] = held[d], DOMAIN held' = Client, held'[c] = Absent,
           Absent \notin Client
    PROVE  HeldOK'
<1> SUFFICES ASSUME NEW d \in Client, held'[d] # Absent
             PROVE  Follows(held'[d], P!Seen(d)'.packs)
  BY DEF HeldOK
<1>1. d # c /\ held'[d] = held[d]
  OBVIOUS
<1>2. P!Seen(d) = saved /\ P!Seen(d)' = saved'
  BY <1>1 DEF P!Seen
<1>3. DOMAIN saved.packs \subseteq DOMAIN saved'.packs
  BY DEF PackInv, TablesOK, Extends
<1>4. Follows(held[d], saved.packs)
  BY <1>1, <1>2 DEF PackInv, HeldOK
<1>5. QED
  BY <1>1, <1>2, <1>3, <1>4, FollowsMore

LEMMA InsertStep ==
    ASSUME P!PackAssumption, PackInv, NEW c \in Client, P!Insert(c)
    PROVE  PackInv' /\ Grows
<1> DEFINE new == P!WithRow(tables.packs, held[c].key, held[c].spec)
<1>1. /\ held[c] # Absent /\ writer \in {Absent, c}
      /\ tables' = [tables EXCEPT !.packs = new]
      /\ writer' = c /\ held' = [held EXCEPT ![c] = Absent] /\ saved' = saved
  BY DEF P!Insert, P!MayWrite
<1>2. Follows(held[c], tables.packs)
  BY <1>1 DEF PackInv, HeldOK, TablesOK, P!Seen
<1>3. new \in PackTables /\ Dense(new) /\ Extends(tables.packs, new)
  BY <1>2, InsertedRow DEF PackInv, TablesOK
<1>4. Absent \notin Client
  BY DEF P!PackAssumption
<1> HIDE DEF new
<1>5. tables'.packs = new /\ tables'.bundles = tables.bundles
      /\ tables' \in [packs : PackTables, bundles : SUBSET Bundle]
  BY <1>1, <1>3 DEF PackInv, TablesOK
<1>6. TablesOK'
  BY <1>1, <1>3, <1>4, <1>5 DEF PackInv, TablesOK, Extends
<1>7. HeldOK'
  BY <1>1, <1>4, OthersSee DEF PackInv, HeldOK
<1>8. QED
  BY <1>1, <1>6, <1>7, ExtendsItself DEF PackInv, Grows

LEMMA PutBundleStep ==
    ASSUME P!PackAssumption, PackInv, NEW c \in Client, NEW b \in Bundle, P!PutBundle(c, b)
    PROVE  PackInv' /\ Grows
<1>1. /\ held[c] = Absent /\ writer \in {Absent, c}
      /\ tables' = [tables EXCEPT !.bundles = @ \cup {b}]
      /\ writer' = c /\ held' = held /\ saved' = saved
  BY DEF P!PutBundle, P!MayWrite
<1>2. Absent \notin Client
  BY DEF P!PackAssumption
<1>3. tables'.packs = tables.packs /\ tables'.bundles = tables.bundles \cup {b}
      /\ tables' \in [packs : PackTables, bundles : SUBSET Bundle]
  BY <1>1 DEF PackInv, TablesOK
<1>4. TablesOK'
  BY <1>1, <1>2, <1>3 DEF PackInv, TablesOK
<1>5. HeldOK'
  BY <1>1, <1>2, OthersSee DEF PackInv, HeldOK
<1>6. QED
  BY <1>1, <1>4, <1>5, ExtendsItself DEF PackInv, Grows

\* What is written is committed, by Commit or by a migration.
LEMMA CommittedStep ==
    ASSUME P!PackAssumption, PackInv, NEW c \in Client, writer = c, held[c] = Absent,
           saved' = tables, writer' = Absent, UNCHANGED <<tables, held>>
    PROVE  PackInv' /\ Grows
<1>1. Absent \notin Client
  BY DEF P!PackAssumption
<1>2. TablesOK'
  BY ExtendsItself DEF PackInv, TablesOK
<1>3. HeldOK'
  BY <1>1, OthersSee DEF PackInv, HeldOK
<1>4. QED
  BY <1>2, <1>3 DEF PackInv, TablesOK, Grows

LEMMA CloseStep ==
    ASSUME P!PackAssumption, PackInv, NEW c \in Client, P!Close(c) \/ P!Locked(c)
    PROVE  PackInv' /\ Grows
<1>1. Absent \notin Client
  BY DEF P!PackAssumption
<1>2. held' = [held EXCEPT ![c] = Absent] /\ saved' = saved
  BY DEF P!Close, P!Locked
<1>3. CASE P!Close(c) /\ writer = c
  <2>1. tables' = saved /\ writer' = Absent
    BY <1>3 DEF P!Close
  <2>2. TablesOK'
    BY <1>2, <2>1, ExtendsItself DEF PackInv, TablesOK
  <2>3. HeldOK'
    BY <1>1, <1>2, <1>3, <2>1, OthersSee DEF PackInv, HeldOK
  <2>4. QED
    BY <1>2, <2>2, <2>3, ExtendsItself DEF PackInv, Grows
<1>4. CASE P!Locked(c) \/ writer # c
  <2>1. UNCHANGED <<tables, writer>>
    BY <1>4 DEF P!Close, P!Locked
  <2>2. \A d \in Client : P!Seen(d)' = P!Seen(d)
    BY <1>2, <2>1 DEF P!Seen
  <2>3. HeldOK'
    BY <1>2, <2>2 DEF PackInv, HeldOK
  <2>4. QED
    BY <1>2, <2>1, <2>3, ExtendsItself DEF PackInv, TablesOK, Grows
<1>5. QED
  BY <1>3, <1>4

\* A step that leaves the tables alone.
LEMMA IdleStep ==
    ASSUME PackInv, UNCHANGED <<tables, saved, writer, held>>
    PROVE  PackInv' /\ Grows
<1>1. \A d \in Client : P!Seen(d)' = P!Seen(d)
  BY DEF P!Seen
<1>2. HeldOK'
  BY <1>1 DEF PackInv, HeldOK
<1>3. QED
  BY <1>2, ExtendsItself DEF PackInv, TablesOK, Grows

LEMMA PackStep ==
    ASSUME P!PackAssumption, PackInv, [P!Next]_P!vars
    PROVE  PackInv' /\ Grows
<1>1. ASSUME NEW c \in Client, NEW p \in Pack, NEW s \in PackSpec,
             P!Create(c, p, s) \/ P!AppendVersion(c, p, s)
      PROVE  PackInv' /\ Grows
  BY <1>1, StartStep
<1>2. ASSUME NEW c \in Client, P!Insert(c) PROVE PackInv' /\ Grows
  BY <1>2, InsertStep
<1>3. ASSUME NEW c \in Client, P!Close(c) \/ P!Locked(c) PROVE PackInv' /\ Grows
  BY <1>3, CloseStep
<1>4. ASSUME NEW c \in Client, P!Commit(c) PROVE PackInv' /\ Grows
  BY <1>4, CommittedStep DEF P!Commit
<1>5. ASSUME NEW c \in Client, NEW b \in Bundle, P!PutBundle(c, b) PROVE PackInv' /\ Grows
  BY <1>5, PutBundleStep
<1>6. ASSUME NEW c \in Client, NEW p \in Pack, NEW v \in 1 .. MaxVersions, P!VerifyPack(c, p, v)
      PROVE  PackInv' /\ Grows
  <2>1. held[c] = Absent /\ P!Migrate(c) /\ UNCHANGED <<tables, held>>
    BY <1>6 DEF P!VerifyPack
  <2>2. CASE writer = c
    BY <2>1, <2>2, CommittedStep DEF P!Migrate
  <2>3. CASE writer # c
    BY <2>1, <2>3, IdleStep DEF P!Migrate
  <2>4. QED
    BY <2>2, <2>3
<1>7. ASSUME NEW b \in Base, NEW l \in Lineage, P!SaveContext(b, l) PROVE PackInv' /\ Grows
  BY <1>7, IdleStep DEF P!SaveContext
<1>8. ASSUME NEW b \in Base, NEW v \in 1 .. MaxContexts, P!VerifyContext(b, v) PROVE PackInv' /\ Grows
  BY <1>8, IdleStep DEF P!VerifyContext
<1>9. ASSUME NEW q \in Question, P!Ask(q) PROVE PackInv' /\ Grows
  BY <1>9, IdleStep DEF P!Ask
<1>10. CASE P!Look
  BY <1>10, IdleStep DEF P!Look
<1>11. CASE UNCHANGED P!vars
  BY <1>11, IdleStep DEF P!vars
<1>12. QED
  BY <1>1, <1>2, <1>3, <1>4, <1>5, <1>6, <1>7, <1>8, <1>9, <1>10, <1>11 DEF P!Next

LEMMA PackStart == ASSUME P!Init PROVE PackInv
<1>1. <<>> \in PackTables /\ DOMAIN <<>> = {}
  <2>1. <<>> = [k \in {} |-> k] /\ <<>> \in [{} -> PackSpec]
    OBVIOUS
  <2>2. QED
    BY <2>1 DEF PackTables
<1>2. TablesOK
  BY <1>1 DEF P!Init, TablesOK, Dense, Extends
<1>3. HeldOK
  BY DEF P!Init, HeldOK
<1>4. QED
  BY <1>2, <1>3 DEF PackInv

\* The tables are in order in every reachable state.
THEOREM PacksInductive == ASSUME P!PackAssumption PROVE P!Spec => []PackInv
  BY PackStart, PackStep, PTL DEF P!Spec

\* The versions of a pack have no gaps, whoever appends, commits, fails and ends at the same time
\* (pack_store.py append_version).
THEOREM PacksAreDense == ASSUME P!PackAssumption PROVE P!Spec => []P!VersionsAreDense
<1>1. ASSUME PackInv PROVE P!VersionsAreDense
  <2> SUFFICES ASSUME NEW k \in DOMAIN saved.packs, NEW v \in 1 .. k[2]
               PROVE  <<k[1], v>> \in DOMAIN saved.packs
    BY DEF P!VersionsAreDense
  <2>1. PICK p \in Pack, w \in 1 .. MaxVersions : k = <<p, w>>
    BY <1>1 DEF PackInv, TablesOK, PackTables
  <2>2. MaxVersions \in Nat
    BY DEF P!PackAssumption
  <2>3. v \in 1 .. MaxVersions /\ v <= w
    BY <2>1, <2>2
  <2>4. QED
    BY <1>1, <2>1, <2>3 DEF PackInv, TablesOK, Dense
<1>2. QED
  BY <1>1, PacksInductive, PTL

\* A version that is committed never changes (pack_store.py: append-only).
THEOREM PacksStay == ASSUME P!PackAssumption PROVE P!Spec => P!PackVersionsStay
<1> DEFINE Stay == saved.packs = P!Restrict(saved'.packs, DOMAIN saved.packs)
<1>1. ASSUME PackInv, [P!Next]_P!vars PROVE [Stay]_P!vars
  <2>1. Extends(saved.packs, saved'.packs)
    BY <1>1, PackStep DEF Grows
  <2>2. PICK K : saved.packs \in [K -> PackSpec]
    BY <1>1 DEF PackInv, TablesOK, PackTables
  <2>3. saved.packs = [k \in DOMAIN saved.packs |-> saved'.packs[k]]
    BY <2>1, <2>2 DEF Extends
  <2>4. QED
    BY <2>3 DEF P!Restrict
<1>2. P!Spec => [][Stay]_P!vars
  BY <1>1, PacksInductive, PTL DEF P!Spec
<1>3. QED
  BY <1>2 DEF P!PackVersionsStay

-----------------------------------------------------------------------------
(* Packs: what was verified is served, and a version of a context stays    *)

\* The reference leads to a bundle that is committed.
Leads(r) == r # Absent /\ P!Whole(r) /\ r.bundle \in saved.bundles /\ r.digest = r.bundle

VerifiedInv ==
    /\ \A r \in verified : Leads(r)
    /\ asked # Absent => (asked.from.sure => asked.ref \in verified)
    /\ answer # Absent => (answer.from.sure => answer.bundle # Absent)

\* The lineage of the version that q names leads to b.
Pinned(q, b) ==
    q.pin \in DOMAIN contexts[q.context] /\ contexts[q.context][q.pin].bundle = b

PinnedInv ==
    /\ contexts \in [Base -> Seq(Lineage)]
    /\ \A s \in served : s[1] \in Question /\ s[1].pin # Absent /\ s[2] \in Bundle /\ Pinned(s[1], s[2])
    /\ asked # Absent =>
        /\ asked.from.question \in Question
        /\ asked.from.question.pin # Absent => Pinned(asked.from.question, asked.ref.bundle)

\* A step that verifies, asks and answers nothing.
LEMMA VerifiedStays ==
    ASSUME VerifiedInv, Grows, UNCHANGED <<verified, asked, answer>>
    PROVE  VerifiedInv'
<1>1. \A r : Leads(r) => Leads(r)'
  BY DEF Leads, Grows
<1>2. QED
  BY <1>1 DEF VerifiedInv

LEMMA VerifyPackStep ==
    ASSUME P!PackAssumption, PackInv, VerifiedInv, Grows,
           NEW c \in Client, NEW p \in Pack, NEW v \in 1 .. MaxVersions, P!VerifyPack(c, p, v)
    PROVE  VerifiedInv'
<1> DEFINE t == P!Seen(c)
           refs == IF <<p, v>> \in DOMAIN t.packs
                   THEN {P!Reference(e) : e \in P!ToSet(t.packs[<<p, v>>].entries)} ELSE {}
           passes == refs # {} /\ \A r \in refs : P!Whole(r) /\ P!Serves(t, r)
<1>1. /\ verified' = IF passes THEN verified \cup refs ELSE verified
      /\ P!Migrate(c) /\ UNCHANGED <<tables, asked, answer>>
  BY DEF P!VerifyPack, P!Reads
<1>2. t.bundles \subseteq saved'.bundles
  BY <1>1 DEF P!Seen, P!Migrate
<1>3. \A r : Leads(r) => Leads(r)'
  BY DEF Leads, Grows
<1>4. ASSUME passes, NEW r \in refs PROVE Leads(r)'
  <2>1. <<p, v>> \in DOMAIN t.packs
    BY <1>4
  <2>2. t.packs[<<p, v>>] \in PackSpec
    BY <2>1 DEF PackInv, TablesOK, PackTables, P!Seen
  <2>3. PICK e \in P!ToSet(t.packs[<<p, v>>].entries) : r = P!Reference(e)
    BY <2>1, <1>4
  <2>4. PICK i \in DOMAIN t.packs[<<p, v>>].entries : e = t.packs[<<p, v>>].entries[i]
    BY <2>3 DEF P!ToSet
  <2>5. r # Absent
    BY <2>2, <2>3, <2>4 DEF P!PackAssumption, P!Reference
  <2>6. P!Whole(r) /\ r.bundle \in t.bundles /\ r.bundle = r.digest
    BY <1>4 DEF P!Serves
  <2>7. QED
    BY <2>5, <2>6, <1>2 DEF Leads, P!Whole
<1> HIDE DEF t, refs, passes
<1>5. \A r \in verified' : Leads(r)'
  BY <1>1, <1>3, <1>4 DEF VerifiedInv
<1>6. verified \subseteq verified'
  BY <1>1
<1>7. QED
  BY <1>1, <1>5, <1>6 DEF VerifiedInv

LEMMA VerifyContextStep ==
    ASSUME VerifiedInv, Grows, NEW b \in Base, NEW v \in 1 .. MaxContexts, P!VerifyContext(b, v)
    PROVE  VerifiedInv'
<1> DEFINE l == contexts[b][v]
<1>1. /\ l # Absent /\ P!Whole(l) /\ P!Serves(saved, l) /\ verified' = verified \cup {l}
      /\ UNCHANGED <<saved, asked, answer, contexts>>
  BY DEF P!VerifyContext, P!Reads
<1>2. Leads(l)'
  BY <1>1 DEF Leads, P!Serves, P!Whole
<1>3. \A r : Leads(r) => Leads(r)'
  BY DEF Leads, Grows
<1>4. QED
  BY <1>1, <1>2, <1>3 DEF VerifiedInv

\* What a question is asked with; its fields.
From(q, r) ==
    [question |-> q, spec |-> IF q.context = Absent THEN P!PackOf(q) ELSE Absent,
     entry |-> IF q.context = Absent THEN P!Choice(q) ELSE 0, sure |-> r \in verified]

LEMMA AskMeans ==
    ASSUME NEW q, P!Ask(q), NEW r, r = P!Chosen(q)
    PROVE  /\ \/ /\ r # Absent /\ P!Whole(r)
                 /\ asked' = [from |-> From(q, r), ref |-> r] /\ answer' = answer
              \/ /\ ~ (r # Absent /\ P!Whole(r))
                 /\ asked' = Absent /\ answer' = [from |-> From(q, r), bundle |-> Absent]
           /\ UNCHANGED <<tables, saved, writer, held, verified, contexts, served>>
  BY DEF P!Ask, From

LEMMA LookMeans ==
    ASSUME P!Look
    PROVE  \E found :
           /\ asked # Absent /\ asked' = Absent
           /\ found = IF P!Serves(saved, asked.ref) THEN asked.ref.bundle ELSE Absent
           /\ answer' = [from |-> asked.from, bundle |-> found]
           /\ served' = IF found = Absent \/ asked.from.question.pin = Absent THEN served
                        ELSE served \cup {<<asked.from.question, found>>}
           /\ UNCHANGED <<tables, saved, writer, held, verified, contexts>>
  BY DEF P!Look

LEMMA AskVerified ==
    ASSUME VerifiedInv, Grows, NEW q \in Question, P!Ask(q)
    PROVE  VerifiedInv'
<1> DEFINE r == P!Chosen(q)
<1> HIDE DEF r
<1>1. /\ \/ /\ r # Absent /\ P!Whole(r)
            /\ asked' = [from |-> From(q, r), ref |-> r] /\ answer' = answer
         \/ /\ ~ (r # Absent /\ P!Whole(r))
            /\ asked' = Absent /\ answer' = [from |-> From(q, r), bundle |-> Absent]
      /\ UNCHANGED <<tables, saved, writer, held, verified, contexts, served>>
  BY AskMeans DEF r
<1>2. From(q, r).sure = (r \in verified)
  BY DEF From
<1>3. \A s : Leads(s) => Leads(s)'
  BY DEF Leads, Grows
<1>4. \A s \in verified' : Leads(s)'
  BY <1>1, <1>3 DEF VerifiedInv
<1>5. r \in verified => r # Absent /\ P!Whole(r)
  BY DEF VerifiedInv, Leads
<1> HIDE DEF From
<1>6. CASE asked' = [from |-> From(q, r), ref |-> r] /\ answer' = answer
  <2>1. asked'.from = From(q, r) /\ asked'.ref = r
    BY <1>6
  <2>2. QED
    BY <2>1, <1>1, <1>2, <1>4, <1>6 DEF VerifiedInv
<1>7. CASE /\ ~ (r # Absent /\ P!Whole(r))
           /\ asked' = Absent /\ answer' = [from |-> From(q, r), bundle |-> Absent]
  <2>1. answer'.from = From(q, r)
    BY <1>7
  <2>2. QED
    BY <2>1, <1>2, <1>4, <1>5, <1>7 DEF VerifiedInv
<1>8. QED
  BY <1>1, <1>6, <1>7

LEMMA LookVerified ==
    ASSUME VerifiedInv, Grows, P!Look
    PROVE  VerifiedInv'
<1>1. PICK found :
        /\ asked # Absent /\ asked' = Absent
        /\ found = IF P!Serves(saved, asked.ref) THEN asked.ref.bundle ELSE Absent
        /\ answer' = [from |-> asked.from, bundle |-> found]
        /\ UNCHANGED <<saved, verified>>
  BY LookMeans
<1>2. answer'.from = asked.from /\ answer'.bundle = found
  BY <1>1
<1>3. asked.from.sure => found # Absent
  BY <1>1 DEF VerifiedInv, Leads, P!Serves, P!Whole
<1>4. \A s : Leads(s) => Leads(s)'
  BY DEF Leads, Grows
<1>5. QED
  BY <1>1, <1>2, <1>3, <1>4 DEF VerifiedInv

\* The steps that verify, ask and answer nothing, and change no context.
LEMMA QuietSteps ==
    ASSUME [P!Next]_P!vars,
           ~ \E c \in Client, p \in Pack, v \in 1 .. MaxVersions : P!VerifyPack(c, p, v),
           ~ \E b \in Base, v \in 1 .. MaxContexts : P!VerifyContext(b, v),
           ~ \E q \in Question : P!Ask(q), ~ P!Look
    PROVE  /\ UNCHANGED <<verified, asked, answer, served>>
           /\ \/ contexts' = contexts
              \/ \E b \in Base, l \in Lineage : contexts' = [contexts EXCEPT ![b] = Append(@, l)]
<1>1. ASSUME NEW c \in Client, NEW p \in Pack, NEW s \in PackSpec,
             P!Create(c, p, s) \/ P!AppendVersion(c, p, s)
      PROVE  UNCHANGED <<verified, asked, answer, served, contexts>>
  BY <1>1 DEF P!Create, P!AppendVersion, P!Start, P!Reads
<1>2. ASSUME NEW c \in Client, P!Insert(c) \/ P!Locked(c) \/ P!Commit(c) \/ P!Close(c)
      PROVE  UNCHANGED <<verified, asked, answer, served, contexts>>
  BY <1>2 DEF P!Insert, P!Locked, P!Commit, P!Close, P!Reads
<1>3. ASSUME NEW c \in Client, NEW b \in Bundle, P!PutBundle(c, b)
      PROVE  UNCHANGED <<verified, asked, answer, served, contexts>>
  BY <1>3 DEF P!PutBundle, P!Reads
<1>4. ASSUME NEW b \in Base, NEW l \in Lineage, P!SaveContext(b, l)
      PROVE  /\ UNCHANGED <<verified, asked, answer, served>>
             /\ contexts' = [contexts EXCEPT ![b] = Append(@, l)]
  BY <1>4 DEF P!SaveContext
<1>5. CASE UNCHANGED P!vars
  BY <1>5 DEF P!vars
<1>6. QED
  BY <1>1, <1>2, <1>3, <1>4, <1>5 DEF P!Next

LEMMA VerifiedStep ==
    ASSUME P!PackAssumption, PackInv, VerifiedInv, [P!Next]_P!vars
    PROVE  VerifiedInv'
<1>1. Grows
  BY PackStep
<1>2. QED
  BY <1>1, VerifyPackStep, VerifyContextStep, AskVerified, LookVerified, QuietSteps, VerifiedStays

\* A bundle that a verification found is served from then on, whoever rolls back, and a fetch
\* that is made with a verified reference is answered (verify.py, curated_internal_source.py).
THEOREM VerifiedStaysServed == ASSUME P!PackAssumption PROVE P!Spec => []P!VerifiedIsServed
<1>1. P!Init => VerifiedInv
  BY DEF P!Init, VerifiedInv
<1>2. VerifiedInv => P!VerifiedIsServed
  BY DEF VerifiedInv, Leads, P!VerifiedIsServed
<1>3. QED
  BY <1>1, <1>2, PacksInductive, VerifiedStep, PTL DEF P!Spec

-----------------------------------------------------------------------------
(* Packs: contexts                                                         *)

\* What is published later changes no version that is there.
LEMMA PinnedKept ==
    ASSUME PinnedInv, NEW b \in Base, NEW l \in Lineage,
           contexts' = [contexts EXCEPT ![b] = Append(@, l)]
    PROVE  /\ contexts' \in [Base -> Seq(Lineage)]
           /\ \A q, x : q.context \in Base /\ Pinned(q, x) => Pinned(q, x)'
<1>1. contexts \in [Base -> Seq(Lineage)]
  BY DEF PinnedInv
<1>2. Append(contexts[b], l) \in Seq(Lineage)
  BY <1>1
<1>3. \A i \in DOMAIN contexts[b] :
        i \in DOMAIN Append(contexts[b], l) /\ Append(contexts[b], l)[i] = contexts[b][i]
  BY <1>1
<1>4. \A d \in Base : contexts'[d] = IF d = b THEN Append(contexts[b], l) ELSE contexts[d]
  BY <1>1
<1>5. QED
  BY <1>1, <1>2, <1>3, <1>4 DEF Pinned

LEMMA PinnedStep ==
    ASSUME P!PackAssumption, PackInv, PinnedInv, [P!Next]_P!vars
    PROVE  PinnedInv'
<1>1. \A q \in Question : q.pin # Absent => q.context \in Base
  BY DEF P!PackAssumption
<1>2. ASSUME NEW q \in Question, P!Ask(q) PROVE PinnedInv'
  <2> DEFINE r == P!Chosen(q)
  <2> HIDE DEF r
  <2>1. /\ \/ /\ r # Absent /\ P!Whole(r)
              /\ asked' = [from |-> From(q, r), ref |-> r]
           \/ asked' = Absent
        /\ UNCHANGED <<contexts, served>>
    BY <1>2, AskMeans DEF r
  <2>2. From(q, r).question = q
    BY DEF From
  <2>3. q.pin # Absent /\ r # Absent => Pinned(q, r.bundle)
    <3>1. SUFFICES ASSUME q.pin # Absent, r # Absent PROVE Pinned(q, r.bundle)
      OBVIOUS
    <3>2. q.context # Absent
      BY <3>1, <1>1 DEF P!PackAssumption
    <3>3. r = P!ContextOf(q)
      BY <3>2 DEF r, P!Chosen
    <3>4. q.pin \in DOMAIN contexts[q.context] /\ r = contexts[q.context][q.pin]
      BY <3>1, <3>3 DEF P!ContextOf
    <3>5. QED
      BY <3>4 DEF Pinned
  <2> HIDE DEF From
  <2>4. asked' # Absent => asked'.from = From(q, r) /\ asked'.ref = r /\ r # Absent
    BY <2>1
  <2>5. QED
    BY <2>1, <2>2, <2>3, <2>4 DEF PinnedInv, Pinned
<1>3. CASE P!Look
  <2>1. PICK found :
          /\ asked # Absent /\ asked' = Absent
          /\ found = IF P!Serves(saved, asked.ref) THEN asked.ref.bundle ELSE Absent
          /\ served' = IF found = Absent \/ asked.from.question.pin = Absent THEN served
                       ELSE served \cup {<<asked.from.question, found>>}
          /\ UNCHANGED contexts
    BY <1>3, LookMeans
  <2>2. found # Absent => found \in Bundle /\ found = asked.ref.bundle
    BY <2>1 DEF P!Serves, PackInv, TablesOK
  <2>3. ASSUME NEW s \in served', s \notin served
        PROVE  s[1] \in Question /\ s[1].pin # Absent /\ s[2] \in Bundle /\ Pinned(s[1], s[2])
    <3>1. s = <<asked.from.question, found>> /\ found # Absent /\ asked.from.question.pin # Absent
      BY <2>1, <2>3
    <3>2. s[1] = asked.from.question /\ s[2] = found
      BY <3>1
    <3>3. QED
      BY <3>1, <3>2, <2>1, <2>2 DEF PinnedInv
  <2>4. QED
    BY <2>1, <2>3 DEF PinnedInv, Pinned
<1>4. ASSUME NEW c \in Client, NEW p \in Pack, NEW v \in 1 .. MaxVersions, P!VerifyPack(c, p, v)
      PROVE  PinnedInv'
  BY <1>4 DEF P!VerifyPack, P!Reads, PinnedInv, Pinned
<1>5. ASSUME NEW b \in Base, NEW v \in 1 .. MaxContexts, P!VerifyContext(b, v)
      PROVE  PinnedInv'
  BY <1>5 DEF P!VerifyContext, P!Reads, PinnedInv, Pinned
<1>6. CASE UNCHANGED <<asked, served, contexts>>
  BY <1>6 DEF PinnedInv, Pinned
<1>7. ASSUME NEW b \in Base, NEW l \in Lineage, UNCHANGED <<asked, served>>,
             contexts' = [contexts EXCEPT ![b] = Append(@, l)]
      PROVE  PinnedInv'
  <2>1. contexts' \in [Base -> Seq(Lineage)]
    BY <1>7, PinnedKept
  <2>2. \A q, x : q \in Question /\ q.pin # Absent /\ Pinned(q, x) => Pinned(q, x)'
    BY <1>7, <1>1, PinnedKept
  <2>3. QED
    BY <1>7, <2>1, <2>2 DEF PinnedInv
<1>8. QED
  BY <1>2, <1>3, <1>4, <1>5, <1>6, <1>7, QuietSteps

LEMMA PinnedStart == ASSUME P!Init PROVE PinnedInv
  BY DEF P!Init, PinnedInv

\* Tables, contexts and what was served are well typed.
THEOREM PacksTyped == ASSUME P!PackAssumption PROVE P!Spec => []P!TypeOK
<1>1. PackInv /\ PinnedInv => P!TypeOK
  BY DEF PackInv, TablesOK, PackTables, PinnedInv, P!TypeOK, P!Tables
<1>2. QED
  BY <1>1, PinnedStart, PinnedStep, PacksInductive, PTL DEF P!Spec

\* A question about a version of a context is answered from one bundle for ever, whatever is
\* published, appended or curated in between (curated_internal_source.py _load_prj).
THEOREM PinnedAnswersStay == ASSUME P!PackAssumption PROVE P!Spec => []P!PinnedStaysPut
<1>1. PinnedInv => P!PinnedStaysPut
  BY DEF PinnedInv, Pinned, P!PinnedStaysPut
<1>2. QED
  BY <1>1, PinnedStart, PinnedStep, PacksInductive, PTL DEF P!Spec

-----------------------------------------------------------------------------
(* Packs: the entry that is chosen                                         *)

Dates(es, I) == {es[i].asOf : i \in I}

\* The first m positions of I have dates up to some bound.
Bounded(es, I, m) == \E b \in Nat : \A i \in I : i <= m => es[i].asOf <= b

\* Positions whose entries have dates have a bound of them: the first of them that had none would
\* not be the first.
LEMMA DatesAreBounded ==
    ASSUME NEW es, NEW n \in Nat, NEW I \in SUBSET (1 .. n), Dates(es, I) \subseteq Nat
    PROVE  \E b \in Nat : \A i \in I : es[i].asOf <= b
<1> DEFINE Unbounded == {m \in Nat : ~ Bounded(es, I, m)}
<1>1. \A i \in I : es[i].asOf \in Nat
  BY DEF Dates
<1>2. SUFFICES Unbounded = {}
  <2>1. Bounded(es, I, n)
    BY <1>2
  <2>2. QED
    BY <2>1 DEF Bounded
<1>3. SUFFICES ASSUME NEW m \in Nat, ~ Bounded(es, I, m), \A k \in Nat : ~ Bounded(es, I, k) => m <= k
               PROVE  FALSE
  BY LeastNumber
<1>4. Bounded(es, I, 0)
  <2>1. 0 \in Nat /\ \A i \in I : ~ (i <= 0)
    OBVIOUS
  <2>2. \A i \in I : i <= 0 => es[i].asOf <= 0
    BY <2>1
  <2>3. QED
    BY <2>1, <2>2 DEF Bounded
<1>5. m - 1 \in Nat /\ Bounded(es, I, m - 1)
  <2>1. m # 0
    BY <1>3, <1>4
  <2>2. m - 1 \in Nat /\ ~ (m <= m - 1)
    BY <2>1
  <2>3. QED
    BY <2>2, <1>3
<1>6. PICK b \in Nat : \A i \in I : i <= m - 1 => es[i].asOf <= b
  BY <1>5 DEF Bounded
<1>7. \A i \in I : i \in Nat /\ (i <= m => i <= m - 1 \/ i = m)
  BY <1>5
<1>8. CASE m \in I
  <2>1. PICK d \in Nat : d = es[m].asOf
    BY <1>1, <1>8
  <2>2. b + d \in Nat /\ b <= b + d /\ d <= b + d
    BY <2>1
  <2>3. \A i \in I : i <= m => es[i].asOf <= b + d
    BY <1>1, <1>6, <1>7, <2>1, <2>2
  <2>4. QED
    BY <2>2, <2>3, <1>3 DEF Bounded
<1>9. CASE m \notin I
  <2>1. \A i \in I : i <= m => i <= m - 1
    BY <1>7, <1>9
  <2>2. QED
    BY <2>1, <1>6, <1>3 DEF Bounded
<1>10. QED
  BY <1>8, <1>9

\* LastOf is a position of the latest date, FirstOf one of the earliest.
LEMMA LastIsLatest ==
    ASSUME NEW es, NEW n \in Nat, NEW I \in SUBSET (1 .. n), I # {}, Dates(es, I) \subseteq Nat
    PROVE  P!LastOf(es, I) \in I /\ \A j \in I : es[j].asOf <= es[P!LastOf(es, I)].asOf
<1> DEFINE T == {i \in I : \A j \in I : es[j].asOf <= es[i].asOf}
<1>1. \A i \in I : es[i].asOf \in Nat
  BY DEF Dates
<1>2. PICK b \in Nat : \A i \in I : es[i].asOf <= b
  BY DatesAreBounded
<1>3. Dates(es, I) # {} /\ \A x \in Dates(es, I) : x <= b
  BY <1>2 DEF Dates
<1>4. PICK d \in Dates(es, I) : \A e \in Dates(es, I) : e <= d
  BY <1>3, LargestNumber
<1>5. T # {}
  BY <1>4 DEF Dates
<1>6. T \subseteq Nat /\ \A x \in T : x <= n
  <2>1. T \subseteq 1 .. n
    OBVIOUS
  <2> HIDE DEF T
  <2>2. QED
    BY <2>1
<1>7. P!Max(T) \in T
  BY <1>5, <1>6, MaxIsLargest
<1>8. QED
  BY <1>7 DEF P!LastOf

LEMMA FirstIsEarliest ==
    ASSUME NEW es, NEW n \in Nat, NEW I \in SUBSET (1 .. n), I # {}, Dates(es, I) \subseteq Nat
    PROVE  P!FirstOf(es, I) \in I /\ \A j \in I : es[P!FirstOf(es, I)].asOf <= es[j].asOf
<1> DEFINE T == {i \in I : \A j \in I : es[i].asOf <= es[j].asOf}
<1>1. Dates(es, I) # {}
  BY DEF Dates
<1>2. PICK d \in Dates(es, I) : \A e \in Dates(es, I) : d <= e
  BY <1>1, LeastNumber
<1>3. T # {} /\ T \subseteq Nat
  <2>1. PICK i \in I : d = es[i].asOf
    BY DEF Dates
  <2>2. i \in T
    BY <1>2, <2>1 DEF Dates
  <2>3. I \subseteq Nat
    OBVIOUS
  <2>4. T \subseteq Nat
    BY <2>3
  <2> HIDE DEF T
  <2>5. QED
    BY <2>2, <2>4
<1>4. \E x \in T : \A y \in T : x <= y
  BY <1>3, LeastNumber
<1>5. P!Min(T) \in T
  BY <1>4 DEF P!Min
<1>6. QED
  BY <1>5 DEF P!FirstOf

\* The entries that go before all others, and the day that the choice looks at.
Rivals(es) == {d \in P!ToSet(es) : d.status \in {Absent, "validated"} /\ d.asOf # Absent}
At(es, mode, pivot) ==
    IF mode = "latest_validated" THEN P!Max({0} \cup {d.asOf : d \in Rivals(es)}) ELSE pivot

\* Select takes the entry that is nearest to the day.
LEMMA SelectIsNearest ==
    ASSUME P!PackAssumption, NEW es \in Seq(P!Entry), NEW mode, NEW pivot \in Nat \cup {Absent},
           P!Select(es, mode, pivot) # 0, Rivals(es) # {}
    PROVE  LET e == es[P!Select(es, mode, pivot)]
               at == At(es, mode, pivot)
           IN  /\ e \in Rivals(es)
               /\ \A d \in Rivals(es) : /\ d.asOf <= at => e.asOf <= at /\ d.asOf <= e.asOf
                                        /\ e.asOf > at => e.asOf <= d.asOf
<1> DEFINE n == Len(es)
           D == {i \in 1 .. n : es[i] \in Rivals(es)}
           s == P!Select(es, mode, pivot)
<1>1. n \in Nat /\ DOMAIN es = 1 .. n /\ \A i \in 1 .. n : es[i] \in P!Entry
  OBVIOUS
<1>2. \A d \in Rivals(es) : \E i \in D : d = es[i]
  BY <1>1 DEF P!ToSet, Rivals
<1>3. D # {} /\ D \in SUBSET (1 .. n)
  BY <1>2
<1>4. P!Dated(es, P!Candidates(es)) = D
  <2> DEFINE V == {i \in DOMAIN es : es[i].status \in {Absent, "validated"}}
  <2>1. V # {}
    BY <1>1, <1>3 DEF Rivals
  <2>2. P!Candidates(es) = V
    BY <2>1 DEF P!Candidates
  <2>3. \A i \in 1 .. n : es[i] \in P!ToSet(es)
    BY <1>1 DEF P!ToSet
  <2>4. D = {i \in V : es[i].asOf # Absent}
    BY <1>1, <2>3 DEF Rivals
  <2>5. QED
    BY <2>2, <2>4 DEF P!Dated
<1>5. Absent \notin Nat
  BY DEF P!PackAssumption
<1>6. \A i \in D : es[i].asOf \in Nat
  BY <1>1, <1>5 DEF P!Entry, Rivals
<1>7. \A I \in SUBSET D : Dates(es, I) \subseteq Nat /\ I \in SUBSET (1 .. n)
  BY <1>6 DEF Dates
<1>8. es # <<>>
  BY <1>1, <1>3
<1>9. \/ mode = "latest_validated" /\ s = P!LastOf(es, D)
      \/ mode # "latest_validated" /\ pivot # Absent /\ s = P!Nearest(es, D, pivot)
  <2>1. s = CASE mode = "latest_validated" -> P!LastOf(es, D)
              [] mode \in {"fixed_date", "user_select"} ->
                    IF pivot = Absent THEN 0 ELSE P!Nearest(es, D, pivot)
              [] OTHER -> 0
    BY <1>3, <1>4, <1>8 DEF P!Select
  <2> HIDE DEF s, D
  <2>2. s # 0
    BY DEF s
  <2>3. QED
    BY <2>1, <2>2
<1> HIDE DEF n, D, s
<1>10. CASE mode = "latest_validated" /\ s = P!LastOf(es, D)
  <2>1. s \in D /\ \A j \in D : es[j].asOf <= es[s].asOf
    BY <1>1, <1>3, <1>7, <1>10, LastIsLatest
  <2> DEFINE T == {0} \cup {d.asOf : d \in Rivals(es)}
  <2>2. \A x \in T : x \in Nat /\ x <= es[s].asOf
    BY <1>2, <1>6, <2>1
  <2>3. es[s].asOf \in Nat
    BY <1>6, <2>1
  <2>4. T # {} /\ T \subseteq Nat
    BY <2>2
  <2>5. \A y \in T : y <= P!Max(T)
    BY <2>2, <2>3, <2>4, MaxIsLargest
  <2>6. At(es, mode, pivot) = P!Max(T)
    BY <1>10 DEF At
  <2>7. P!Max(T) \in T
    BY <2>2, <2>3, <2>4, MaxIsLargest
  <2>8. es[s] \in Rivals(es)
    BY <2>1 DEF D
  <2>9. es[s].asOf <= P!Max(T) /\ P!Max(T) <= es[s].asOf
    BY <2>2, <2>5, <2>7, <2>8
  <2>10. \A d \in Rivals(es) : d.asOf \in Nat /\ d.asOf <= es[s].asOf
    BY <1>2, <1>6, <2>1
  <2>11. P!Max(T) \in Nat
    BY <2>4, <2>7
  <2> HIDE DEF T
  <2>12. At(es, mode, pivot) \in Nat /\ At(es, mode, pivot) = es[s].asOf
    BY <2>3, <2>6, <2>9, <2>11
  <2> HIDE DEF At
  <2>13. QED
    BY <2>3, <2>8, <2>10, <2>12 DEF s
<1>11. CASE mode # "latest_validated" /\ pivot # Absent /\ s = P!Nearest(es, D, pivot)
  <2> DEFINE before == {i \in D : es[i].asOf <= pivot}
  <2>1. pivot \in Nat /\ At(es, mode, pivot) = pivot
    BY <1>11 DEF At
  <2>2. \A d \in Rivals(es) : d.asOf \in Nat
    BY <1>2, <1>6
  <2>3. before \in SUBSET D
    OBVIOUS
  <2>4. CASE before # {}
    <3>1. s = P!LastOf(es, before)
      BY <1>11, <2>4 DEF P!Nearest
    <3>2. s \in before /\ \A j \in before : es[j].asOf <= es[s].asOf
      BY <1>1, <1>7, <2>3, <2>4, <3>1, LastIsLatest
    <3>3. es[s] \in Rivals(es) /\ es[s].asOf <= pivot
      BY <3>2 DEF D
    <3>4. \A d \in Rivals(es) : d.asOf <= pivot => d.asOf <= es[s].asOf
      BY <3>2, <1>2
    <3>5. QED
      BY <2>1, <2>2, <3>3, <3>4 DEF s
  <2>5. CASE before = {}
    <3>1. s = P!FirstOf(es, D)
      BY <1>11, <2>5 DEF P!Nearest
    <3>2. s \in D /\ \A j \in D : es[s].asOf <= es[j].asOf
      BY <1>1, <1>3, <1>7, <3>1, FirstIsEarliest
    <3>3. es[s] \in Rivals(es)
      BY <3>2 DEF D
    <3>4. \A d \in Rivals(es) : es[s].asOf <= d.asOf /\ ~ (d.asOf <= pivot)
      BY <3>2, <1>2, <2>5
    <3>5. QED
      BY <2>1, <2>2, <3>3, <3>4 DEF s
  <2>6. QED
    BY <2>4, <2>5
<1>12. QED
  BY <1>9, <1>10, <1>11

\* What a fetch from a pack goes by.
ChosenBy(f) ==
    f.entry # 0 =>
        /\ f.question \in Question /\ f.spec \in PackSpec
        /\ f.entry = P!Select(f.spec.entries, P!ModeOf(f.question, f.spec), f.question.pivot)

ChoiceInv ==
    /\ asked # Absent => ChosenBy(asked.from)
    /\ answer # Absent => ChosenBy(answer.from)

LEMMA AskedByChoice ==
    ASSUME P!PackAssumption, PackInv, NEW q \in Question, NEW r
    PROVE  ChosenBy(From(q, r))
<1>1. From(q, r).question = q /\ From(q, r).entry = IF q.context = Absent THEN P!Choice(q) ELSE 0
  BY DEF From
<1>2. SUFFICES ASSUME q.context = Absent, P!Choice(q) # 0
               PROVE  /\ P!PackOf(q) \in PackSpec
                      /\ P!Choice(q) = P!Select(P!PackOf(q).entries, P!ModeOf(q, P!PackOf(q)), q.pivot)
  BY <1>1 DEF ChosenBy, From
<1>3. P!PackOf(q) # Absent
  BY <1>2 DEF P!Choice
<1> DEFINE v == P!LastVersion(saved, q.pack)
<1>4. v # 0 /\ P!PackOf(q) = saved.packs[<<q.pack, v>>]
  BY <1>3 DEF P!PackOf
<1>5. saved.packs \in PackTables
  BY DEF PackInv, TablesOK
<1>6. <<q.pack, v>> \in DOMAIN saved.packs
  BY <1>4, <1>5, LatestVersion
<1>7. P!PackOf(q) \in PackSpec
  BY <1>4, <1>5, <1>6 DEF PackTables
<1>8. QED
  BY <1>3, <1>7 DEF P!Choice

LEMMA ChoiceStep ==
    ASSUME P!PackAssumption, PackInv, ChoiceInv, [P!Next]_P!vars
    PROVE  ChoiceInv'
<1>1. \A f : ChosenBy(f)' = ChosenBy(f)
  BY DEF ChosenBy, P!ModeOf, P!Select, P!Candidates, P!Dated, P!Nearest, P!LastOf, P!FirstOf, P!Max, P!Min
<1>2. ASSUME NEW q \in Question, P!Ask(q) PROVE ChoiceInv'
  <2> DEFINE r == P!Chosen(q)
  <2> HIDE DEF r
  <2>1. \/ asked' = [from |-> From(q, r), ref |-> r] /\ answer' = answer
        \/ asked' = Absent /\ answer' = [from |-> From(q, r), bundle |-> Absent]
    BY <1>2, AskMeans DEF r
  <2>2. ChosenBy(From(q, r))
    BY AskedByChoice
  <2> HIDE DEF From, ChosenBy
  <2>3. CASE asked' = [from |-> From(q, r), ref |-> r] /\ answer' = answer
    <3>1. asked'.from = From(q, r)
      BY <2>3
    <3>2. QED
      BY <3>1, <2>2, <2>3, <1>1 DEF ChoiceInv
  <2>4. CASE asked' = Absent /\ answer' = [from |-> From(q, r), bundle |-> Absent]
    <3>1. answer'.from = From(q, r)
      BY <2>4
    <3>2. QED
      BY <3>1, <2>2, <2>4, <1>1 DEF ChoiceInv
  <2>5. QED
    BY <2>1, <2>3, <2>4
<1>3. CASE P!Look
  <2>1. PICK found : asked # Absent /\ asked' = Absent /\ answer' = [from |-> asked.from, bundle |-> found]
    BY <1>3, LookMeans
  <2>2. answer'.from = asked.from
    BY <2>1
  <2>3. QED
    BY <2>1, <2>2, <1>1 DEF ChoiceInv
<1>4. CASE UNCHANGED <<asked, answer>>
  BY <1>4, <1>1 DEF ChoiceInv
<1>5. ASSUME NEW c \in Client, NEW p \in Pack, NEW v \in 1 .. MaxVersions, P!VerifyPack(c, p, v)
      PROVE  UNCHANGED <<asked, answer>>
  BY <1>5 DEF P!VerifyPack, P!Reads
<1>6. ASSUME NEW b \in Base, NEW v \in 1 .. MaxContexts, P!VerifyContext(b, v)
      PROVE  UNCHANGED <<asked, answer>>
  BY <1>6 DEF P!VerifyContext, P!Reads
<1>7. QED
  BY <1>2, <1>3, <1>4, <1>5, <1>6, QuietSteps

\* Of the entries of a pack that may be taken, the one that is chosen is the nearest to the day
\* asked for, for any packs, dates and statuses (pack_store.py select_bundle_from_pack_spec).
THEOREM NearestIsChosen == ASSUME P!PackAssumption PROVE P!Spec => []P!SelectedIsNearest
<1>1. P!Init => ChoiceInv
  BY DEF P!Init, ChoiceInv
<1>2. ASSUME ChoiceInv PROVE P!SelectedIsNearest
  <2> SUFFICES ASSUME answer # Absent, answer.from.entry # 0, Rivals(answer.from.spec.entries) # {}
               PROVE  LET q == answer.from.question
                          es == answer.from.spec.entries
                          e == es[answer.from.entry]
                          at == At(es, P!ModeOf(q, answer.from.spec), q.pivot)
                      IN  /\ e \in Rivals(es)
                          /\ \A d \in Rivals(es) : /\ d.asOf <= at => e.asOf <= at /\ d.asOf <= e.asOf
                                                   /\ e.asOf > at => e.asOf <= d.asOf
    BY DEF P!SelectedIsNearest, Rivals, At
  <2>1. ChosenBy(answer.from)
    BY <1>2 DEF ChoiceInv
  <2> DEFINE q == answer.from.question
             es == answer.from.spec.entries
             mode == P!ModeOf(q, answer.from.spec)
  <2>2. es \in Seq(P!Entry) /\ q.pivot \in Nat \cup {Absent}
    BY <2>1 DEF ChosenBy, P!PackAssumption
  <2>3. answer.from.entry = P!Select(es, mode, q.pivot)
    BY <2>1 DEF ChosenBy
  <2> HIDE DEF q, es, mode
  <2>4. P!Select(es, mode, q.pivot) # 0 /\ Rivals(es) # {}
    BY <2>3 DEF es
  <2>5. QED
    BY <2>2, <2>3, <2>4, SelectIsNearest DEF q, es, mode
<1>3. QED
  BY <1>1, <1>2, PacksInductive, ChoiceStep, PTL DEF P!Spec

-----------------------------------------------------------------------------
(* Artifacts: types                                                        *)

Part == {"db", "runs", "artifacts"}
Items(n) == {"row", "ref", "file", "view"} \X (1 .. n)

\* What a client holds: nothing, an artifact half put, or the id that a put returned.
Standing(n) == [at : {"rest"}] \cup [at : {"half", "id"}, id : 1 .. n]

\* What may be left to move: no part twice, and brownfield.db and the rows before all others.
InOrder(l) ==
    /\ l \in Seq(Part)
    /\ \A i, j \in DOMAIN l : i # j => l[i] # l[j]
    /\ \A i \in DOMAIN l : l[i] = "db" => i = 1

\* The parts that are backed up under a second.
Backup == UNION {[Q -> SUBSET Items(MaxArtifacts)] : Q \in SUBSET Part}

ArtifactsTyped ==
    /\ sha \in Seq(Bytes) /\ Len(sha) <= MaxArtifacts
    /\ place \in [Part -> SUBSET Items(Len(sha))]
    /\ has \in [Client -> Standing(Len(sha))]
    /\ put \in (1 .. Len(sha)) \cup {None}
    /\ backups \in UNION {[T -> Backup] : T \in SUBSET (1 .. MaxClock)}
    /\ InOrder(toMove)
    /\ second \in 1 .. MaxClock /\ resets \in Seq(1 .. MaxClock)
    /\ toMove # <<>> => resets # <<>>

\* Rows and references by their items.
LEMMA RowsAreItems ==
    ASSUME NEW n, place["db"] \subseteq Items(n)
    PROVE  /\ \A id : id \in A!Rows <=> <<"row", id>> \in place["db"]
           /\ \A id : id \in A!Refs <=> <<"ref", id>> \in place["db"]
<1>1. \A j \in place["db"] : j = <<j[1], j[2]>>
  BY DEF Items
<1>2. ASSUME NEW id, id \in A!Rows PROVE <<"row", id>> \in place["db"]
  BY <1>1, <1>2 DEF A!Rows
<1>3. ASSUME NEW id, <<"row", id>> \in place["db"] PROVE id \in A!Rows
  <2>1. <<"row", id>>[1] = "row" /\ <<"row", id>>[2] = id
    OBVIOUS
  <2>2. QED
    BY <1>3, <2>1 DEF A!Rows
<1>4. ASSUME NEW id, id \in A!Refs PROVE <<"ref", id>> \in place["db"]
  BY <1>1, <1>4 DEF A!Refs
<1>5. ASSUME NEW id, <<"ref", id>> \in place["db"] PROVE id \in A!Refs
  <2>1. <<"ref", id>>[1] = "ref" /\ <<"ref", id>>[2] = id
    OBVIOUS
  <2>2. QED
    BY <1>5, <2>1 DEF A!Refs
<1>6. QED
  BY <1>2, <1>3, <1>4, <1>5

\* The artifact that is taken for bytes that are there already has its row and its file.
LEMMA ExistingIsThere ==
    ASSUME A!ArtifactAssumption, ArtifactsTyped, NEW b, A!FindExisting(b) # None
    PROVE  /\ A!FindExisting(b) \in 1 .. Len(sha)
           /\ <<"row", A!FindExisting(b)>> \in place["db"]
           /\ <<"file", A!FindExisting(b)>> \in place["artifacts"]
<1> DEFINE same == {id \in A!Rows : sha[id] = b}
<1>1. place["db"] \subseteq Items(Len(sha)) /\ Len(sha) \in Nat
  BY DEF ArtifactsTyped, Part
<1>2. \A id \in A!Rows : <<"row", id>> \in place["db"]
  BY <1>1, RowsAreItems
<1>3. \A id \in A!Rows : id \in 1 .. Len(sha)
  BY <1>1, <1>2 DEF Items
<1>4. same # {} /\ A!FileExists(A!Max(same)) /\ A!FindExisting(b) = A!Max(same)
  BY DEF A!FindExisting
<1>5. same \subseteq Nat /\ \A x \in same : x <= Len(sha)
  BY <1>1, <1>3
<1>6. A!Max(same) \in same
  <2>1. \E x \in same : \A y \in same : x >= y
    BY <1>1, <1>4, <1>5, LargestNumber
  <2>2. QED
    BY <2>1 DEF A!Max
<1>7. QED
  BY <1>2, <1>3, <1>4, <1>6 DEF A!FileExists, A!File

\* A part more, or none.
LEMMA MoreInOrder ==
    ASSUME NEW l, InOrder(l), NEW x \in Part \ {"db"}, \A i \in DOMAIN l : l[i] # x,
           NEW m \in {<<>>, <<x>>}
    PROVE  InOrder(l \o m)
<1>1. l \in Seq(Part) /\ Len(l) \in Nat /\ DOMAIN l = 1 .. Len(l)
  BY DEF InOrder
<1>2. CASE m = <<>>
  BY <1>1, <1>2
<1>3. CASE m = <<x>>
  <2>1. l \o m \in Seq(Part) /\ DOMAIN (l \o m) = 1 .. Len(l) + 1
    BY <1>1, <1>3
  <2>2. \A i \in DOMAIN (l \o m) :
          (i \in DOMAIN l /\ (l \o m)[i] = l[i]) \/ (i = Len(l) + 1 /\ (l \o m)[i] = x)
    BY <1>1, <1>3, <2>1
  <2>3. \A i, j \in DOMAIN (l \o m) : i # j => (l \o m)[i] # (l \o m)[j]
    BY <1>1, <2>2 DEF InOrder
  <2>4. \A i \in DOMAIN (l \o m) : (l \o m)[i] = "db" => i = 1
    BY <1>1, <2>2 DEF InOrder
  <2>5. QED
    BY <1>1, <1>3, <2>1, <2>3, <2>4 DEF InOrder
<1>4. QED
  BY <1>2, <1>3

\* The parts in the order of a reset, and those that are left after the first.
LEMMA PartsInOrder == \A withRuns, extras \in BOOLEAN : InOrder(A!Parts(withRuns, extras))
<1> SUFFICES ASSUME NEW withRuns \in BOOLEAN, NEW extras \in BOOLEAN PROVE InOrder(A!Parts(withRuns, extras))
  OBVIOUS
<1> DEFINE r == IF withRuns THEN <<"runs">> ELSE <<>>
           e == IF extras THEN <<"artifacts">> ELSE <<>>
           l == <<"db">> \o r
<1>1. InOrder(<<"db">>) /\ <<"db">> \in Seq({"db", "runs"})
  BY DEF InOrder, Part
<1>2. r \in {<<>>, <<"runs">>} /\ e \in {<<>>, <<"artifacts">>} /\ A!Parts(withRuns, extras) = l \o e
  BY DEF A!Parts
<1>3. r \in Seq({"db", "runs"})
  <2>1. <<>> \in Seq({"db", "runs"}) /\ <<"runs">> \in Seq({"db", "runs"})
    OBVIOUS
  <2>2. QED
    BY <2>1
<1> HIDE DEF r, e
<1>4. InOrder(l) /\ l \in Seq({"db", "runs"})
  <2> DEFINE d == <<"db">>
  <2>1. \A i \in DOMAIN d : d[i] # "runs"
    OBVIOUS
  <2> HIDE DEF d
  <2>2. d \o r \in Seq({"db", "runs"})
    BY <1>1, <1>3 DEF d
  <2>3. InOrder(d \o r)
    BY <1>1, <1>2, <2>1, MoreInOrder DEF Part, d
  <2>4. QED
    BY <2>2, <2>3 DEF d
<1>5. \A i \in DOMAIN l : l[i] # "artifacts"
  <2> HIDE DEF l
  <2> QED BY <1>4
<1> HIDE DEF l
<1>6. QED
  BY <1>2, <1>4, <1>5, MoreInOrder DEF Part

LEMMA RestInOrder ==
    ASSUME NEW l, InOrder(l), l # <<>>
    PROVE  /\ Head(l) \in Part /\ InOrder(Tail(l))
           /\ \A i \in DOMAIN Tail(l) : Tail(l)[i] # Head(l) /\ Tail(l)[i] # "db"
                                        /\ \E j \in DOMAIN l : Tail(l)[i] = l[j]
<1>1. l \in Seq(Part) /\ Len(l) \in Nat /\ Len(l) > 0 /\ DOMAIN l = 1 .. Len(l) /\ Head(l) = l[1]
  BY DEF InOrder
<1>2. Tail(l) \in Seq(Part) /\ DOMAIN Tail(l) = 1 .. Len(l) - 1
  BY <1>1
<1>3. \A i \in DOMAIN Tail(l) : i + 1 \in DOMAIN l /\ Tail(l)[i] = l[i + 1] /\ i + 1 # 1 /\ i \in Nat
  BY <1>1, <1>2
<1>4. \A i \in DOMAIN Tail(l) : Tail(l)[i] # l[1] /\ Tail(l)[i] # "db"
  BY <1>1, <1>3 DEF InOrder
<1>5. \A i, j \in DOMAIN Tail(l) : i # j => Tail(l)[i] # Tail(l)[j]
  <2> SUFFICES ASSUME NEW i \in DOMAIN Tail(l), NEW j \in DOMAIN Tail(l), i # j
               PROVE  Tail(l)[i] # Tail(l)[j]
    OBVIOUS
  <2>1. i + 1 # j + 1
    BY <1>3
  <2>2. QED
    BY <2>1, <1>3 DEF InOrder
<1>6. QED
  BY <1>1, <1>2, <1>3, <1>4, <1>5 DEF InOrder

-----------------------------------------------------------------------------
(* Artifacts: the invariant                                                *)

\* Nobody puts while a reset moves, a row is written after its file and a reference after its row,
\* and a reset moves the rows before the files.
BackedInv ==
    /\ \A c \in Client : has[c].at = "half" => <<"file", has[c].id>> \in place["artifacts"]
    /\ toMove # <<>> => put = None /\ \A c \in Client : has[c].at = "rest"
    /\ toMove # <<>> /\ toMove[1] # "db" => place["db"] = {}
    /\ put # None => <<"row", put>> \in place["db"] /\ <<"file", put>> \in place["artifacts"]
    /\ ~ damaged =>
        /\ \A id : <<"row", id>> \in place["db"] => <<"file", id>> \in place["artifacts"]
        /\ \A id : <<"ref", id>> \in place["db"] => <<"row", id>> \in place["db"]
        /\ \A c \in Client : has[c].at = "id" => <<"row", has[c].id>> \in place["db"]

\* No two resets began in the same second.
Apart(rs) == \A i, j \in DOMAIN rs : i # j => rs[i] # rs[j]

\* The file is in place, in a backup, or was removed on purpose.
Found(id) ==
    \/ <<"file", id>> \in gone
    \/ \E p \in Part : <<"file", id>> \in place[p]
    \/ \E t \in DOMAIN backups : \E p \in DOMAIN backups[t] : <<"file", id>> \in backups[t][p]

\* The backup of the reset under way holds none of the parts that are left, so that none is
\* replaced.
KeptInv ==
    /\ \A t \in DOMAIN backups : \E i \in DOMAIN resets : t = resets[i]
    /\ Apart(resets) /\ toMove # <<>> =>
        LET t == resets[Len(resets)]
        IN  t \in DOMAIN backups => \A i \in DOMAIN toMove : toMove[i] \notin DOMAIN backups[t]
    /\ Apart(resets) => \A id \in 1 .. Len(sha) : Found(id)

ArtifactInv == ArtifactsTyped /\ BackedInv /\ KeptInv

LEMMA ItemsGrow ==
    ASSUME NEW n \in Nat
    PROVE  Items(n) \subseteq Items(n + 1) /\ Standing(n) \subseteq Standing(n + 1)
<1>1. 1 .. n \subseteq 1 .. (n + 1)
  OBVIOUS
<1>2. Items(n) \subseteq Items(n + 1)
  BY <1>1 DEF Items
<1>3. Standing(n) \subseteq Standing(n + 1)
  BY <1>1 DEF Standing
<1>4. QED
  BY <1>2, <1>3

\* What is found stays found while nothing is taken away.
LEMMA FoundStays ==
    ASSUME NEW id, Found(id), gone \subseteq gone', backups' = backups,
           \A p \in Part : place[p] \subseteq place'[p]
    PROVE  Found(id)'
  BY DEF Found

LEMMA ArtifactStart == ASSUME A!ArtifactAssumption, A!Init PROVE ArtifactInv
<1>1. ArtifactsTyped
  <2>1. sha \in Seq(Bytes) /\ Len(sha) = 0 /\ resets \in Seq(1 .. MaxClock) /\ toMove = <<>>
    BY DEF A!Init
  <2>2. place \in [Part -> SUBSET Items(Len(sha))]
    BY DEF A!Init, Part
  <2>3. has \in [Client -> Standing(Len(sha))]
    BY DEF A!Init, Standing
  <2>4. backups \in UNION {[T -> Backup] : T \in SUBSET (1 .. MaxClock)}
    <3>1. backups \in [{} -> Backup] /\ {} \in SUBSET (1 .. MaxClock)
      BY DEF A!Init
    <3>2. QED
      BY <3>1
  <2>5. InOrder(<<>>)
    BY DEF InOrder
  <2>6. QED
    BY <2>1, <2>2, <2>3, <2>4, <2>5 DEF A!Init, ArtifactsTyped, A!ArtifactAssumption
<1>2. BackedInv
  BY DEF A!Init, BackedInv
<1>3. KeptInv
  BY DEF A!Init, KeptInv
<1>4. QED
  BY <1>1, <1>2, <1>3 DEF ArtifactInv

-----------------------------------------------------------------------------
(* Artifacts: puts                                                         *)

LEMMA PutSameStep ==
    ASSUME A!ArtifactAssumption, ArtifactInv, NEW c \in Client, NEW b \in Bytes, A!PutSame(c, b)
    PROVE  ArtifactInv'
<1> DEFINE id == A!FindExisting(b)
<1>1. /\ toMove = <<>> /\ id # None /\ put' = id /\ has' = [has EXCEPT ![c] = [at |-> "id", id |-> id]]
      /\ UNCHANGED <<place, sha, backups, toMove, second, resets, gone, damaged>>
  BY DEF A!PutSame
<1>2. id \in 1 .. Len(sha) /\ <<"row", id>> \in place["db"] /\ <<"file", id>> \in place["artifacts"]
  BY <1>1, ExistingIsThere DEF ArtifactInv
<1> HIDE DEF id
<1>3. has' \in [Client -> Standing(Len(sha))]
  BY <1>1, <1>2 DEF ArtifactInv, ArtifactsTyped, Standing
<1>4. \A d \in Client : has'[d] = IF d = c THEN [at |-> "id", id |-> id] ELSE has[d]
  BY <1>1 DEF ArtifactInv, ArtifactsTyped
<1>5. ArtifactsTyped'
  BY <1>1, <1>2, <1>3 DEF ArtifactInv, ArtifactsTyped
<1>6. BackedInv'
  BY <1>1, <1>2, <1>4 DEF ArtifactInv, BackedInv
<1>7. KeptInv'
  BY <1>1 DEF ArtifactInv, KeptInv, Found
<1>8. QED
  BY <1>5, <1>6, <1>7 DEF ArtifactInv

LEMMA PutFirstStep ==
    ASSUME A!ArtifactAssumption, ArtifactInv, NEW c \in Client, NEW b \in Bytes, NEW d, A!PutFirst(c, b, d)
    PROVE  ArtifactInv'
<1> DEFINE n == Len(sha)
           f == <<"file", n + 1>>
<1>1. /\ toMove = <<>> /\ n < MaxArtifacts /\ sha' = Append(sha, b)
      /\ place' = [place EXCEPT !["artifacts"] = @ \cup {f}]
      /\ has' = [has EXCEPT ![c] = [at |-> "half", id |-> n + 1]]
      /\ UNCHANGED <<put, backups, toMove, second, resets, gone, damaged>>
  BY DEF A!PutFirst, A!FirstWrite, A!File
<1>2. n \in Nat /\ sha' \in Seq(Bytes) /\ Len(sha') = n + 1
  BY <1>1 DEF ArtifactInv, ArtifactsTyped
<1>3. Items(n) \subseteq Items(n + 1) /\ Standing(n) \subseteq Standing(n + 1)
  BY <1>2, ItemsGrow
<1>4. f \in Items(n + 1)
  BY <1>2 DEF Items
<1>5. place \in [Part -> SUBSET Items(n)] /\ has \in [Client -> Standing(n)]
  BY DEF ArtifactInv, ArtifactsTyped
<1>6. /\ place'["artifacts"] = place["artifacts"] \cup {f} /\ place'["db"] = place["db"]
      /\ \A p \in Part : place[p] \subseteq place'[p]
      /\ place' \in [Part -> SUBSET Items(n + 1)]
  BY <1>1, <1>3, <1>4, <1>5 DEF Part
<1>7. [at |-> "half", id |-> n + 1] \in Standing(n + 1)
  BY <1>2 DEF Standing
<1>8. has' \in [Client -> Standing(n + 1)]
  BY <1>1, <1>3, <1>5, <1>7
<1>9. \A e \in Client : has'[e] = IF e = c THEN [at |-> "half", id |-> n + 1] ELSE has[e]
  BY <1>1, <1>5
<1>10. put' \in (1 .. n + 1) \cup {None} /\ n + 1 <= MaxArtifacts
  BY <1>1, <1>2 DEF ArtifactInv, ArtifactsTyped, A!ArtifactAssumption
<1> HIDE DEF n
<1>11. ArtifactsTyped'
  BY <1>1, <1>2, <1>6, <1>8, <1>10 DEF ArtifactInv, ArtifactsTyped
<1>12. BackedInv'
  BY <1>1, <1>6, <1>9 DEF ArtifactInv, BackedInv
<1>13. KeptInv'
  <2>1. ASSUME NEW id \in 1 .. n + 1, Apart(resets) PROVE Found(id)'
    <3>1. CASE id = n + 1
      BY <3>1, <1>6 DEF Found, Part
    <3>2. CASE id # n + 1
      <4>1. id \in 1 .. Len(sha)
        BY <3>2, <1>2 DEF n
      <4>2. Found(id)
        BY <2>1, <4>1 DEF ArtifactInv, KeptInv
      <4>3. QED
        BY <4>2, <1>1, <1>6, FoundStays
    <3>3. QED
      BY <3>1, <3>2
  <2>2. QED
    BY <2>1, <1>1, <1>2 DEF ArtifactInv, KeptInv
<1>14. QED
  BY <1>11, <1>12, <1>13 DEF ArtifactInv

LEMMA PutSecondStep ==
    ASSUME A!ArtifactAssumption, ArtifactInv, NEW c \in Client, A!PutSecond(c)
    PROVE  ArtifactInv'
<1> DEFINE n == Len(sha)
           id == has[c].id
<1>1. /\ has[c].at = "half"
      /\ place' = [place EXCEPT !["db"] = @ \cup {<<"row", id>>}]
      /\ has' = [has EXCEPT ![c].at = "id"] /\ put' = id
      /\ UNCHANGED <<sha, backups, toMove, second, resets, gone, damaged>>
  BY DEF A!PutSecond, A!SecondWrite, A!FirstWrite, A!Row
<1>2. place \in [Part -> SUBSET Items(n)] /\ has \in [Client -> Standing(n)]
  BY DEF ArtifactInv, ArtifactsTyped
<1>3. has[c] \in [at : {"half", "id"}, id : 1 .. n]
  BY <1>1, <1>2 DEF Standing
<1>4. id \in 1 .. n /\ <<"row", id>> \in Items(n)
  BY <1>3 DEF Items
<1>5. toMove = <<>> /\ <<"file", id>> \in place["artifacts"]
  BY <1>1 DEF ArtifactInv, BackedInv
<1>6. /\ place'["db"] = place["db"] \cup {<<"row", id>>} /\ place'["artifacts"] = place["artifacts"]
      /\ \A p \in Part : place[p] \subseteq place'[p]
      /\ place' \in [Part -> SUBSET Items(n)]
  BY <1>1, <1>2, <1>4 DEF Part
<1> DEFINE done == [has[c] EXCEPT !.at = "id"]
<1>7. done.at = "id" /\ done.id = id /\ done \in Standing(n)
  BY <1>3 DEF Standing
<1>8. has' = [has EXCEPT ![c] = done]
  BY <1>1
<1> HIDE DEF done, id, n
<1>9. \A e \in Client : has'[e] = IF e = c THEN done ELSE has[e]
  BY <1>2, <1>8
<1>10. has' \in [Client -> Standing(n)]
  BY <1>2, <1>7, <1>8
<1>11. ArtifactsTyped'
  BY <1>1, <1>4, <1>6, <1>10 DEF ArtifactInv, ArtifactsTyped, n
<1>12. BackedInv'
  <2>1. \A i : <<"row", i>> \in place'["db"] => i = id \/ <<"row", i>> \in place["db"]
    BY <1>6
  <2>2. \A i : <<"ref", i>> \in place'["db"] => <<"ref", i>> \in place["db"]
    BY <1>6
  <2>3. QED
    BY <2>1, <2>2, <1>1, <1>5, <1>6, <1>7, <1>9 DEF ArtifactInv, BackedInv
<1>13. KeptInv'
  BY <1>1, <1>6, FoundStays DEF ArtifactInv, KeptInv
<1>14. QED
  BY <1>11, <1>12, <1>13 DEF ArtifactInv

LEMMA ReferStep ==
    ASSUME A!ArtifactAssumption, ArtifactInv, NEW c \in Client, A!Refer(c)
    PROVE  ArtifactInv'
<1> DEFINE n == Len(sha)
           id == has[c].id
<1>1. /\ has[c].at = "id"
      /\ place' = [place EXCEPT !["db"] = @ \cup {<<"ref", id>>}, !["runs"] = @ \cup {<<"view", id>>}]
      /\ has' = [has EXCEPT ![c] = [at |-> "rest"]]
      /\ UNCHANGED <<sha, put, backups, toMove, second, resets, gone, damaged>>
  BY DEF A!Refer, A!Ref, A!View
<1>2. place \in [Part -> SUBSET Items(n)] /\ has \in [Client -> Standing(n)]
  BY DEF ArtifactInv, ArtifactsTyped
<1>3. has[c] \in [at : {"half", "id"}, id : 1 .. n]
  BY <1>1, <1>2 DEF Standing
<1>4. <<"ref", id>> \in Items(n) /\ <<"view", id>> \in Items(n)
  BY <1>3 DEF Items
<1>5. /\ place'["db"] = place["db"] \cup {<<"ref", id>>} /\ place'["artifacts"] = place["artifacts"]
      /\ \A p \in Part : place[p] \subseteq place'[p]
      /\ place' \in [Part -> SUBSET Items(n)]
  BY <1>1, <1>2, <1>4 DEF Part
<1>6. [at |-> "rest"] \in Standing(n)
  BY DEF Standing
<1> HIDE DEF id, n
<1>7. /\ \A e \in Client : has'[e] = IF e = c THEN [at |-> "rest"] ELSE has[e]
      /\ has' \in [Client -> Standing(n)]
  BY <1>1, <1>2, <1>6
<1>8. ArtifactsTyped'
  BY <1>1, <1>5, <1>7 DEF ArtifactInv, ArtifactsTyped, n
<1>9. BackedInv'
  <2>1. toMove = <<>>
    BY <1>1 DEF ArtifactInv, BackedInv
  <2>2. \A i : <<"row", i>> \in place'["db"] <=> <<"row", i>> \in place["db"]
    BY <1>5
  <2>3. \A i : <<"ref", i>> \in place'["db"] => i = id \/ <<"ref", i>> \in place["db"]
    BY <1>5
  <2>4. ~ damaged => <<"row", id>> \in place["db"]
    BY <1>1 DEF ArtifactInv, BackedInv, id
  <2>5. QED
    BY <2>1, <2>2, <2>3, <2>4, <1>1, <1>5, <1>7 DEF ArtifactInv, BackedInv
<1>10. KeptInv'
  BY <1>1, <1>5, FoundStays DEF ArtifactInv, KeptInv
<1>11. QED
  BY <1>8, <1>9, <1>10 DEF ArtifactInv

LEMMA CrashStep ==
    ASSUME A!ArtifactAssumption, ArtifactInv, NEW c \in Client, A!Crash(c)
    PROVE  ArtifactInv'
<1>1. /\ has' = [has EXCEPT ![c] = [at |-> "rest"]]
      /\ UNCHANGED <<place, sha, put, backups, toMove, second, resets, gone, damaged>>
  BY DEF A!Crash
<1>2. [at |-> "rest"] \in Standing(Len(sha)) /\ has \in [Client -> Standing(Len(sha))]
  BY DEF Standing, ArtifactInv, ArtifactsTyped
<1>3. /\ \A e \in Client : has'[e] = IF e = c THEN [at |-> "rest"] ELSE has[e]
      /\ has' \in [Client -> Standing(Len(sha))]
  BY <1>1, <1>2
<1>4. ArtifactsTyped'
  BY <1>1, <1>3 DEF ArtifactInv, ArtifactsTyped
<1>5. BackedInv'
  BY <1>1, <1>3 DEF ArtifactInv, BackedInv
<1>6. KeptInv'
  BY <1>1 DEF ArtifactInv, KeptInv, Found
<1>7. QED
  BY <1>4, <1>5, <1>6 DEF ArtifactInv

LEMMA DeleteStep ==
    ASSUME A!ArtifactAssumption, ArtifactInv, A!Delete
    PROVE  ArtifactInv'
<1>1. PICK lost :
        /\ toMove = <<>> /\ \A c \in Client : has[c].at # "half"
        /\ place' = [p \in DOMAIN place |-> place[p] \ lost]
        /\ gone' = gone \cup lost /\ damaged' = TRUE /\ put' = None
        /\ UNCHANGED <<sha, has, backups, toMove, second, resets>>
  BY DEF A!Delete
<1>2. place \in [Part -> SUBSET Items(Len(sha))]
  BY DEF ArtifactInv, ArtifactsTyped
<1>3. place' \in [Part -> SUBSET Items(Len(sha))] /\ \A p \in Part : place'[p] = place[p] \ lost
  BY <1>1, <1>2
<1>4. ArtifactsTyped'
  BY <1>1, <1>3 DEF ArtifactInv, ArtifactsTyped
<1>5. BackedInv'
  BY <1>1 DEF ArtifactInv, BackedInv
<1>6. ASSUME NEW id, Found(id) PROVE Found(id)'
  BY <1>1, <1>3, <1>6 DEF Found
<1>7. KeptInv'
  BY <1>1, <1>6 DEF ArtifactInv, KeptInv
<1>8. QED
  BY <1>4, <1>5, <1>7 DEF ArtifactInv

-----------------------------------------------------------------------------
(* Artifacts: resets                                                       *)

LEMMA StartResetStep ==
    ASSUME A!ArtifactAssumption, ArtifactInv, A!StartReset
    PROVE  ArtifactInv'
<1>1. /\ toMove = <<>> /\ \A c \in Client : has[c].at = "rest"
      /\ resets' = Append(resets, second) /\ put' = None
      /\ UNCHANGED <<place, sha, has, backups, second, gone, damaged>>
  BY DEF A!StartReset
<1>2. PICK withRuns \in BOOLEAN, extras \in BOOLEAN : toMove' = A!Parts(withRuns, extras)
  BY DEF A!StartReset
<1>3. InOrder(toMove') /\ toMove'[1] = "db"
  <2> DEFINE r == IF withRuns THEN <<"runs">> ELSE <<>>
             e == IF extras THEN <<"artifacts">> ELSE <<>>
  <2>1. r \in {<<>>, <<"runs">>} /\ e \in {<<>>, <<"artifacts">>} /\ toMove' = <<"db">> \o r \o e
    BY <1>2 DEF A!Parts
  <2> HIDE DEF r, e
  <2>2. <<>> \in Seq(Part) /\ <<"runs">> \in Seq(Part) /\ <<"artifacts">> \in Seq(Part)
    BY DEF Part
  <2>3. r \in Seq(Part) /\ e \in Seq(Part)
    BY <2>1, <2>2
  <2>4. toMove'[1] = "db"
    BY <2>1, <2>3
  <2>5. QED
    BY <1>2, <2>4, PartsInOrder
<1>4. /\ resets \in Seq(1 .. MaxClock) /\ Len(resets) \in Nat /\ second \in 1 .. MaxClock
      /\ DOMAIN resets = 1 .. Len(resets)
  BY DEF ArtifactInv, ArtifactsTyped
<1>5. /\ resets' \in Seq(1 .. MaxClock) /\ Len(resets') = Len(resets) + 1
      /\ DOMAIN resets' = 1 .. Len(resets) + 1
      /\ \A i \in DOMAIN resets : i \in DOMAIN resets' /\ resets'[i] = resets[i]
      /\ resets'[Len(resets) + 1] = second
  BY <1>1, <1>4
<1>6. ArtifactsTyped'
  <2>1. resets' # <<>>
    BY <1>4, <1>5
  <2>2. QED
    BY <1>1, <1>3, <1>5, <2>1 DEF ArtifactInv, ArtifactsTyped
<1>7. BackedInv'
  <2>1. \A c \in Client : has'[c].at = "rest"
    BY <1>1
  <2>2. QED
    BY <1>1, <1>3, <2>1 DEF ArtifactInv, BackedInv
<1>8. \A t \in DOMAIN backups : \E i \in DOMAIN resets : t = resets[i]
  BY DEF ArtifactInv, KeptInv
<1>9. ASSUME Apart(resets') PROVE second \notin DOMAIN backups /\ Apart(resets)
  <2>1. \A i \in DOMAIN resets : resets[i] # second
    <3> SUFFICES ASSUME NEW i \in DOMAIN resets PROVE resets[i] # second
      OBVIOUS
    <3>1. i # Len(resets) + 1 /\ i \in DOMAIN resets' /\ Len(resets) + 1 \in DOMAIN resets'
      BY <1>4, <1>5
    <3>2. resets'[i] # resets'[Len(resets) + 1]
      BY <1>9, <3>1 DEF Apart
    <3>3. QED
      BY <3>2, <1>5
  <2>2. Apart(resets)
    BY <1>5, <1>9 DEF Apart
  <2>3. QED
    BY <1>8, <2>1, <2>2
<1>10. KeptInv'
  <2>1. \A t \in DOMAIN backups' : \E i \in DOMAIN resets' : t = resets'[i]
    BY <1>1, <1>5, <1>8
  <2>2. Apart(resets') => resets'[Len(resets')] \notin DOMAIN backups'
    BY <1>1, <1>5, <1>9
  <2>3. ASSUME Apart(resets'), NEW id \in 1 .. Len(sha) PROVE Found(id)'
    <3>1. Found(id)
      BY <1>9, <2>3 DEF ArtifactInv, KeptInv
    <3>2. QED
      BY <1>1, <3>1, FoundStays
  <2>4. QED
    BY <1>1, <2>1, <2>2, <2>3 DEF KeptInv
<1>11. QED
  BY <1>6, <1>7, <1>10 DEF ArtifactInv

\* When the reset under way began.
Latest == resets[Len(resets)]

LEMMA LatestIsThere ==
    ASSUME NEW S, resets \in Seq(S), resets # <<>>
    PROVE  Len(resets) \in DOMAIN resets /\ Latest \in S /\ \E i \in DOMAIN resets : Latest = resets[i]
<1>1. Len(resets) \in Nat /\ DOMAIN resets = 1 .. Len(resets) /\ Len(resets) # 0
  OBVIOUS
<1>2. Len(resets) \in DOMAIN resets
  BY <1>1
<1>3. QED
  BY <1>2 DEF Latest

\* What the backup of a second holds when one part more is moved to it.
LEMMA BackedUpMeans ==
    ASSUME A!ArtifactAssumption, ArtifactInv, NEW p \in Part, toMove # <<>>, backups' = A!BackedUp(p)
    PROVE  /\ DOMAIN backups' = DOMAIN backups \cup {Latest}
           /\ \A u \in DOMAIN backups \ {Latest} : backups'[u] = backups[u]
           /\ backups'[Latest][p] = place[p] /\ p \in DOMAIN backups'[Latest]
           /\ Latest \notin DOMAIN backups => DOMAIN backups'[Latest] = {p}
           /\ Latest \in DOMAIN backups =>
                /\ DOMAIN backups'[Latest] = DOMAIN backups[Latest] \cup {p}
                /\ \A q \in DOMAIN backups[Latest] \ {p} : backups'[Latest][q] = backups[Latest][q]
           /\ backups' \in UNION {[T -> Backup] : T \in SUBSET (1 .. MaxClock)}
<1> DEFINE t == Latest
           new == backups'
           of == IF t \in DOMAIN backups THEN backups[t] ELSE <<>>
           parts == [q \in DOMAIN of \cup {p} |-> IF q = p THEN place[p] ELSE of[q]]
<1>1. /\ resets \in Seq(1 .. MaxClock) /\ resets # <<>>
      /\ place \in [Part -> SUBSET Items(Len(sha))] /\ Len(sha) <= MaxArtifacts /\ Len(sha) \in Nat
      /\ backups \in UNION {[T -> Backup] : T \in SUBSET (1 .. MaxClock)}
  BY DEF ArtifactInv, ArtifactsTyped
<1>2. t \in 1 .. MaxClock
  BY <1>1, LatestIsThere
<1>3. new = [u \in DOMAIN backups \cup {t} |-> IF u = t THEN parts ELSE backups[u]]
  BY DEF A!BackedUp, A!Last, Latest
<1>4. PICK T \in SUBSET (1 .. MaxClock) : backups \in [T -> Backup]
  BY <1>1
<1>5. of \in Backup
  <2>1. <<>> \in [{} -> SUBSET Items(MaxArtifacts)] /\ {} \in SUBSET Part
    OBVIOUS
  <2>2. <<>> \in Backup
    BY <2>1 DEF Backup
  <2>3. QED
    BY <1>4, <2>2
<1>6. PICK Q \in SUBSET Part : of \in [Q -> SUBSET Items(MaxArtifacts)]
  BY <1>5 DEF Backup
<1> HIDE DEF of
<1>7. place[p] \in SUBSET Items(MaxArtifacts)
  <2>1. MaxArtifacts \in Nat
    BY DEF A!ArtifactAssumption
  <2>2. 1 .. Len(sha) \subseteq 1 .. MaxArtifacts
    BY <1>1, <2>1
  <2>3. Items(Len(sha)) \subseteq Items(MaxArtifacts)
    BY <2>2 DEF Items
  <2>4. QED
    BY <1>1, <2>3
<1>8. parts \in [Q \cup {p} -> SUBSET Items(MaxArtifacts)] /\ Q \cup {p} \in SUBSET Part
  BY <1>6, <1>7
<1>9. parts \in Backup
  BY <1>8 DEF Backup
<1>10. parts[p] = place[p] /\ DOMAIN parts = DOMAIN of \cup {p} /\ \A q \in DOMAIN of \ {p} : parts[q] = of[q]
  OBVIOUS
<1> HIDE DEF parts
<1>11. /\ DOMAIN new = DOMAIN backups \cup {t} /\ new[t] = parts
       /\ \A u \in DOMAIN backups \ {t} : new[u] = backups[u]
  BY <1>3
<1>12. new \in UNION {[U -> Backup] : U \in SUBSET (1 .. MaxClock)}
  <2>1. T \cup {t} \in SUBSET (1 .. MaxClock)
    BY <1>2
  <2>2. new \in [T \cup {t} -> Backup]
    BY <1>3, <1>4, <1>9
  <2>3. QED
    BY <2>1, <2>2
<1>13. t \notin DOMAIN backups => of = <<>> /\ DOMAIN of = {}
  BY DEF of
<1>14. t \in DOMAIN backups => of = backups[t]
  BY DEF of
<1>15. QED
  BY <1>2, <1>10, <1>11, <1>12, <1>13, <1>14

LEMMA MovePartStep ==
    ASSUME A!ArtifactAssumption, ArtifactInv, A!MovePart
    PROVE  ArtifactInv'
<1> DEFINE p == Head(toMove)
<1>1. /\ toMove # <<>> /\ toMove' = Tail(toMove) /\ place' = [place EXCEPT ![p] = {}]
      /\ UNCHANGED <<sha, has, put, second, resets, damaged>>
  BY DEF A!MovePart
<1>2. \/ backups' = A!BackedUp(p) /\ gone' = gone
      \/ gone' = gone \cup place[p] /\ backups' = backups
  BY DEF A!MovePart
<1>3. place \in [Part -> SUBSET Items(Len(sha))] /\ InOrder(toMove) /\ resets # <<>>
  BY <1>1 DEF ArtifactInv, ArtifactsTyped
<1>4. /\ p \in Part /\ InOrder(toMove') /\ p = toMove[1]
      /\ \A i \in DOMAIN toMove' : toMove'[i] # p /\ toMove'[i] # "db" /\ \E j \in DOMAIN toMove : toMove'[i] = toMove[j]
  <2>1. p = toMove[1]
    BY <1>1, <1>3 DEF InOrder
  <2>2. QED
    BY <1>1, <1>3, <2>1, RestInOrder
<1> HIDE DEF p
<1>5. /\ place' \in [Part -> SUBSET Items(Len(sha))] /\ place'[p] = {}
      /\ \A q \in Part \ {p} : place'[q] = place[q]
  BY <1>1, <1>3, <1>4
<1>6. /\ \E i \in DOMAIN resets : Latest = resets[i]
      /\ backups' \in UNION {[T -> Backup] : T \in SUBSET (1 .. MaxClock)}
  <2>1. resets \in Seq(1 .. MaxClock) /\ backups \in UNION {[T -> Backup] : T \in SUBSET (1 .. MaxClock)}
    BY DEF ArtifactInv, ArtifactsTyped
  <2>2. \E i \in DOMAIN resets : Latest = resets[i]
    BY <1>3, <2>1, LatestIsThere
  <2>3. CASE backups' = A!BackedUp(p)
    BY <1>1, <1>4, <2>2, <2>3, BackedUpMeans
  <2>4. QED
    BY <1>2, <2>1, <2>2, <2>3
<1>7. ArtifactsTyped'
  BY <1>1, <1>3, <1>4, <1>5, <1>6 DEF ArtifactInv, ArtifactsTyped
<1>8. BackedInv'
  <2>1. /\ put = None /\ \A c \in Client : has[c].at = "rest"
        /\ toMove[1] # "db" => place["db"] = {}
    BY <1>1 DEF ArtifactInv, BackedInv
  <2>2. place'["db"] = {}
    BY <1>4, <1>5, <2>1 DEF Part
  <2>3. \A c \in Client : has'[c].at = "rest"
    BY <1>1, <2>1
  <2>4. QED
    BY <1>1, <2>1, <2>2, <2>3 DEF BackedInv
<1>9. \A u \in DOMAIN backups' : \E i \in DOMAIN resets : u = resets[i]
  <2>1. \A u \in DOMAIN backups : \E i \in DOMAIN resets : u = resets[i]
    BY DEF ArtifactInv, KeptInv
  <2>2. CASE backups' = A!BackedUp(p)
    <3>1. DOMAIN backups' = DOMAIN backups \cup {Latest}
      BY <1>1, <1>4, <2>2, BackedUpMeans
    <3>2. QED
      BY <1>6, <2>1, <3>1
  <2>3. QED
    BY <1>2, <2>1, <2>2
<1>10. ASSUME Apart(resets) PROVE Latest \in DOMAIN backups => \A i \in DOMAIN toMove : toMove[i] \notin DOMAIN backups[Latest]
  BY <1>1, <1>10 DEF ArtifactInv, KeptInv, Latest
<1>11. ASSUME Apart(resets), NEW i \in DOMAIN toMove', Latest \in DOMAIN backups'
       PROVE  toMove'[i] \notin DOMAIN backups'[Latest]
  <2>1. PICK j \in DOMAIN toMove : toMove'[i] = toMove[j]
    BY <1>4
  <2>2. CASE backups' = A!BackedUp(p)
    <3>1. /\ Latest \notin DOMAIN backups => DOMAIN backups'[Latest] = {p}
          /\ Latest \in DOMAIN backups => DOMAIN backups'[Latest] = DOMAIN backups[Latest] \cup {p}
      BY <1>1, <1>4, <2>2, BackedUpMeans
    <3>2. QED
      BY <1>4, <1>10, <1>11, <2>1, <3>1
  <2>3. CASE backups' = backups
    BY <1>10, <1>11, <2>1, <2>3
  <2>4. QED
    BY <1>2, <2>2, <2>3
<1>12. ASSUME Apart(resets), NEW id, Found(id) PROVE Found(id)'
  <2> DEFINE f == <<"file", id>>
  <2>1. CASE f \in gone
    BY <1>2, <2>1 DEF Found
  <2>2. ASSUME NEW q \in Part, f \in place[q] PROVE Found(id)'
    <3>1. CASE q # p
      BY <1>5, <2>2, <3>1 DEF Found
    <3>2. CASE q = p /\ backups' = A!BackedUp(p)
      <4>1. Latest \in DOMAIN backups' /\ p \in DOMAIN backups'[Latest] /\ backups'[Latest][p] = place[p]
        BY <1>1, <1>4, <3>2, BackedUpMeans
      <4>2. QED
        BY <2>2, <3>2, <4>1 DEF Found
    <3>3. CASE q = p /\ gone' = gone \cup place[p]
      BY <2>2, <3>3 DEF Found
    <3>4. QED
      BY <1>2, <3>1, <3>2, <3>3
  <2>3. ASSUME NEW u \in DOMAIN backups, NEW q \in DOMAIN backups[u], f \in backups[u][q] PROVE Found(id)'
    <3>1. CASE backups' = A!BackedUp(p)
      <4>1. /\ u \in DOMAIN backups'
            /\ u # Latest => backups'[u] = backups[u]
            /\ u = Latest => \A r \in DOMAIN backups[u] \ {p} : r \in DOMAIN backups'[u] /\ backups'[u][r] = backups[u][r]
        BY <1>1, <1>4, <3>1, BackedUpMeans
      <4>2. u = Latest => q # p
        <5>1. 1 \in DOMAIN toMove
          BY <1>1, <1>3 DEF InOrder
        <5>2. QED
          BY <1>4, <1>10, <1>12, <5>1
      <4>3. q \in DOMAIN backups'[u] /\ backups'[u][q] = backups[u][q]
        BY <4>1, <4>2
      <4>4. QED
        BY <2>3, <4>1, <4>3 DEF Found
    <3>2. CASE backups' = backups
      BY <2>3, <3>2 DEF Found
    <3>3. QED
      BY <1>2, <3>1, <3>2
  <2>4. QED
    BY <1>12, <2>1, <2>2, <2>3 DEF Found
<1>13. KeptInv'
  <2>1. \A id \in 1 .. Len(sha) : Apart(resets) => Found(id)
    BY DEF ArtifactInv, KeptInv
  <2>2. Latest' = Latest
    BY <1>1 DEF Latest
  <2>3. Apart(resets') => \A id \in 1 .. Len(sha') : Found(id)'
    BY <1>1, <1>12, <2>1
  <2>4. (Apart(resets) /\ toMove # <<>> => LET u == Latest IN u \in DOMAIN backups =>
            \A i \in DOMAIN toMove : toMove[i] \notin DOMAIN backups[u])'
    BY <1>1, <1>11, <2>2
  <2>5. (\A u \in DOMAIN backups : \E i \in DOMAIN resets : u = resets[i])'
    BY <1>1, <1>9
  <2>6. QED
    BY <2>3, <2>4, <2>5 DEF KeptInv, Latest
<1>14. QED
  BY <1>7, <1>8, <1>13 DEF ArtifactInv

LEMMA CrashResetStep ==
    ASSUME A!ArtifactAssumption, ArtifactInv, A!CrashReset
    PROVE  ArtifactInv'
<1>1. toMove' = <<>> /\ UNCHANGED <<place, sha, has, put, backups, second, resets, gone, damaged>>
  BY DEF A!CrashReset
<1>2. InOrder(<<>>)
  BY DEF InOrder
<1>3. ArtifactsTyped'
  BY <1>1, <1>2 DEF ArtifactInv, ArtifactsTyped
<1>4. BackedInv'
  BY <1>1 DEF ArtifactInv, BackedInv
<1>5. KeptInv'
  BY <1>1 DEF ArtifactInv, KeptInv, Found
<1>6. QED
  BY <1>3, <1>4, <1>5 DEF ArtifactInv

LEMMA TickStep ==
    ASSUME A!ArtifactAssumption, ArtifactInv, A!Tick
    PROVE  ArtifactInv'
<1>1. second < MaxClock /\ second' = second + 1
      /\ UNCHANGED <<place, sha, has, put, backups, toMove, resets, gone, damaged>>
  BY DEF A!Tick
<1>2. second' \in 1 .. MaxClock
  BY <1>1 DEF ArtifactInv, ArtifactsTyped, A!ArtifactAssumption
<1>3. ArtifactsTyped'
  BY <1>1, <1>2 DEF ArtifactInv, ArtifactsTyped
<1>4. BackedInv'
  BY <1>1 DEF ArtifactInv, BackedInv
<1>5. KeptInv'
  BY <1>1 DEF ArtifactInv, KeptInv, Found
<1>6. QED
  BY <1>3, <1>4, <1>5 DEF ArtifactInv

-----------------------------------------------------------------------------
(* Artifacts: the theorems                                                 *)

\* The invariant is inductive: puts, references, deletions and resets, interleaved and cut short
\* anywhere (artifact_store.py, storage_doctor.py, storage_reset.py).
THEOREM ArtifactsInductive == ASSUME A!ArtifactAssumption PROVE A!Spec => []ArtifactInv
<1>1. A!Init => ArtifactInv
  BY ArtifactStart
<1>2. ArtifactInv /\ [A!Next]_(A!vars) => ArtifactInv'
  <2> SUFFICES ASSUME ArtifactInv, [A!Next]_(A!vars) PROVE ArtifactInv'
    OBVIOUS
  <2>1. ASSUME NEW c \in Client, NEW b \in Bytes, A!PutSame(c, b) PROVE ArtifactInv'
    BY <2>1, PutSameStep
  <2>2. ASSUME NEW c \in Client, NEW b \in Bytes, NEW d \in BOOLEAN, A!PutFirst(c, b, d) PROVE ArtifactInv'
    BY <2>2, PutFirstStep
  <2>3. ASSUME NEW c \in Client, A!PutSecond(c) PROVE ArtifactInv'
    BY <2>3, PutSecondStep
  <2>4. ASSUME NEW c \in Client, A!Refer(c) PROVE ArtifactInv'
    BY <2>4, ReferStep
  <2>5. ASSUME NEW c \in Client, A!Crash(c) PROVE ArtifactInv'
    BY <2>5, CrashStep
  <2>6. CASE A!Delete
    BY <2>6, DeleteStep
  <2>7. CASE A!StartReset
    BY <2>7, StartResetStep
  <2>8. CASE A!MovePart
    BY <2>8, MovePartStep
  <2>9. CASE A!CrashReset
    BY <2>9, CrashResetStep
  <2>10. CASE A!Tick
    BY <2>10, TickStep
  <2>11. CASE UNCHANGED A!vars
    <3>1. UNCHANGED <<place, sha, has, put, backups, toMove, second, resets, gone, damaged>>
      BY <2>11 DEF A!vars
    <3>2. ArtifactsTyped' /\ BackedInv'
      BY <3>1 DEF ArtifactInv, ArtifactsTyped, BackedInv
    <3>3. KeptInv'
      BY <3>1 DEF ArtifactInv, KeptInv, Found
    <3>4. QED
      BY <3>2, <3>3 DEF ArtifactInv
  <2>12. QED
    BY <2>1, <2>2, <2>3, <2>4, <2>5, <2>6, <2>7, <2>8, <2>9, <2>10, <2>11 DEF A!Next
<1>3. QED
  BY <1>1, <1>2, PTL DEF A!Spec

\* Every part holds items of artifacts that exist, and an answer is one of them
\* (artifact_store.py).
THEOREM ArtifactsTypeCorrect == ASSUME A!ArtifactAssumption PROVE A!Spec => []A!TypeOK
<1>1. ArtifactInv => A!TypeOK
  <2> SUFFICES ASSUME ArtifactInv PROVE A!TypeOK
    OBVIOUS
  <2>1. /\ sha \in Seq(Bytes) /\ Len(sha) <= MaxArtifacts /\ Len(sha) \in Nat
        /\ DOMAIN sha = 1 .. Len(sha) /\ MaxArtifacts \in Nat
    BY DEF ArtifactInv, ArtifactsTyped, A!ArtifactAssumption
  <2>2. 1 .. Len(sha) \subseteq 1 .. MaxArtifacts
    BY <2>1
  <2>3. Items(Len(sha)) \subseteq {"row", "ref", "file", "view"} \X (1 .. MaxArtifacts)
    BY <2>2 DEF Items
  <2>4. \A p \in DOMAIN place : place[p] \subseteq {"row", "ref", "file", "view"} \X (1 .. MaxArtifacts)
    BY <2>3 DEF ArtifactInv, ArtifactsTyped
  <2>5. DOMAIN backups \subseteq 1 .. MaxClock
    BY DEF ArtifactInv, ArtifactsTyped
  <2>6. QED
    BY <2>1, <2>4, <2>5 DEF ArtifactInv, ArtifactsTyped, A!TypeOK
<1>2. QED
  BY <1>1, ArtifactsInductive, PTL

\* What a put returned is readable, and the doctor never has an issue that the code made,
\* wherever puts and resets end (artifact_store.py:put_bytes, storage_doctor.py,
\* storage_reset.py).
THEOREM ArtifactsBacked == ASSUME A!ArtifactAssumption PROVE A!Spec => []A!ArtifactsAreBacked
<1>1. ArtifactInv => A!ArtifactsAreBacked
  <2> SUFFICES ASSUME ArtifactInv PROVE A!ArtifactsAreBacked
    OBVIOUS
  <2>1. place["db"] \subseteq Items(Len(sha))
    BY DEF ArtifactInv, ArtifactsTyped, Part
  <2>2. /\ \A id : id \in A!Rows <=> <<"row", id>> \in place["db"]
        /\ \A id : id \in A!Refs <=> <<"ref", id>> \in place["db"]
    BY <2>1, RowsAreItems
  <2>3. put # None => put \in A!Rows /\ A!FileExists(put)
    BY <2>2 DEF ArtifactInv, BackedInv, A!FileExists, A!File
  <2>4. ASSUME ~ damaged PROVE A!Refs \subseteq A!Rows /\ \A id \in A!Rows : A!FileExists(id)
    BY <2>2, <2>4 DEF ArtifactInv, BackedInv, A!FileExists, A!File
  <2>5. ASSUME ~ damaged PROVE A!DoctorOk
    <3>1. {r \in A!Rows : ~ A!FileExists(r)} = {} /\ A!Refs \ A!Rows = {}
      BY <2>4, <2>5
    <3>2. QED
      BY <3>1 DEF A!DoctorOk, A!Issues
  <2>6. QED
    BY <2>3, <2>4, <2>5 DEF A!ArtifactsAreBacked
<1>2. QED
  BY <1>1, ArtifactsInductive, PTL

\* Nothing that was written is lost by a reset, also by one that is cut short, while no two begin
\* in the same second (storage_reset.py).
THEOREM BackupsKeep == ASSUME A!ArtifactAssumption PROVE A!Spec => []A!BackupsKeepAll
<1>1. ArtifactInv => A!BackupsKeepAll
  <2> SUFFICES ASSUME ArtifactInv, \A i, j \in DOMAIN resets : i # j => resets[i] # resets[j],
                      NEW f \in A!Begun
               PROVE  f \in A!Kept \cup gone
    BY DEF A!BackupsKeepAll
  <2>1. PICK id \in DOMAIN sha : f = <<"file", id>>
    BY DEF A!Begun, A!File
  <2>2. id \in 1 .. Len(sha) /\ DOMAIN place = Part
    BY DEF ArtifactInv, ArtifactsTyped
  <2>3. Found(id)
    BY <2>2 DEF ArtifactInv, KeptInv, Apart
  <2>4. ASSUME NEW p \in Part, f \in place[p] PROVE f \in UNION A!Range(place)
    BY <2>2, <2>4 DEF A!Range
  <2>5. ASSUME NEW t \in DOMAIN backups, NEW p \in DOMAIN backups[t], f \in backups[t][p]
        PROVE  f \in UNION {UNION A!Range(backups[u]) : u \in DOMAIN backups}
    <3>1. f \in UNION A!Range(backups[t])
      BY <2>5 DEF A!Range
    <3> DEFINE all == {UNION A!Range(backups[u]) : u \in DOMAIN backups}
    <3>2. UNION A!Range(backups[t]) \in all
      BY <2>5
    <3> HIDE DEF all
    <3>3. f \in UNION all
      BY <3>1, <3>2
    <3>4. QED
      BY <3>3 DEF all
  <2>6. QED
    BY <2>1, <2>3, <2>4, <2>5 DEF Found, A!Kept
<1>2. QED
  BY <1>1, ArtifactsInductive, PTL

-----------------------------------------------------------------------------
(* Beliefs: the invariant                                                  *)

Held == [kind : {"wide", "normal", "empirical"}, obs : SUBSET Nat, n : Nat,
         from : Nat \cup {Absent}, widened : {FALSE}]
Saved == [belief : Held, at : Nat, by : Process]
Entry == [id : Nat, belief : Held, at : Nat]

\* What a belief rests on has been given, and a normal one rests on something.
Given(b, n) == b.obs \subseteq 1 .. n /\ (b.kind = "normal" => b.obs # {})

FilesOK ==
    /\ hour \in 1 .. MaxHour /\ observed \in 0 .. MaxObservations
    /\ files \in Seq(Saved) /\ torn \subseteq DOMAIN files
    /\ \A i \in DOMAIN files : files[i].at <= hour /\ Given(files[i].belief, observed)
    /\ B!PriorsAreReal

\* The file of a cached belief is not older than what its process has saved, nor than what was
\* saved before the belief was cached.
Current(entry, p) ==
    \A i \in DOMAIN files \ torn :
        files[i].by = p \/ files[i].at < entry.at => files[i].at <= files[entry.id].at

CacheOK(entry, p) ==
    /\ entry \in Entry /\ entry.at <= hour /\ Given(entry.belief, observed)
    /\ B!Whole(entry.id) /\ Current(entry, p)

CachesOK ==
    /\ cache \in [Process -> Entry \cup {Absent}]
    /\ \A p \in Process : cache[p] # Absent => CacheOK(cache[p], p)

AnswerOK ==
    /\ reply # Absent => reply.upTo \in Nat /\ reply.upTo <= Len(files)
    /\ B!PriorIsCurrent

BeliefInv == FilesOK /\ CachesOK /\ AnswerOK

LEMMA BeliefStart == ASSUME B!BeliefAssumption, B!Init PROVE BeliefInv
<1>1. files = <<>> /\ files \in Seq(Saved) /\ DOMAIN files = {} /\ torn = {} /\ hour = 1 /\ observed = 0
      /\ reply = Absent /\ cache = [p \in Process |-> Absent]
  BY DEF B!Init
<1>2. FilesOK
  BY <1>1 DEF FilesOK, B!PriorsAreReal, B!BeliefAssumption
<1>3. CachesOK
  BY <1>1 DEF CachesOK
<1>4. AnswerOK
  BY <1>1 DEF AnswerOK, B!PriorIsCurrent
<1>5. QED
  BY <1>2, <1>3, <1>4 DEF BeliefInv

-----------------------------------------------------------------------------
(* Beliefs: files are appended                                             *)

LEMMA OneMore ==
    ASSUME NEW S, NEW s \in Seq(S), NEW x \in S, NEW t, t = Append(s, x)
    PROVE  /\ t \in Seq(S) /\ Len(t) = Len(s) + 1 /\ Len(s) \in Nat /\ t[Len(s) + 1] = x
           /\ DOMAIN s = 1 .. Len(s) /\ DOMAIN t = DOMAIN s \cup {Len(s) + 1}
           /\ \A i \in DOMAIN s : t[i] = s[i] /\ i \in Nat /\ i < Len(s) + 1
OBVIOUS

\* Files that were there stay, whole or torn, and one that is added is not torn or not whole.
Grown ==
    /\ files' \in Seq(Saved) /\ Len(files) <= Len(files')
    /\ DOMAIN files \subseteq DOMAIN files' /\ \A i \in DOMAIN files : files'[i] = files[i]
    /\ \A i \in DOMAIN files : i \in torn' <=> i \in torn
    /\ \A i \in DOMAIN files' \ DOMAIN files : i > Len(files)

LEMMA AnswerStays ==
    ASSUME AnswerOK, FilesOK, Grown, reply' = reply
    PROVE  AnswerOK'
<1>1. Len(files) \in Nat /\ Len(files') \in Nat /\ DOMAIN files = 1 .. Len(files)
  BY DEF FilesOK, Grown
<1>2. CASE reply # Absent
  <2>1. reply.upTo \in Nat /\ reply.upTo <= Len(files')
    BY <1>1, <1>2 DEF AnswerOK, Grown
  <2>2. \A i \in 1 .. reply.upTo : i \in DOMAIN files
    BY <1>1, <1>2 DEF AnswerOK
  <2>3. B!Whole(reply.id)'
    BY <1>2 DEF AnswerOK, B!PriorIsCurrent, B!Whole, Grown
  <2>4. \A i \in 1 .. reply.upTo : B!Whole(i)' <=> B!Whole(i)
    BY <2>2 DEF B!Whole, Grown
  <2>5. B!PriorIsCurrent'
    BY <1>2, <2>2, <2>3, <2>4 DEF AnswerOK, B!PriorIsCurrent, B!Whole, Grown
  <2>6. QED
    BY <2>1, <2>5 DEF AnswerOK
<1>3. CASE reply = Absent
  BY <1>3 DEF AnswerOK, B!PriorIsCurrent
<1>4. QED
  BY <1>2, <1>3

\* A cached belief stays current when another process saves, or a file is torn.
LEMMA CacheStays ==
    ASSUME FilesOK, NEW p \in Process, NEW entry, CacheOK(entry, p), Grown,
           hour <= hour', hour' \in Nat, observed <= observed', observed' \in Nat,
           \A i \in DOMAIN files' \ DOMAIN files : i \in torn' \/ (files'[i].by # p /\ files'[i].at = hour)
    PROVE  CacheOK(entry, p)'
<1>1. entry \in Entry /\ entry.at \in Nat /\ hour \in Nat /\ entry.at <= hour /\ observed \in Nat
  BY DEF CacheOK, FilesOK, Entry
<1>2. Given(entry.belief, observed')
  BY <1>1 DEF CacheOK, Given
<1>3. B!Whole(entry.id)' /\ files'[entry.id] = files[entry.id] /\ B!Whole(entry.id)
  BY DEF CacheOK, B!Whole, Grown
<1>4. \A i \in DOMAIN files' \ torn' :
        files'[i].by = p \/ files'[i].at < entry.at => i \in DOMAIN files \ torn
  BY <1>1 DEF Grown
<1>5. Current(entry, p)'
  BY <1>3, <1>4 DEF CacheOK, Current, Grown
<1>6. QED
  BY <1>1, <1>2, <1>3, <1>5 DEF CacheOK

LEMMA SaveStep ==
    ASSUME B!BeliefAssumption, FilesOK, CachesOK, NEW p \in Process, NEW b \in Held, B!Save(p, b),
           hour' = hour, torn' = torn, observed <= observed', observed' \in 0 .. MaxObservations, Given(b, observed'),
           b.from = Absent \/ b.from = 0 \/ B!Whole(b.from)
    PROVE  /\ FilesOK' /\ CachesOK' /\ Grown
           /\ \E e : e.id = Len(files) + 1 /\ e.at = hour /\ CacheOK(e, p)'
<1>a. PICK n : n = Len(files) + 1
  OBVIOUS
<1>b. PICK f : f = [belief |-> b, at |-> hour, by |-> p]
  OBVIOUS
<1>c. PICK e : e = [id |-> n, belief |-> b, at |-> hour]
  OBVIOUS
<1>1. files' = Append(files, f) /\ cache' = [cache EXCEPT ![p] = e]
  BY <1>a, <1>b, <1>c DEF B!Save
<1>2. files \in Seq(Saved) /\ hour \in Nat /\ observed \in Nat /\ observed' \in Nat /\ torn \subseteq DOMAIN files
      /\ hour \in 1 .. MaxHour
  BY DEF FilesOK
<1>3. f \in Saved /\ f.belief = b /\ f.at = hour /\ f.by = p
  BY <1>2, <1>b DEF Saved
<1>4. /\ files' \in Seq(Saved) /\ Len(files') = n /\ Len(files) \in Nat /\ files'[n] = f
      /\ DOMAIN files = 1 .. Len(files) /\ DOMAIN files' = DOMAIN files \cup {n}
      /\ \A i \in DOMAIN files : files'[i] = files[i] /\ i \in Nat /\ i < n
  BY <1>1, <1>2, <1>3, <1>a, OneMore
<1>5. n \in Nat /\ n \notin torn /\ n > Len(files)
  BY <1>2, <1>4, <1>a
<1>6. Grown
  <2>1. Len(files) <= Len(files')
    BY <1>4, <1>5
  <2>2. QED
    BY <1>4, <1>5, <2>1 DEF Grown
<1>7. FilesOK'
  <2>1. \A i \in DOMAIN files' : files'[i].at <= hour' /\ Given(files'[i].belief, observed')
    <3>1. ASSUME NEW i \in DOMAIN files PROVE files[i].at <= hour /\ Given(files[i].belief, observed')
      <4>1. files[i].at <= hour /\ Given(files[i].belief, observed)
        BY DEF FilesOK
      <4>2. 1 .. observed \subseteq 1 .. observed'
        BY <1>2
      <4>3. QED
        BY <4>1, <4>2 DEF Given
    <3>2. QED
      BY <1>2, <1>3, <1>4, <3>1
  <2>2. \A i \in DOMAIN files' : ~ files'[i].belief.widened /\ (files'[i].belief.kind = "normal" => files'[i].belief.obs # {})
    <3>1. \A i \in DOMAIN files : ~ files[i].belief.widened /\ (files[i].belief.kind = "normal" => files[i].belief.obs # {})
      BY DEF FilesOK, B!PriorsAreReal
    <3>2. ~ b.widened /\ (b.kind = "normal" => b.obs # {})
      BY DEF Held, Given
    <3>3. QED
      BY <1>3, <1>4, <3>1, <3>2
  <2>3. \A i \in DOMAIN files' :
          \/ files'[i].belief.from = Absent \/ files'[i].belief.from = 0
          \/ files'[i].belief.from \in DOMAIN files' \ torn' /\ files'[i].belief.from < i
    <3>1. \A k : B!Whole(k) => k \in DOMAIN files' \ torn' /\ k < n
      BY <1>4 DEF B!Whole
    <3>2. \A i \in DOMAIN files :
            \/ files[i].belief.from = Absent \/ files[i].belief.from = 0
            \/ B!Whole(files[i].belief.from) /\ files[i].belief.from < i
      BY DEF FilesOK, B!PriorsAreReal
    <3>3. QED
      BY <1>3, <1>4, <3>1, <3>2
  <2>4. B!PriorsAreReal'
    BY <2>2, <2>3 DEF B!PriorsAreReal, B!Whole
  <2>5. QED
    BY <1>2, <1>4, <2>1, <2>4 DEF FilesOK
<1>8. e \in Entry /\ e.id = n /\ e.at = hour /\ e.belief = b
  BY <1>2, <1>5, <1>c DEF Entry
<1>9. CacheOK(e, p)'
  <2>1. B!Whole(n)'
    BY <1>4, <1>5 DEF B!Whole
  <2>2. Current(e, p)'
    BY <1>3, <1>4, <1>7, <1>8 DEF Current, FilesOK
  <2>3. QED
    BY <1>2, <1>8, <2>1, <2>2 DEF CacheOK
<1>10. CachesOK'
  <2>1. cache \in [Process -> Entry \cup {Absent}]
    BY DEF CachesOK
  <2>2. cache' \in [Process -> Entry \cup {Absent}] /\ cache'[p] = e
        /\ \A q \in Process \ {p} : cache'[q] = cache[q]
    BY <1>1, <1>8, <2>1
  <2>3. ASSUME NEW q \in Process \ {p}, cache[q] # Absent PROVE CacheOK(cache[q], q)'
    <3>1. PICK k : k = cache[q]
      OBVIOUS
    <3>2. CacheOK(k, q)
      BY <2>3, <3>1 DEF CachesOK
    <3>3. \A i \in DOMAIN files' \ DOMAIN files : files'[i].by # q /\ files'[i].at = hour
      BY <1>3, <1>4
    <3>4. hour <= hour' /\ hour' \in Nat
      BY <1>2
    <3>5. CacheOK(k, q)' /\ cache'[q] = k
      BY <1>2, <1>6, <2>2, <3>1, <3>2, <3>3, <3>4, CacheStays
    <3>6. QED
      BY <3>5
  <2>4. QED
    BY <1>9, <2>2, <2>3 DEF CachesOK
<1>11. QED
  BY <1>6, <1>7, <1>8, <1>9, <1>10, <1>a

-----------------------------------------------------------------------------
(* Beliefs: what a prior is                                                *)

LEMMA PriorIsOne ==
    ASSUME B!BeliefAssumption, FilesOK, CachesOK, NEW p \in Process, NEW entry \in B!Prior(p)
    PROVE  CacheOK(entry, p) /\ hour - entry.at < Lifetime
<1>1. CASE B!CacheIsFresh(p)
  <2>1. entry = cache[p] /\ cache[p] # Absent /\ hour - cache[p].at < Lifetime
    BY <1>1 DEF B!Prior, B!CacheIsFresh
  <2>2. QED
    BY <2>1 DEF CachesOK
<1>2. CASE ~ B!CacheIsFresh(p)
  <2>1. PICK i \in B!Youngest : entry = [id |-> i, belief |-> B!Restored(files[i].belief), at |-> hour]
    BY <1>2 DEF B!Prior
  <2>2. i \in DOMAIN files \ torn /\ \A j \in DOMAIN files \ torn : files[j].at <= files[i].at
    BY <2>1 DEF B!Youngest
  <2>3. files[i] \in Saved /\ i \in Nat /\ hour \in Nat /\ Given(files[i].belief, observed)
    BY <2>2 DEF FilesOK
  <2> DEFINE b == files[i].belief
             r == B!Restored(b)
  <2>4. b \in Held /\ Given(b, observed)
    BY <2>3 DEF Saved
  <2> HIDE DEF b
  <2>5. r \in Held /\ Given(r, observed)
    BY <2>4 DEF B!Restored, Held, Given
  <2> HIDE DEF r
  <2>6. entry \in Entry /\ entry.id = i /\ entry.at = hour /\ entry.belief = r
    BY <2>1, <2>3, <2>5 DEF Entry, r, b
  <2>7. hour - entry.at < Lifetime
    BY <2>3, <2>6 DEF B!BeliefAssumption
  <2>8. CacheOK(entry, p)
    BY <2>2, <2>3, <2>5, <2>6 DEF CacheOK, Current, B!Whole
  <2>9. QED
    BY <2>7, <2>8
<1>3. QED
  BY <1>1, <1>2

\* An answer from a belief that is current and younger than a lifetime is current.
LEMMA AnswerIsCurrent ==
    ASSUME B!BeliefAssumption, FilesOK', hour' = hour, NEW p \in Process, NEW entry,
           CacheOK(entry, p)', hour - entry.at < Lifetime, B!Answered(p, entry.id)
    PROVE  AnswerOK'
<1>1. /\ reply' = [id |-> entry.id, by |-> p, at |-> hour, upTo |-> Len(files')]
      /\ reply'.id = entry.id /\ reply'.by = p /\ reply'.at = hour /\ reply'.upTo = Len(files')
  BY DEF B!Answered
<1>2. Len(files') \in Nat /\ files' \in Seq(Saved) /\ hour \in Nat /\ entry.at \in Nat /\ Lifetime \in Nat
  BY DEF FilesOK, CacheOK, Entry, B!BeliefAssumption
<1>3. B!Whole(entry.id)' /\ Current(entry, p)'
  BY DEF CacheOK
<1>4. ASSUME NEW i, B!Whole(i)', files'[i].by = p \/ hour - files'[i].at >= Lifetime
      PROVE  files'[i].at <= files'[entry.id].at
  <2>1. i \in DOMAIN files' \ torn' /\ files'[i] \in Saved
    BY <1>2, <1>4 DEF B!Whole
  <2>2. files'[i].at \in Nat
    BY <2>1 DEF Saved
  <2>3. files'[i].by = p \/ files'[i].at < entry.at
    BY <1>2, <1>4, <2>2
  <2>4. QED
    BY <1>3, <2>1, <2>3 DEF Current
<1>5. B!PriorIsCurrent'
  BY <1>1, <1>3, <1>4 DEF B!PriorIsCurrent
<1>6. QED
  BY <1>1, <1>2, <1>5 DEF AnswerOK

-----------------------------------------------------------------------------
(* Beliefs: the steps                                                      *)

LEMMA NothingSaved ==
    ASSUME FilesOK, files' = files, torn' = torn
    PROVE  Grown
BY DEF Grown, FilesOK

\* A belief that is current is put into the cache of its process.
LEMMA CachedStep ==
    ASSUME FilesOK, CachesOK, NEW p \in Process, NEW entry, CacheOK(entry, p),
           cache' = [cache EXCEPT ![p] = entry], UNCHANGED <<files, torn, hour, observed>>
    PROVE  FilesOK' /\ CachesOK' /\ CacheOK(entry, p)'
<1>1. FilesOK'
  BY DEF FilesOK, Given, B!PriorsAreReal, B!Whole
<1>2. \A e, q : CacheOK(e, q) => CacheOK(e, q)'
  BY DEF CacheOK, Given, B!Whole, Current
<1>3. cache \in [Process -> Entry \cup {Absent}] /\ entry \in Entry
  BY DEF CachesOK, CacheOK
<1>4. cache' \in [Process -> Entry \cup {Absent}]
      /\ \A q \in Process : cache'[q] = IF q = p THEN entry ELSE cache[q]
  BY <1>3
<1>5. QED
  BY <1>1, <1>2, <1>4 DEF CachesOK

LEMMA UninformativeIsHeld ==
    B!Uninformative \in Held /\ B!Uninformative.from = Absent /\ B!Uninformative.n = 0
    /\ B!Uninformative.obs = {} /\ B!Uninformative.kind = "wide"
BY DEF B!Uninformative, B!Belief, Held

LEMMA QueryPriorStep ==
    ASSUME B!BeliefAssumption, BeliefInv, NEW p \in Process, NEW policy, B!QueryPrior(p, policy)
    PROVE  BeliefInv'
<1>1. FilesOK /\ CachesOK /\ torn' = torn /\ hour' = hour /\ observed' = observed
  BY DEF BeliefInv, B!QueryPrior
<1>2. ASSUME NEW entry \in B!Prior(p), cache' = [cache EXCEPT ![p] = entry], files' = files, B!Answered(p, entry.id)
      PROVE  BeliefInv'
  <2>1. CacheOK(entry, p) /\ hour - entry.at < Lifetime
    BY <1>1, PriorIsOne
  <2>2. FilesOK' /\ CachesOK' /\ CacheOK(entry, p)'
    BY <1>1, <1>2, <2>1, CachedStep
  <2>3. AnswerOK'
    BY <1>1, <1>2, <2>1, <2>2, AnswerIsCurrent
  <2>4. QED
    BY <2>2, <2>3 DEF BeliefInv
<1>3. ASSUME B!Save(p, B!Uninformative), B!Answered(p, Len(files) + 1) PROVE BeliefInv'
  <2>1. PICK u : u = B!Uninformative
    OBVIOUS
  <2>2. u \in Held /\ u.from = Absent /\ Given(u, observed')
    BY <2>1, UninformativeIsHeld DEF Given
  <2>3. observed <= observed' /\ observed' \in 0 .. MaxObservations /\ hour \in Nat
    BY <1>1 DEF FilesOK, B!BeliefAssumption
  <2>4. B!Save(p, u)
    BY <1>3, <2>1
  <2>5. FilesOK' /\ CachesOK' /\ \E e : e.id = Len(files) + 1 /\ e.at = hour /\ CacheOK(e, p)'
    BY <1>1, <2>2, <2>3, <2>4, SaveStep
  <2>6. PICK e : e.id = Len(files) + 1 /\ e.at = hour /\ CacheOK(e, p)'
    BY <2>5
  <2>7. hour - e.at < Lifetime /\ B!Answered(p, e.id)
    BY <1>3, <2>3, <2>6 DEF B!BeliefAssumption
  <2>8. AnswerOK'
    BY <1>1, <2>5, <2>6, <2>7, AnswerIsCurrent
  <2>9. QED
    BY <2>5, <2>8 DEF BeliefInv
<1>4. QED
  BY <1>2, <1>3 DEF B!QueryPrior, B!Adjusted

LEMMA UpdateBeliefStep ==
    ASSUME B!BeliefAssumption, BeliefInv, NEW p \in Process, NEW size \in 1 .. 2, NEW mode,
           B!UpdateBelief(p, size, mode)
    PROVE  BeliefInv'
<1>a. PICK obs : obs = (observed + 1) .. (observed + size)
  OBVIOUS
<1>1. /\ FilesOK /\ CachesOK /\ AnswerOK
      /\ torn' = torn /\ hour' = hour /\ reply' = reply /\ observed' = observed + size
      /\ observed + size <= MaxObservations
  BY DEF BeliefInv, B!UpdateBelief
<1>2. /\ observed \in Nat /\ observed <= observed' /\ observed' \in 0 .. MaxObservations /\ observed' \in Nat
      /\ 1 .. observed \subseteq 1 .. observed'
  BY <1>1 DEF FilesOK, B!BeliefAssumption
<1>3. obs \subseteq 1 .. observed' /\ obs \subseteq Nat /\ obs # {} /\ Cardinality(obs) \in Nat
      /\ B!Cardinality(obs) = Cardinality(obs)
  <2>1. observed + 1 \in Int /\ observed + size \in Int
    BY <1>2
  <2>2. IsFiniteSet(obs)
    BY <1>a, <2>1, FS_Interval
  <2>3. observed + 1 \in obs
    BY <1>2, <1>a
  <2>4. obs \subseteq 1 .. observed'
    BY <1>1, <1>2, <1>a
  <2>5. B!Cardinality(obs) = Cardinality(obs)
    BY DEF B!Cardinality, Cardinality
  <2>6. QED
    BY <1>2, <2>2, <2>3, <2>4, <2>5, FS_CardinalityType
<1>4. ASSUME NEW prior \in Held, Given(prior, observed), NEW from, from = 0 \/ B!Whole(from),
             B!Save(p, B!Posterior(prior, obs, mode, from))
      PROVE  BeliefInv'
  <2> DEFINE kind == IF mode = "replace" \/ prior.kind = "normal" THEN "normal" ELSE "empirical"
             rests == IF mode = "bayesian" /\ prior.kind = "normal" THEN prior.obs \cup obs ELSE obs
  <2>1. PICK b : b = B!Posterior(prior, obs, mode, from)
    OBVIOUS
  <2>2. from \in Nat
    BY <1>1, <1>4 DEF B!Whole, FilesOK
  <2>3. prior.n \in Nat /\ ~ prior.widened /\ prior.widened = FALSE /\ prior.obs \subseteq Nat /\ prior.obs \subseteq 1 .. observed
    BY <1>4 DEF Held, Given
  <2>4. kind \in {"normal", "empirical"} /\ rests \subseteq Nat /\ rests \subseteq 1 .. observed' /\ rests # {}
    BY <1>2, <1>3, <2>3
  <2>5. prior.n + Cardinality(obs) \in Nat
    BY <1>3, <2>3
  <2>6. b = [kind |-> kind, obs |-> rests, n |-> prior.n + Cardinality(obs), from |-> from, widened |-> FALSE]
    BY <1>3, <2>1, <2>3 DEF B!Posterior, B!Belief, B!Count
  <2> HIDE DEF kind, rests
  <2>7. b \in Held /\ Given(b, observed') /\ b.from = from
    BY <2>2, <2>4, <2>5, <2>6 DEF Held, Given
  <2>8. FilesOK' /\ CachesOK' /\ Grown
    BY <1>1, <1>2, <1>4, <2>1, <2>7, SaveStep
  <2>9. AnswerOK'
    BY <1>1, <2>8, AnswerStays
  <2>10. QED
    BY <2>8, <2>9 DEF BeliefInv
<1>5. CASE \E entry \in B!Prior(p) : B!Save(p, B!Posterior(entry.belief, obs, mode, entry.id))
  <2>1. PICK entry \in B!Prior(p) : B!Save(p, B!Posterior(entry.belief, obs, mode, entry.id))
    BY <1>5
  <2>2. CacheOK(entry, p)
    BY <1>1, PriorIsOne
  <2>3. entry.belief \in Held /\ Given(entry.belief, observed) /\ B!Whole(entry.id)
    BY <2>2 DEF CacheOK, Entry
  <2>4. QED
    BY <1>4, <2>1, <2>3
<1>6. CASE B!Save(p, B!Posterior(B!Uninformative, obs, mode, 0))
  <2>1. B!Uninformative \in Held /\ Given(B!Uninformative, observed)
    BY UninformativeIsHeld DEF Given
  <2>2. QED
    BY <1>4, <1>6, <2>1
<1>7. QED
  BY <1>5, <1>6, <1>a DEF B!UpdateBelief

LEMMA EndStep ==
    ASSUME B!BeliefAssumption, BeliefInv, NEW p \in Process, B!Crash(p)
    PROVE  BeliefInv'
<1>1. /\ FilesOK /\ CachesOK /\ AnswerOK
      /\ hour' = hour /\ observed' = observed /\ reply' = reply /\ cache' = [cache EXCEPT ![p] = Absent]
  BY DEF BeliefInv, B!Crash
<1>2. hour \in Nat /\ observed \in Nat
  BY <1>1 DEF FilesOK
<1>3. ASSUME FilesOK', Grown, \A i \in DOMAIN files' \ DOMAIN files : i \in torn' PROVE BeliefInv'
  <2>1. AnswerOK'
    BY <1>1, <1>3, AnswerStays
  <2>2. ASSUME NEW q \in Process, cache[q] # Absent PROVE CacheOK(cache[q], q)' \/ q = p
    <3>1. PICK e : e = cache[q]
      OBVIOUS
    <3>2. CacheOK(e, q)
      BY <1>1, <2>2, <3>1 DEF CachesOK
    <3>3. hour <= hour' /\ hour' \in Nat /\ observed <= observed' /\ observed' \in Nat
      BY <1>1, <1>2
    <3>4. CacheOK(e, q)'
      BY <1>1, <1>3, <3>2, <3>3, CacheStays
    <3>5. q # p => cache'[q] = e
      BY <1>1, <3>1 DEF CachesOK
    <3>6. QED
      BY <3>4, <3>5
  <2>3. cache' \in [Process -> Entry \cup {Absent}] /\ cache'[p] = Absent
        /\ \A q \in Process \ {p} : cache'[q] = cache[q]
    BY <1>1 DEF CachesOK
  <2>4. CachesOK'
    BY <2>2, <2>3 DEF CachesOK
  <2>5. QED
    BY <1>3, <2>1, <2>4 DEF BeliefInv
<1>4. CASE files' = files /\ torn' = torn
  <2>1. Grown
    BY <1>1, <1>4, NothingSaved
  <2>2. FilesOK'
    BY <1>1, <1>4 DEF FilesOK, B!PriorsAreReal, B!Whole
  <2>3. QED
    BY <1>3, <1>4, <2>1, <2>2
<1>5. CASE /\ files' = Append(files, [belief |-> B!Uninformative, at |-> hour, by |-> p])
           /\ torn' = torn \cup {Len(files) + 1}
  <2>1. PICK f : f = [belief |-> B!Uninformative, at |-> hour, by |-> p]
    OBVIOUS
  <2>2. PICK n : n = Len(files) + 1
    OBVIOUS
  <2>3. f \in Saved /\ f.belief = B!Uninformative /\ f.at = hour
    BY <1>2, <2>1, UninformativeIsHeld DEF Saved
  <2>4. files \in Seq(Saved) /\ torn \subseteq DOMAIN files
    BY <1>1 DEF FilesOK
  <2>5. /\ files' \in Seq(Saved) /\ Len(files') = n /\ Len(files) \in Nat /\ files'[n] = f
        /\ DOMAIN files = 1 .. Len(files) /\ DOMAIN files' = DOMAIN files \cup {n}
        /\ \A i \in DOMAIN files : files'[i] = files[i] /\ i \in Nat /\ i < n
    BY <1>5, <2>1, <2>2, <2>3, <2>4, OneMore
  <2>6. n \in Nat /\ n > Len(files) /\ Len(files) <= Len(files')
    BY <2>2, <2>5
  <2>7. torn' = torn \cup {n}
    BY <1>5, <2>2
  <2>8. Grown
    BY <2>5, <2>6, <2>7 DEF Grown
  <2>9. \A i \in DOMAIN files' : files'[i].at <= hour' /\ Given(files'[i].belief, observed')
    BY <1>1, <1>2, <2>3, <2>5, UninformativeIsHeld DEF FilesOK, Given
  <2>10. B!PriorsAreReal'
    <3>1. \A k : B!Whole(k) => k \in DOMAIN files' \ torn'
      BY <2>5, <2>7 DEF B!Whole
    <3>2. \A i \in DOMAIN files' : i \in DOMAIN files \/ files'[i].belief = B!Uninformative
      BY <2>3, <2>5
    <3>3. B!Uninformative.widened = FALSE
      BY DEF B!Uninformative, B!Belief
    <3>4. QED
      BY <1>1, <2>5, <3>1, <3>2, <3>3, UninformativeIsHeld DEF FilesOK, B!PriorsAreReal, B!Whole
  <2>11. torn' \subseteq DOMAIN files'
    BY <2>4, <2>5, <2>7
  <2>12. FilesOK'
    BY <1>1, <2>5, <2>9, <2>10, <2>11 DEF FilesOK
  <2>13. QED
    BY <1>3, <2>5, <2>7, <2>8, <2>12
<1>6. QED
  BY <1>4, <1>5 DEF B!Crash

LEMMA HourStep ==
    ASSUME B!BeliefAssumption, BeliefInv, B!Tick
    PROVE  BeliefInv'
<1>1. /\ FilesOK /\ CachesOK /\ AnswerOK
      /\ hour < MaxHour /\ hour' = hour + 1 /\ UNCHANGED <<files, torn, cache, observed, reply>>
  BY DEF BeliefInv, B!Tick
<1>2. hour \in Nat /\ hour' \in 1 .. MaxHour /\ hour <= hour' /\ hour' \in Nat /\ observed \in Nat
  BY <1>1 DEF FilesOK, B!BeliefAssumption
<1>3. Grown
  BY <1>1, NothingSaved
<1>4. \A i \in DOMAIN files : files[i].at <= hour'
  <2>1. \A i \in DOMAIN files : files[i] \in Saved /\ files[i].at <= hour
    BY <1>1 DEF FilesOK
  <2>2. \A i \in DOMAIN files : files[i].at \in Nat /\ files[i].at <= hour
    BY <2>1 DEF Saved
  <2>3. QED
    BY <1>1, <1>2, <2>2
<1>5. FilesOK'
  BY <1>1, <1>2, <1>4 DEF FilesOK, B!PriorsAreReal, B!Whole
<1>6. CachesOK'
  <2>1. ASSUME NEW q \in Process, cache[q] # Absent PROVE CacheOK(cache[q], q)'
    <3>1. PICK e : e = cache[q]
      OBVIOUS
    <3>2. CacheOK(e, q)
      BY <1>1, <2>1, <3>1 DEF CachesOK
    <3>3. observed <= observed' /\ observed' \in Nat /\ DOMAIN files' \ DOMAIN files = {}
      BY <1>1, <1>2
    <3>4. CacheOK(e, q)'
      BY <1>1, <1>2, <1>3, <3>2, <3>3, CacheStays
    <3>5. QED
      BY <1>1, <3>1, <3>4
  <2>2. QED
    BY <1>1, <2>1 DEF CachesOK
<1>7. AnswerOK'
  BY <1>1, <1>3, AnswerStays
<1>8. QED
  BY <1>5, <1>6, <1>7 DEF BeliefInv

-----------------------------------------------------------------------------
(* Beliefs: the theorems                                                   *)

\* The invariant is inductive: several processes with a cache each ask for priors, update them and
\* end, also in the middle of a file (prior_manager.py, belief_engine.py).
THEOREM BeliefsInductive == ASSUME B!BeliefAssumption PROVE B!Spec => []BeliefInv
<1>1. B!Init => BeliefInv
  BY BeliefStart
<1>2. BeliefInv /\ [B!Next]_(B!vars) => BeliefInv'
  <2> SUFFICES ASSUME BeliefInv, [B!Next]_(B!vars) PROVE BeliefInv'
    OBVIOUS
  <2>1. ASSUME NEW p \in Process, NEW policy, B!QueryPrior(p, policy) PROVE BeliefInv'
    BY <2>1, QueryPriorStep
  <2>2. ASSUME NEW p \in Process, NEW size \in 1 .. 2, NEW mode, B!UpdateBelief(p, size, mode) PROVE BeliefInv'
    BY <2>2, UpdateBeliefStep
  <2>3. ASSUME NEW p \in Process, B!Crash(p) PROVE BeliefInv'
    BY <2>3, EndStep
  <2>4. CASE B!Tick
    BY <2>4, HourStep
  <2>5. CASE UNCHANGED B!vars
    <3>1. UNCHANGED <<files, torn, cache, hour, observed, reply>>
      BY <2>5 DEF B!vars
    <3>2. FilesOK'
      BY <3>1 DEF BeliefInv, FilesOK, B!PriorsAreReal, B!Whole
    <3>3. CachesOK'
      BY <3>1 DEF BeliefInv, CachesOK, CacheOK, Current, B!Whole
    <3>4. AnswerOK'
      BY <3>1 DEF BeliefInv, AnswerOK, B!PriorIsCurrent, B!Whole
    <3>5. QED
      BY <3>2, <3>3, <3>4 DEF BeliefInv
  <2>6. QED
    BY <2>1, <2>2, <2>3, <2>4, <2>5 DEF B!Next
<1>3. QED
  BY <1>1, <1>2, PTL DEF B!Spec

\* Cached beliefs have a file, and beliefs rest on observations that were given
\* (belief_engine.py, prior_manager.py).
THEOREM BeliefsTyped == ASSUME B!BeliefAssumption PROVE B!Spec => []B!TypeOK
<1>1. BeliefInv => B!TypeOK
  BY DEF BeliefInv, FilesOK, CachesOK, CacheOK, Given, B!Whole, B!TypeOK
<1>2. QED
  BY <1>1, BeliefsInductive, PTL

\* The prior that is answered is no older than the last one its process saved, nor than any that
\* was saved a lifetime ago, whichever process saved it and wherever one ended
\* (prior_manager.py:get_prior).
THEOREM PriorsAreCurrent == ASSUME B!BeliefAssumption PROVE B!Spec => []B!PriorIsCurrent
<1>1. BeliefInv => B!PriorIsCurrent
  BY DEF BeliefInv, AnswerOK
<1>2. QED
  BY <1>1, BeliefsInductive, PTL

\* A belief's prior is an older file that can be read or one made for want of any, a normal belief
\* was given observations, and no belief is kept as a policy widened it
\* (belief_engine.py:update_belief_api, query_prior_api).
THEOREM PriorsAreReal == ASSUME B!BeliefAssumption PROVE B!Spec => []B!PriorsAreReal
<1>1. BeliefInv => B!PriorsAreReal
  BY DEF BeliefInv, FilesOK
<1>2. QED
  BY <1>1, BeliefsInductive, PTL

-----------------------------------------------------------------------------
(* Beliefs: how many observations                                          *)

\* D gives each file the observations of its belief and of all that this descends from.
Descends(D) ==
    D = [i \in DOMAIN files |->
            files[i].belief.obs \cup
            (IF files[i].belief.from \in DOMAIN files THEN D[files[i].belief.from] ELSE {})]

\* All of them have been given, and they are as many as any belief that is stored or cached counts.
Counted(D) ==
    /\ Descends(D)
    /\ \A i \in DOMAIN files : D[i] \subseteq 1 .. observed /\ files[i].belief.n <= B!Cardinality(D[i])
    /\ \A p \in Process : cache[p] # Absent => cache[p].belief.n <= B!Cardinality(D[cache[p].id])

LEMMA CountsAlike == \A s : B!Cardinality(s) = Cardinality(s)
BY DEF B!Cardinality, Cardinality

\* The sizes of what has been given.
LEMMA GivenSize ==
    ASSUME NEW n \in Nat, NEW s \in SUBSET (1 .. n)
    PROVE  IsFiniteSet(s) /\ B!Cardinality(s) \in Nat
<1>1. IsFiniteSet(1 .. n)
  BY FS_Interval
<1>2. IsFiniteSet(s)
  BY <1>1, FS_Subset
<1> QED
  BY <1>2, FS_CardinalityType, CountsAlike

\* Observations that are new add to those that were given.
LEMMA SizesAdd ==
    ASSUME NEW n \in Nat, NEW size \in Nat, NEW obs, obs = (n + 1) .. (n + size),
           NEW old \in SUBSET (1 .. n), NEW more \in SUBSET (1 .. n + size), obs \cup old \subseteq more
    PROVE  B!Cardinality(old) + B!Cardinality(obs) <= B!Cardinality(more)
<1>1. obs \subseteq 1 .. n + size /\ n + size \in Nat /\ old \subseteq 1 .. n + size
  OBVIOUS
<1>2. IsFiniteSet(obs) /\ IsFiniteSet(old) /\ IsFiniteSet(more)
      /\ Cardinality(obs) \in Nat /\ Cardinality(old) \in Nat /\ Cardinality(more) \in Nat
  BY <1>1, GivenSize, CountsAlike
<1>3. obs \cap old = {}
  OBVIOUS
<1>4. Cardinality(obs \cup old) = Cardinality(obs) + Cardinality(old) - Cardinality(obs \cap old)
  BY <1>2, FS_Union
<1>5. Cardinality(obs \cap old) = 0
  BY <1>3, FS_EmptySet
<1>6. Cardinality(obs \cup old) <= Cardinality(more)
  BY <1>2, FS_Subset
<1> QED
  BY <1>2, <1>4, <1>5, <1>6, CountsAlike

\* What a prior counts is backed by its file.
LEMMA PriorIsCounted ==
    ASSUME B!BeliefAssumption, BeliefInv, NEW D, Counted(D), NEW p \in Process, NEW entry \in B!Prior(p)
    PROVE  entry.id \in DOMAIN files /\ entry.belief.n <= B!Cardinality(D[entry.id])
<1>1. CacheOK(entry, p)
  BY PriorIsOne DEF BeliefInv
<1>2. entry.id \in DOMAIN files
  BY <1>1 DEF CacheOK, B!Whole
<1>3. CASE B!CacheIsFresh(p)
  <2>1. entry = cache[p] /\ cache[p] # Absent
    BY <1>3 DEF B!Prior, B!CacheIsFresh
  <2> QED
    BY <1>2, <2>1 DEF Counted
<1>4. CASE ~ B!CacheIsFresh(p)
  <2>1. PICK i \in B!Youngest : entry = [id |-> i, belief |-> B!Restored(files[i].belief), at |-> hour]
    BY <1>4 DEF B!Prior
  <2>2. i \in DOMAIN files /\ files \in Seq(Saved)
    BY <2>1 DEF B!Youngest, BeliefInv, FilesOK
  <2>3. files[i].belief \in Held
    <3>1. files[i] \in Saved
      BY <2>2
    <3> QED
      BY <3>1 DEF Saved
  <2>4. entry.belief.n = 0
    BY <2>1, <2>3 DEF B!Restored, Held
  <2>5. D[entry.id] \in SUBSET (1 .. observed) /\ observed \in Nat
    BY <1>2 DEF Counted, BeliefInv, FilesOK
  <2>6. B!Cardinality(D[entry.id]) \in Nat
    BY <2>5, GivenSize
  <2> QED
    BY <1>2, <2>4, <2>6
<1> QED
  BY <1>3, <1>4

\* A file that is added leaves what the others descend from as it is.
LEMMA CountsGrow ==
    ASSUME FilesOK, FilesOK', NEW D, Counted(D), NEW f, files' = Append(files, f),
           observed <= observed', f.belief.obs \subseteq 1 .. observed',
           f.belief.from \in Nat \cup {Absent}, Absent \notin Nat,
           NEW rests, rests = f.belief.obs \cup (IF f.belief.from \in DOMAIN files THEN D[f.belief.from] ELSE {}),
           f.belief.n <= B!Cardinality(rests),
           \A q \in Process : \/ cache'[q] = Absent \/ cache'[q] = cache[q]
                              \/ cache'[q].id = Len(files) + 1 /\ cache'[q].belief.n <= B!Cardinality(rests),
           \A q \in Process : cache[q] # Absent => cache[q].id \in DOMAIN files
    PROVE  \E E : Counted(E)'
<1>1. PICK n : n = Len(files) + 1
  OBVIOUS
<1>2. files \in Seq(Saved) /\ files' \in Seq(Saved)
  BY DEF FilesOK
<1>3. /\ n \in Nat /\ DOMAIN files' = DOMAIN files \cup {n} /\ files'[n] = f /\ n \notin DOMAIN files
      /\ DOMAIN files = 1 .. Len(files)
      /\ \A i \in DOMAIN files : files'[i] = files[i] /\ i < n /\ i \in Nat
  BY <1>1, <1>2
<1>4. PICK E : E = [i \in DOMAIN files' |-> IF i = n THEN rests ELSE D[i]]
  OBVIOUS
<1>5. DOMAIN E = DOMAIN files' /\ E[n] = rests /\ \A i \in DOMAIN files : E[i] = D[i]
  BY <1>3, <1>4
<1>6. \A i \in DOMAIN files' : files'[i].belief.from \in DOMAIN files' => files'[i].belief.from < i
  <2>1. ASSUME NEW i \in DOMAIN files', files'[i].belief.from \in DOMAIN files' PROVE files'[i].belief.from < i
    <3>1. files'[i].belief.from = Absent \/ files'[i].belief.from = 0 \/ files'[i].belief.from < i
      BY <2>1 DEF FilesOK, B!PriorsAreReal
    <3>2. files'[i].belief.from \in Nat /\ files'[i].belief.from # 0
      BY <1>2, <1>3, <2>1
    <3> QED
      BY <3>1, <3>2
  <2> QED
    BY <2>1
<1>7. \A i \in DOMAIN files :
         D[i] = files[i].belief.obs \cup (IF files[i].belief.from \in DOMAIN files THEN D[files[i].belief.from] ELSE {})
  BY DEF Counted, Descends
<1>8. \A i \in DOMAIN files' :
         E[i] = files'[i].belief.obs \cup (IF files'[i].belief.from \in DOMAIN files' THEN E[files'[i].belief.from] ELSE {})
  <2> SUFFICES ASSUME NEW i \in DOMAIN files'
               PROVE  E[i] = files'[i].belief.obs \cup
                             (IF files'[i].belief.from \in DOMAIN files' THEN E[files'[i].belief.from] ELSE {})
    OBVIOUS
  <2>1. PICK from : from = files'[i].belief.from
    OBVIOUS
  <2>2. from \in DOMAIN files' <=> from \in DOMAIN files
    <3>1. i \in Nat /\ i <= n
      BY <1>3
    <3>2. from \in DOMAIN files' => from # n
      <4>1. from \in DOMAIN files' => from < i
        BY <1>6, <2>1
      <4> QED
        BY <1>3, <3>1, <4>1
    <3> QED
      BY <1>3, <3>2
  <2>3. from \in DOMAIN files => E[from] = D[from]
    BY <1>5
  <2>4. CASE i = n
    BY <1>3, <1>5, <2>1, <2>2, <2>3, <2>4
  <2>5. CASE i # n
    BY <1>3, <1>5, <1>7, <2>1, <2>2, <2>3, <2>5
  <2> QED
    BY <2>4, <2>5
<1>9. Descends(E)'
  <2>1. PICK G : G = [i \in DOMAIN files' |->
                files'[i].belief.obs \cup (IF files'[i].belief.from \in DOMAIN files' THEN E[files'[i].belief.from] ELSE {})]
    OBVIOUS
  <2>2. DOMAIN E = DOMAIN G /\ (\A i \in DOMAIN files' : E[i] = G[i])
        /\ E = [i \in DOMAIN files' |-> E[i]] /\ G = [i \in DOMAIN files' |-> G[i]]
    BY <1>4, <1>5, <1>8, <2>1
  <2>3. E = G
    BY <2>2
  <2> QED
    BY <2>1, <2>3 DEF Descends
<1>10. \A i \in DOMAIN files : D[i] \subseteq 1 .. observed'
  BY DEF Counted, FilesOK
<1>11. rests \subseteq 1 .. observed'
  BY <1>10
<1>12. \A i \in DOMAIN files' : E[i] \subseteq 1 .. observed' /\ files'[i].belief.n <= B!Cardinality(E[i])
  BY <1>3, <1>5, <1>10, <1>11 DEF Counted
<1>13. \A q \in Process : cache'[q] # Absent => cache'[q].belief.n <= B!Cardinality(E[cache'[q].id])
  <2> SUFFICES ASSUME NEW q \in Process, cache'[q] # Absent
               PROVE  cache'[q].belief.n <= B!Cardinality(E[cache'[q].id])
    OBVIOUS
  <2>1. CASE cache'[q] = cache[q]
    BY <1>5, <2>1 DEF Counted
  <2>2. CASE cache'[q].id = Len(files) + 1 /\ cache'[q].belief.n <= B!Cardinality(rests)
    BY <1>1, <1>5, <2>2
  <2> QED
    BY <2>1, <2>2
<1> QED
  BY <1>9, <1>12, <1>13 DEF Counted

\* A step that adds no file and caches what is stored or forgets it.
LEMMA CountsStay ==
    ASSUME FilesOK', NEW D, Counted(D), files' = files, observed' = observed,
           \A q \in Process : \/ cache'[q] = Absent \/ cache'[q] = cache[q]
                              \/ cache'[q].belief.n <= B!Cardinality(D[cache'[q].id])
    PROVE  \E E : Counted(E)'
<1>1. Descends(D)'
  BY DEF Counted, Descends
<1>2. Counted(D)'
  BY <1>1 DEF Counted
<1> QED
  BY <1>2

LEMMA CountsStep ==
    ASSUME B!BeliefAssumption, BeliefInv, BeliefInv', [B!Next]_(B!vars), NEW D, Counted(D)
    PROVE  \E E : Counted(E)'
<1>1. /\ FilesOK /\ FilesOK' /\ CachesOK /\ observed \in Nat /\ Absent \notin Nat
      /\ files \in Seq(Saved) /\ cache \in [Process -> Entry \cup {Absent}]
      /\ \A q \in Process : cache[q] # Absent => cache[q].id \in DOMAIN files
  BY DEF BeliefInv, FilesOK, CachesOK, CacheOK, B!Whole, B!BeliefAssumption
<1>2. ASSUME NEW p \in Process, NEW b, b \in Held, b.obs \subseteq 1 .. observed', observed <= observed',
             NEW rests, rests = b.obs \cup (IF b.from \in DOMAIN files THEN D[b.from] ELSE {}),
             b.n <= B!Cardinality(rests), B!Save(p, b)
      PROVE  \E E : Counted(E)'
  <2>1. PICK f : f = [belief |-> b, at |-> hour, by |-> p]
    OBVIOUS
  <2>2. PICK e : e = [id |-> Len(files) + 1, belief |-> b, at |-> hour]
    OBVIOUS
  <2>3. files' = Append(files, f) /\ cache' = [cache EXCEPT ![p] = e]
    BY <1>2, <2>1, <2>2 DEF B!Save
  <2>4. f.belief = b /\ e.id = Len(files) + 1 /\ e.belief = b /\ b.from \in Nat \cup {Absent}
    BY <1>2, <2>1, <2>2 DEF Held
  <2>5. \A q \in Process : cache'[q] = cache[q] \/ cache'[q] = e
    BY <1>1, <2>3
  <2> QED
    BY <1>1, <1>2, <2>3, <2>4, <2>5, CountsGrow
<1>3. ASSUME NEW p \in Process, NEW policy, B!QueryPrior(p, policy) PROVE \E E : Counted(E)'
  <2>1. CASE \E entry \in B!Prior(p) : cache' = [cache EXCEPT ![p] = entry] /\ files' = files
    <3>1. PICK entry \in B!Prior(p) : cache' = [cache EXCEPT ![p] = entry] /\ files' = files
      BY <2>1
    <3>2. entry.belief.n <= B!Cardinality(D[entry.id])
      BY PriorIsCounted
    <3>3. \A q \in Process : cache'[q] = cache[q] \/ cache'[q] = entry
      BY <1>1, <3>1
    <3>4. observed' = observed
      BY <1>3 DEF B!QueryPrior
    <3> QED
      BY <1>1, <3>1, <3>2, <3>3, <3>4, CountsStay
  <2>2. CASE B!Save(p, B!Uninformative)
    <3>1. PICK u : u = B!Uninformative
      OBVIOUS
    <3>2. u \in Held /\ u.from = Absent /\ u.n = 0 /\ u.obs = {}
      BY <3>1, UninformativeIsHeld
    <3>3. observed' = observed
      BY <1>3 DEF B!QueryPrior
    <3>4. DOMAIN files \subseteq Nat
      BY <1>1
    <3>5. u.obs \cup (IF u.from \in DOMAIN files THEN D[u.from] ELSE {}) = {}
      BY <1>1, <3>2, <3>4
    <3>6. B!Cardinality({}) = 0
      BY FS_EmptySet, CountsAlike
    <3>7. B!Save(p, u) /\ u.obs \subseteq 1 .. observed' /\ observed <= observed' /\ u.n <= B!Cardinality({})
      BY <1>1, <2>2, <3>1, <3>2, <3>3, <3>6
    <3> QED
      BY <1>2, <3>2, <3>5, <3>7
  <2> QED
    BY <1>3, <2>1, <2>2 DEF B!QueryPrior, B!Adjusted
<1>4. ASSUME NEW p \in Process, NEW size \in 1 .. 2, NEW mode, B!UpdateBelief(p, size, mode) PROVE \E E : Counted(E)'
  <2>1. PICK obs : obs = (observed + 1) .. (observed + size)
    OBVIOUS
  <2>2. observed' = observed + size /\ observed' \in Nat /\ observed <= observed' /\ obs \subseteq 1 .. observed' /\ obs \subseteq Nat
        /\ size \in Nat
    BY <1>1, <1>4, <2>1 DEF B!UpdateBelief
  <2>3. B!Cardinality(obs) \in Nat
    BY <2>2, GivenSize
  <2>7. 1 .. observed \subseteq 1 .. observed'
    BY <1>1, <2>2
  <2>4. ASSUME NEW prior \in Held, prior.obs \subseteq 1 .. observed, NEW from \in Nat,
               NEW old \in SUBSET (1 .. observed), old = (IF from \in DOMAIN files THEN D[from] ELSE {}),
               prior.n <= B!Cardinality(old), B!Save(p, B!Posterior(prior, obs, mode, from))
        PROVE  \E E : Counted(E)'
    <3> DEFINE kind == IF mode = "replace" \/ prior.kind = "normal" THEN "normal" ELSE "empirical"
               own == IF mode = "bayesian" /\ prior.kind = "normal" THEN prior.obs \cup obs ELSE obs
    <3>1. PICK b : b = B!Posterior(prior, obs, mode, from)
      OBVIOUS
    <3>2. prior.n \in Nat /\ prior.widened = FALSE /\ prior.obs \subseteq Nat
      BY <2>4 DEF Held
    <3>3. kind \in {"normal", "empirical"} /\ own \subseteq Nat /\ own \subseteq 1 .. observed' /\ obs \subseteq own
      <4>1. own = obs \/ own = prior.obs \cup obs
        OBVIOUS
      <4>2. kind \in {"normal", "empirical"}
        OBVIOUS
      <4>3. prior.obs \subseteq 1 .. observed'
        BY <2>4, <2>7
      <4> HIDE DEF own, kind
      <4> QED
        BY <2>2, <3>2, <4>1, <4>2, <4>3
    <3>4. b = [kind |-> kind, obs |-> own, n |-> prior.n + B!Cardinality(obs), from |-> from, widened |-> FALSE]
      BY <3>1, <3>2 DEF B!Posterior, B!Belief, B!Count
    <3> HIDE DEF kind, own
    <3>5. b \in Held /\ b.obs = own /\ b.from = from /\ b.n = prior.n + B!Cardinality(obs)
      BY <2>3, <3>2, <3>3, <3>4 DEF Held
    <3>6. PICK rests : rests = b.obs \cup (IF b.from \in DOMAIN files THEN D[b.from] ELSE {})
      OBVIOUS
    <3>7. rests = own \cup old
      BY <2>4, <3>5, <3>6
    <3>8. rests \in SUBSET (1 .. observed + size) /\ obs \cup old \subseteq rests
      <4>1. old \subseteq 1 .. observed'
        BY <2>4, <2>7
      <4> QED
        BY <2>2, <3>3, <3>7, <4>1
    <3>9. B!Cardinality(old) + B!Cardinality(obs) <= B!Cardinality(rests)
      BY <1>1, <2>1, <2>2, <3>8, SizesAdd
    <3>10. B!Cardinality(old) \in Nat /\ B!Cardinality(rests) \in Nat
      BY <1>1, <2>2, <3>8, GivenSize
    <3>11. b.n <= B!Cardinality(rests)
      BY <2>3, <2>4, <3>2, <3>5, <3>9, <3>10
    <3>12. B!Save(p, b)
      BY <2>4, <3>1
    <3> QED
      BY <1>2, <2>2, <3>3, <3>5, <3>6, <3>11, <3>12
  <2>5. CASE \E entry \in B!Prior(p) : B!Save(p, B!Posterior(entry.belief, obs, mode, entry.id))
    <3>1. PICK entry \in B!Prior(p) : B!Save(p, B!Posterior(entry.belief, obs, mode, entry.id))
      BY <2>5
    <3>2. CacheOK(entry, p)
      BY PriorIsOne, <1>1
    <3>3. entry.id \in DOMAIN files /\ entry.belief.n <= B!Cardinality(D[entry.id])
      BY PriorIsCounted
    <3>4. entry.belief \in Held /\ entry.belief.obs \subseteq 1 .. observed /\ entry.id \in Nat
      BY <3>2 DEF CacheOK, Entry, Given
    <3>5. D[entry.id] \in SUBSET (1 .. observed)
      BY <3>3 DEF Counted
    <3> QED
      BY <2>4, <3>1, <3>3, <3>4, <3>5
  <2>6. CASE B!Save(p, B!Posterior(B!Uninformative, obs, mode, 0))
    <3>1. PICK u : u = B!Uninformative
      OBVIOUS
    <3>2. u \in Held /\ u.n = 0 /\ u.obs = {} /\ B!Save(p, B!Posterior(u, obs, mode, 0))
      BY <2>6, <3>1, UninformativeIsHeld
    <3>3. 0 \notin DOMAIN files /\ B!Cardinality({}) = 0 /\ {} \in SUBSET (1 .. observed) /\ u.obs \subseteq 1 .. observed
      BY <1>1, <3>2, FS_EmptySet, CountsAlike
    <3>4. {} = (IF 0 \in DOMAIN files THEN D[0] ELSE {}) /\ u.n <= B!Cardinality({})
      BY <3>2, <3>3
    <3> QED
      BY <2>4, <3>2, <3>3, <3>4
  <2> QED
    BY <1>4, <2>1, <2>5, <2>6 DEF B!UpdateBelief
<1>5. ASSUME NEW p \in Process, B!Crash(p) PROVE \E E : Counted(E)'
  <2>1. observed' = observed /\ \A q \in Process : cache'[q] = cache[q] \/ cache'[q] = Absent
    BY <1>1, <1>5 DEF B!Crash
  <2>2. CASE files' = files
    BY <1>1, <2>1, <2>2, CountsStay
  <2>3. CASE files' = Append(files, [belief |-> B!Uninformative, at |-> hour, by |-> p])
    <3>1. PICK f : f = [belief |-> B!Uninformative, at |-> hour, by |-> p]
      OBVIOUS
    <3>2. f.belief.from = Absent /\ f.belief.n = 0 /\ f.belief.obs = {}
      BY <3>1, UninformativeIsHeld
    <3>3. DOMAIN files \subseteq Nat
      BY <1>1
    <3>4. {} = f.belief.obs \cup (IF f.belief.from \in DOMAIN files THEN D[f.belief.from] ELSE {})
      BY <1>1, <3>2, <3>3
    <3>5. f.belief.n <= B!Cardinality({})
      BY <3>2, FS_EmptySet, CountsAlike
    <3>6. files' = Append(files, f) /\ observed <= observed' /\ f.belief.obs \subseteq 1 .. observed'
          /\ f.belief.from \in Nat \cup {Absent}
      BY <1>1, <2>1, <2>3, <3>1, <3>2
    <3> QED
      BY <1>1, <2>1, <3>4, <3>5, <3>6, CountsGrow
  <2> QED
    BY <1>5, <2>2, <2>3 DEF B!Crash
<1>6. CASE B!Tick
  BY <1>1, <1>6, CountsStay DEF B!Tick
<1>7. CASE UNCHANGED B!vars
  BY <1>1, <1>7, CountsStay DEF B!vars
<1> QED
  BY <1>3, <1>4, <1>5, <1>6, <1>7 DEF B!Next

\* What a file descends from is determined.
LEMMA DescentIs ==
    ASSUME FilesOK, Absent \notin Nat, NEW D, Descends(D)
    PROVE  B!Descent = D
<1>1. files \in Seq(Saved) /\ DOMAIN files \subseteq Nat /\ 0 \notin DOMAIN files
  BY DEF FilesOK
<1>2. \A i \in DOMAIN files : files[i].belief.from \in DOMAIN files => files[i].belief.from < i
  <2>1. ASSUME NEW i \in DOMAIN files, files[i].belief.from \in DOMAIN files PROVE files[i].belief.from < i
    <3>1. files[i].belief.from = Absent \/ files[i].belief.from = 0 \/ files[i].belief.from < i
      BY <2>1 DEF FilesOK, B!PriorsAreReal
    <3>2. files[i].belief.from # 0 /\ files[i].belief.from # Absent
      BY <1>1, <2>1
    <3> QED
      BY <3>1, <3>2
  <2> QED
    BY <2>1
<1>3. ASSUME NEW E, Descends(E) PROVE E = D
  <2> DEFINE Bad == {i \in DOMAIN files : E[i] # D[i]}
  <2>1. \A i \in DOMAIN files :
           /\ D[i] = files[i].belief.obs \cup (IF files[i].belief.from \in DOMAIN files THEN D[files[i].belief.from] ELSE {})
           /\ E[i] = files[i].belief.obs \cup (IF files[i].belief.from \in DOMAIN files THEN E[files[i].belief.from] ELSE {})
    BY <1>3 DEF Descends
  <2>2. Bad = {}
    <3>1. SUFFICES ASSUME Bad # {} PROVE FALSE
      OBVIOUS
    <3>2. Bad \subseteq Nat
      BY <1>1
    <3>3. PICK i \in Bad : \A y \in Bad : i <= y
      <4> HIDE DEF Bad
      <4> QED
        BY <3>1, <3>2, LeastNumber
    <3>4. PICK from : from = files[i].belief.from
      OBVIOUS
    <3>5. from \in DOMAIN files => E[from] = D[from]
      <4>1. from \in DOMAIN files => from < i /\ from \in Nat /\ i \in Nat
        BY <1>1, <1>2, <3>3, <3>4
      <4> QED
        BY <3>3, <4>1
    <3> QED
      BY <2>1, <3>3, <3>4, <3>5
  <2>3. DOMAIN D = DOMAIN files /\ DOMAIN E = DOMAIN files
        /\ D = [i \in DOMAIN files |-> D[i]] /\ E = [i \in DOMAIN files |-> E[i]]
    BY <1>3 DEF Descends
  <2> QED
    BY <2>2, <2>3
<1>4. B!Descent = CHOOSE E : Descends(E)
  BY DEF B!Descent, Descends
<1> QED
  BY <1>3, <1>4

\* A belief's number of observations never exceeds the observations that it and its priors were
\* given, whichever process updated them, from its cache or from a file
\* (belief_updater.py:bayesian_update, prior_manager.py).
THEOREM CountsStayBacked == ASSUME B!BeliefAssumption PROVE B!Spec => []B!CountsAreBacked
<1>1. B!Init => \E D : Counted(D)
  <2> SUFFICES ASSUME B!Init PROVE \E D : Counted(D)
    OBVIOUS
  <2>1. PICK D : D = [i \in DOMAIN files |-> {}]
    OBVIOUS
  <2>2. DOMAIN files = {} /\ cache = [p \in Process |-> Absent]
    BY DEF B!Init
  <2>3. Descends(D)
    BY <2>1, <2>2 DEF Descends
  <2> QED
    BY <2>2, <2>3 DEF Counted
<1>2. BeliefInv /\ BeliefInv' /\ (\E D : Counted(D)) /\ [B!Next]_(B!vars) => (\E D : Counted(D))'
  BY CountsStep
<1>3. BeliefInv /\ (\E D : Counted(D)) => B!CountsAreBacked
  <2> SUFFICES ASSUME BeliefInv, NEW D, Counted(D) PROVE B!CountsAreBacked
    OBVIOUS
  <2>1. B!Descent = D
    BY DescentIs DEF BeliefInv, Counted, B!BeliefAssumption
  <2> QED
    BY <2>1 DEF BeliefInv, FilesOK, Counted, B!CountsAreBacked
<1> QED
  BY <1>1, <1>2, <1>3, BeliefsInductive, PTL DEF B!Spec

-----------------------------------------------------------------------------
(* Legacy: documents                                                       *)

Naming == {d \in L!Document : d.legacy # Absent \/ d.focal # Absent}
RowOf == {r \in L!Filed : r.record \in Naming}

LEMMA NamesAreContexts ==
    ASSUME L!LegacyAssumption, NEW d \in Naming
    PROVE  L!Names(d) # {} /\ L!Names(d) \subseteq Context
BY DEF L!Names, Naming, L!Document, L!LegacyAssumption

LEMMA GivenAreNaming ==
    ASSUME L!LegacyAssumption
    PROVE  L!Given \subseteq Naming
BY DEF L!Given, Naming, L!Document, L!Doc, L!LegacyAssumption

\* Renaming takes the old key away and adds no name.
LEMMA RenamedNames ==
    ASSUME L!LegacyAssumption, NEW d \in Naming
    PROVE  /\ L!Renamed(d) \in Naming /\ L!Renamed(d).legacy = Absent
           /\ L!Names(L!Renamed(d)) \subseteq L!Names(d)
           /\ L!Renamed(d) = d <=> d.legacy = Absent
<1>0. d # Torn
  BY DEF Naming, L!LegacyAssumption
<1>1. CASE d.legacy = Absent
  BY <1>1 DEF L!Renamed
<1>2. CASE d.legacy # Absent
  <2>1. PICK c \in {d.legacy, d.focal} : L!Renamed(d) = [legacy |-> Absent, focal |-> c, last |-> "focal"] /\ c # Absent
    BY <1>0, <1>2 DEF L!Renamed, L!Doc
  <2>2. c \in Context
    BY <2>1 DEF Naming, L!Document
  <2>3. QED
    BY <1>2, <2>1, <2>2 DEF Naming, L!Names, L!Document
<1>3. QED
  BY <1>1, <1>2

LEMMA OpenedNames ==
    ASSUME L!LegacyAssumption, NEW d \in Naming
    PROVE  /\ L!Opened(d) \in Naming /\ L!Opened(d).legacy = Absent /\ L!Opened(d).focal # Absent
           /\ L!Names(L!Opened(d)) \subseteq L!Names(d)
           /\ L!Opened(d) = d <=> d.legacy = Absent
<1>1. CASE d.legacy = Absent
  BY <1>1 DEF L!Opened, Naming
<1>2. CASE d.legacy # Absent
  <2>1. PICK c \in {d.legacy, d.focal} : L!Opened(d) = [legacy |-> Absent, focal |-> c, last |-> "focal"] /\ c # Absent
    BY <1>2 DEF L!Opened, L!Doc
  <2>2. c \in Context
    BY <2>1 DEF Naming, L!Document
  <2>3. QED
    BY <1>2, <2>1, <2>2 DEF Naming, L!Names, L!Document
<1>3. QED
  BY <1>1, <1>2

-----------------------------------------------------------------------------
(* Legacy: the documents under the migration                               *)

\* The old key is gone.
Clean(d) == d = Torn \/ d.legacy = Absent

\* What the step of the migration has still to come to is in the databases from there on.
Ahead(c, n) == \E k \in n .. 7 : c \in L!ColumnsOf(L!Databases[k])

DocInv ==
    /\ doc \in [Column -> Naming \cup {Torn}] /\ stage \in 0 .. 7 /\ DOMAIN named = Column \cup OutcomeId
    /\ \A c \in Column : doc[c] # Torn => L!Names(doc[c]) \subseteq named[c]
    /\ stage > 0 => \A c \in Column : Clean(doc[c]) \/ Ahead(c, stage)
    /\ finished => \A c \in Column : Clean(doc[c])

LEMMA SevenDatabases ==
    /\ Len(L!Databases) = 7 /\ DOMAIN L!Databases = 1 .. 7
    /\ L!Databases[4] = "outcomes" /\ L!Databases[7] = "value_store"
    /\ \A k \in 1 .. 7 : (L!Databases[k] = "outcomes" => k = 4) /\ (L!Databases[k] = "value_store" => k = 7)
BY DEF L!Databases

LEMMA ColumnsAreAhead ==
    ASSUME L!LegacyAssumption, NEW c \in Column
    PROVE  Ahead(c, 1)
<1>1. PICK d \in L!Range(L!Databases) : c \in L!ColumnsOf(d)
  BY DEF L!LegacyAssumption, L!AllColumns
<1>2. PICK k \in DOMAIN L!Databases : d = L!Databases[k]
  BY DEF L!Range
<1>3. QED
  BY <1>1, <1>2, SevenDatabases DEF Ahead

LEMMA RenamedIsClean ==
    ASSUME L!LegacyAssumption, NEW d \in Naming \cup {Torn}
    PROVE  /\ L!Renamed(d) \in Naming \cup {Torn} /\ Clean(L!Renamed(d))
           /\ L!Renamed(d) # Torn => d # Torn /\ L!Names(L!Renamed(d)) \subseteq L!Names(d)
<1>1. CASE d = Torn
  BY <1>1 DEF L!Renamed, Clean
<1>2. CASE d \in Naming
  BY <1>2, RenamedNames DEF Clean, L!LegacyAssumption, Naming
<1>3. QED
  BY <1>1, <1>2

\* A step of the migration is done: the documents of its database have lost the old key.
LEMMA DatabaseDone ==
    ASSUME L!LegacyAssumption, DocInv, stage > 0, L!Advance, named' = named,
           doc' = [c \in Column |-> IF c \in L!ColumnsOf(L!Databases[stage]) THEN L!Renamed(doc[c]) ELSE doc[c]]
    PROVE  DocInv'
<1>1. /\ stage \in 1 .. 7 /\ doc \in [Column -> Naming \cup {Torn}]
      /\ \A c \in Column : doc[c] \in Naming \cup {Torn}
  BY DEF DocInv
<1>2. /\ stage' = IF stage = 7 THEN 0 ELSE stage + 1
      /\ finished' = (finished \/ stage = 7)
  BY SevenDatabases DEF L!Advance
<1>3. \A c \in Column :
        /\ doc'[c] \in Naming \cup {Torn}
        /\ doc'[c] # Torn => doc[c] # Torn /\ L!Names(doc'[c]) \subseteq L!Names(doc[c])
        /\ c \in L!ColumnsOf(L!Databases[stage]) \/ Clean(doc[c]) => Clean(doc'[c])
  BY <1>1, RenamedIsClean
<1>4. doc' \in [Column -> Naming \cup {Torn}]
  BY <1>3
<1>5. \A c \in Column : doc'[c] # Torn => L!Names(doc'[c]) \subseteq named[c]
  BY <1>3 DEF DocInv
<1>6. \A c \in Column : Clean(doc'[c]) \/ Ahead(c, stage + 1)
  <2> SUFFICES ASSUME NEW c \in Column, ~ Clean(doc'[c]) PROVE Ahead(c, stage + 1)
    OBVIOUS
  <2>1. ~ Clean(doc[c]) /\ c \notin L!ColumnsOf(L!Databases[stage])
    BY <1>3
  <2>2. Ahead(c, stage)
    BY <1>1, <2>1 DEF DocInv
  <2>3. PICK k \in stage .. 7 : c \in L!ColumnsOf(L!Databases[k])
    BY <2>2 DEF Ahead
  <2>4. k \in stage + 1 .. 7
    BY <1>1, <2>1, <2>3
  <2>5. QED
    BY <2>3, <2>4 DEF Ahead
<1>7. stage = 7 => \A c \in Column : Clean(doc'[c])
  BY <1>6 DEF Ahead
<1>8. finished' => \A c \in Column : Clean(doc'[c])
  BY <1>2, <1>3, <1>7 DEF DocInv
<1>9. stage' \in 0 .. 7 /\ (stage' > 0 => stage' = stage + 1)
  BY <1>1, <1>2
<1>10. QED
  BY <1>4, <1>5, <1>6, <1>8, <1>9 DEF DocInv

\* Nothing happens to documents and migration, but that the outcomes' names may change.
LEMMA DocsStay ==
    ASSUME DocInv, UNCHANGED <<doc, stage, finished>>, DOMAIN named' = DOMAIN named,
           \A c \in Column : named'[c] = named[c]
    PROVE  DocInv'
BY DEF DocInv

\* The migration begins or ends.
LEMMA StageStep ==
    ASSUME L!LegacyAssumption, DocInv, stage' \in {0, 1}, UNCHANGED <<doc, named, finished>>
    PROVE  DocInv'
BY ColumnsAreAhead DEF DocInv

LEMMA CutShortStep ==
    ASSUME L!LegacyAssumption, DocInv, L!CutShort
    PROVE  DocInv'
<1>1. stage' = 0 /\ named' = named /\ finished' = finished
  BY DEF L!CutShort
<1>2. PICK c \in Column : doc' = [doc EXCEPT ![c] = Torn]
  BY DEF L!CutShort
<1>3. doc' \in [Column -> Naming \cup {Torn}] /\ \A k \in Column : doc'[k] \in {doc[k], Torn}
  BY <1>2 DEF DocInv
<1>4. QED
  BY <1>1, <1>3 DEF DocInv, Clean

-----------------------------------------------------------------------------
(* Legacy: the rows under the migration and the store                      *)

\* A row that an open store can read and list.
Plain(r) == r.record.legacy = Absent /\ r.column # Absent

\* Rows that were read are as they were read, unless an outcome was saved since or the table was
\* dropped; while the store reads, they are not dropped, and what it has not read is plain.
ReadInv ==
    /\ read \in UNION {[D -> RowOf] : D \in SUBSET OutcomeId}
    /\ table = "old" => DOMAIN read = {}
    /\ \A o \in DOMAIN read \ raced : row[o] \in {read[o], Absent}
    /\ store = "read" =>
        /\ \A o \in DOMAIN read : row[o] = read[o] \/ (o \in raced /\ row[o] # Absent /\ Plain(row[o]))
        /\ \A o \in OutcomeId \ DOMAIN read : row[o] = Absent \/ Plain(row[o])

RowInv ==
    /\ row \in [OutcomeId -> RowOf \cup {Absent}] /\ DOMAIN named = Column \cup OutcomeId
    /\ store # "closed" => table = "new"
    /\ \A o \in OutcomeId : row[o] = Absent => named[o] = {}
    /\ \A o \in OutcomeId \ raced : row[o] # Absent =>
            L!Names(row[o].record) \subseteq named[o] /\ row[o].column \in named[o] \cup {Absent}
    /\ store = "open" => \A o \in OutcomeId : row[o] = Absent \/ Plain(row[o])

LegacyInv == DocInv /\ RowInv /\ ReadInv

LEMMA RowsAreThere ==
    ASSUME L!LegacyAssumption, NEW r \in RowOf
    PROVE  r # Absent /\ r.column \in Context \cup {Absent} /\ r.record \in Naming
           /\ r = [column |-> r.column, record |-> r.record]
BY DEF RowOf, L!Filed, L!LegacyAssumption

LEMMA MakeRow ==
    ASSUME NEW c \in Context \cup {Absent}, NEW d \in Naming
    PROVE  [column |-> c, record |-> d] \in RowOf
BY DEF RowOf, L!Filed, Naming

LEMMA SyncedRows ==
    ASSUME L!LegacyAssumption, NEW r \in RowOf
    PROVE  /\ L!Synced(r) \in RowOf /\ Plain(L!Synced(r))
           /\ L!Synced(r) = r => Plain(r)
           /\ L!Names(L!Synced(r).record) \subseteq L!Names(r.record)
           /\ L!Synced(r).column \in L!Names(r.record) \cup {r.column}
<1>1. /\ r # Absent /\ r.column \in Context \cup {Absent} /\ r.record \in Naming
  BY RowsAreThere
<1>2. PICK d : d = L!Opened(r.record)
  OBVIOUS
<1>3. /\ d \in Naming /\ d.legacy = Absent /\ d.focal # Absent
      /\ L!Names(d) \subseteq L!Names(r.record)
  BY <1>1, <1>2, OpenedNames
<1>4. PICK c : c = IF r.column = Absent THEN d.focal ELSE r.column
  OBVIOUS
<1>5. d.focal \in L!Names(d) /\ d.focal \in Context
  BY <1>3 DEF L!Names, Naming, L!Document
<1>6. L!Synced(r) = [column |-> c, record |-> d]
  BY <1>2, <1>4 DEF L!Synced
<1>7. c \in Context /\ c # Absent /\ c \in L!Names(r.record) \cup {r.column}
  BY <1>1, <1>3, <1>4, <1>5 DEF L!LegacyAssumption
<1>8. L!Synced(r) \in RowOf /\ L!Synced(r).column = c /\ L!Synced(r).record = d
  BY <1>3, <1>6, <1>7, MakeRow
<1>9. QED
  BY <1>3, <1>7, <1>8 DEF Plain

LEMMA RenamedRows ==
    ASSUME L!LegacyAssumption, NEW r \in RowOf, NEW q \in RowOf
    PROVE  LET s == [r EXCEPT !.record = L!Renamed(q.record)] IN
           /\ s \in RowOf /\ s.column = r.column /\ s.record = L!Renamed(q.record)
           /\ s.record.legacy = Absent /\ L!Names(s.record) \subseteq L!Names(q.record)
<1>1. /\ r.column \in Context \cup {Absent} /\ q.record \in Naming
      /\ r = [column |-> r.column, record |-> r.record]
  BY RowsAreThere
<1>2. PICK d : d = L!Renamed(q.record)
  OBVIOUS
<1>3. d \in Naming /\ d.legacy = Absent /\ L!Names(d) \subseteq L!Names(q.record)
  BY <1>1, <1>2, RenamedNames
<1>4. PICK s : s = [r EXCEPT !.record = d]
  OBVIOUS
<1>5. s = [column |-> r.column, record |-> d]
  BY <1>1, <1>4
<1>6. s \in RowOf
  BY <1>1, <1>3, <1>5, MakeRow
<1>7. QED
  BY <1>2, <1>3, <1>4, <1>5, <1>6

LEMMA RowsRead ==
    ASSUME L!LegacyAssumption, RowInv
    PROVE  /\ L!RowsNow \in UNION {[D -> RowOf] : D \in SUBSET OutcomeId}
           /\ DOMAIN L!RowsNow = {o \in OutcomeId : row[o] # Absent}
           /\ \A o \in DOMAIN L!RowsNow : L!RowsNow[o] = row[o]
<1> DEFINE D == {o \in OutcomeId : row[o] # Absent}
<1>1. L!RowsNow = [o \in D |-> row[o]]
  BY DEF L!RowsNow
<1>2. L!RowsNow \in [D -> RowOf] /\ D \in SUBSET OutcomeId
  BY <1>1 DEF RowInv
<1>3. QED
  BY <1>1, <1>2

-----------------------------------------------------------------------------
(* Legacy: the steps on rows                                               *)

LEMMA NothingRead == <<>> \in UNION {[D -> RowOf] : D \in SUBSET OutcomeId} /\ DOMAIN <<>> = {}
<1>1. <<>> \in [{} -> RowOf] /\ {} \in SUBSET OutcomeId /\ DOMAIN <<>> = {}
  OBVIOUS
<1>2. QED
  BY <1>1

LEMMA OpenTableStep ==
    ASSUME L!LegacyAssumption, LegacyInv, L!OpenTable
    PROVE  LegacyInv'
<1>1. /\ store = "closed" /\ store' = "table" /\ table' = "new"
      /\ UNCHANGED <<doc, stage, read, raced, finished>>
  BY DEF L!OpenTable
<1>2. DocInv /\ RowInv /\ ReadInv
  BY DEF LegacyInv
<1>3. CASE row' = row /\ named' = named
  <2>1. DocInv'
    BY <1>1, <1>2, <1>3, DocsStay
  <2>2. RowInv' /\ ReadInv'
    BY <1>1, <1>2, <1>3 DEF RowInv, ReadInv
  <2>3. QED
    BY <2>1, <2>2 DEF LegacyInv
<1>4. CASE /\ row' = [o \in OutcomeId |-> Absent]
           /\ named' = [x \in DOMAIN named |-> IF x \in OutcomeId THEN {} ELSE named[x]]
  <2>1. DOMAIN named' = DOMAIN named /\ (\A c \in Column : named'[c] = named[c]) /\ \A o \in OutcomeId : named'[o] = {}
    BY <1>2, <1>4 DEF RowInv, L!LegacyAssumption
  <2>2. DocInv'
    BY <1>1, <1>2, <2>1, DocsStay
  <2>3. RowInv'
    BY <1>1, <1>2, <1>4, <2>1 DEF RowInv
  <2>4. ReadInv'
    <3>1. DOMAIN read \subseteq OutcomeId
      BY <1>2 DEF ReadInv
    <3>2. QED
      BY <1>1, <1>2, <1>4, <3>1 DEF ReadInv
  <2>5. QED
    BY <2>2, <2>3, <2>4 DEF LegacyInv
<1>5. QED
  BY <1>3, <1>4 DEF L!OpenTable

LEMMA OpenReadStep ==
    ASSUME L!LegacyAssumption, LegacyInv, L!OpenRead
    PROVE  LegacyInv'
<1>1. /\ store = "table" /\ store' = "read" /\ read' = L!RowsNow
      /\ UNCHANGED <<doc, table, row, stage, named, raced, finished>>
  BY DEF L!OpenRead
<1>2. DocInv /\ RowInv /\ ReadInv
  BY DEF LegacyInv
<1>3. DocInv'
  BY <1>1, <1>2, DocsStay
<1>4. RowInv'
  BY <1>1, <1>2 DEF RowInv
<1>5. table = "new"
  BY <1>1, <1>2 DEF RowInv
<1>6. ReadInv'
  BY <1>1, <1>2, <1>5, RowsRead DEF ReadInv
<1>7. QED
  BY <1>3, <1>4, <1>6 DEF LegacyInv

LEMMA OpenWriteStep ==
    ASSUME L!LegacyAssumption, LegacyInv, L!OpenWrite
    PROVE  LegacyInv'
<1>1. /\ store = "read" /\ store' = "open" /\ read' = <<>>
      /\ row' = L!Written([o \in DOMAIN read |-> L!Synced(read[o])])
      /\ UNCHANGED <<doc, table, stage, named, raced, finished>>
  BY DEF L!OpenWrite
<1>2. DocInv /\ RowInv /\ ReadInv
  BY DEF LegacyInv
<1>3. /\ DOMAIN read \subseteq OutcomeId /\ \A o \in DOMAIN read : read[o] \in RowOf
      /\ row \in [OutcomeId -> RowOf \cup {Absent}]
  BY <1>2 DEF ReadInv, RowInv
<1>4. row' = [o \in OutcomeId |-> IF o \in DOMAIN read /\ L!Synced(read[o]) # read[o] THEN L!Synced(read[o]) ELSE row[o]]
  BY <1>1 DEF L!Written
<1>5. \A o \in DOMAIN read :
        /\ L!Synced(read[o]) \in RowOf /\ Plain(L!Synced(read[o])) /\ L!Synced(read[o]) # Absent
        /\ L!Synced(read[o]) = read[o] => Plain(read[o])
        /\ L!Names(L!Synced(read[o]).record) \subseteq L!Names(read[o].record)
        /\ L!Synced(read[o]).column \in L!Names(read[o].record) \cup {read[o].column}
  BY <1>3, SyncedRows, RowsAreThere
<1>6. row' \in [OutcomeId -> RowOf \cup {Absent}]
  BY <1>3, <1>4, <1>5
<1>7. \A o \in OutcomeId : row'[o] = Absent \/ Plain(row'[o])
  <2> SUFFICES ASSUME NEW o \in OutcomeId PROVE row'[o] = Absent \/ Plain(row'[o])
    OBVIOUS
  <2>1. CASE o \in DOMAIN read /\ L!Synced(read[o]) # read[o]
    BY <1>4, <1>5, <2>1
  <2>2. CASE o \in DOMAIN read /\ L!Synced(read[o]) = read[o]
    <3>1. row'[o] = row[o] /\ Plain(read[o])
      BY <1>4, <1>5, <2>2
    <3>2. row[o] = read[o] \/ Plain(row[o])
      BY <1>1, <1>2, <2>2 DEF ReadInv
    <3>3. QED
      BY <3>1, <3>2
  <2>3. CASE o \notin DOMAIN read
    BY <1>1, <1>2, <1>4, <2>3 DEF ReadInv
  <2>4. QED
    BY <2>1, <2>2, <2>3
<1>8. \A o \in OutcomeId : row'[o] = Absent => named[o] = {}
  BY <1>2, <1>4, <1>5 DEF RowInv
<1>9. ASSUME NEW o \in OutcomeId \ raced, row'[o] # Absent
      PROVE  L!Names(row'[o].record) \subseteq named[o] /\ row'[o].column \in named[o] \cup {Absent}
  <2>1. row[o] # Absent => L!Names(row[o].record) \subseteq named[o] /\ row[o].column \in named[o] \cup {Absent}
    BY <1>2 DEF RowInv
  <2>2. CASE o \in DOMAIN read /\ L!Synced(read[o]) # read[o]
    <3>1. row[o] = read[o] /\ read[o] # Absent
      BY <1>1, <1>2, <1>3, <2>2, RowsAreThere DEF ReadInv
    <3>2. row'[o] = L!Synced(read[o])
      BY <1>4, <2>2
    <3>3. QED
      BY <1>5, <2>1, <2>2, <3>1, <3>2
  <2>3. CASE ~ (o \in DOMAIN read /\ L!Synced(read[o]) # read[o])
    BY <1>4, <1>9, <2>1, <2>3
  <2>4. QED
    BY <2>2, <2>3
<1>10. RowInv'
  BY <1>1, <1>2, <1>6, <1>7, <1>8, <1>9 DEF RowInv
<1>11. ReadInv'
  BY <1>1, NothingRead DEF ReadInv
<1>12. DocInv'
  BY <1>1, <1>2, DocsStay
<1>13. QED
  BY <1>10, <1>11, <1>12 DEF LegacyInv

LEMMA SaveOutcomeStep ==
    ASSUME L!LegacyAssumption, LegacyInv, NEW o \in OutcomeId, NEW c \in Context, L!Save(o, c)
    PROVE  LegacyInv'
<1>1. PICK r : r = [column |-> c, record |-> L!Doc(Absent, c, "focal")]
  OBVIOUS
<1>2. /\ table = "new" /\ row' = [row EXCEPT ![o] = r] /\ named' = [named EXCEPT ![o] = {c}]
      /\ raced' = IF o \in DOMAIN read THEN raced \cup {o} ELSE raced
      /\ UNCHANGED <<doc, table, store, stage, read, finished>>
  BY <1>1 DEF L!Save
<1>3. DocInv /\ RowInv /\ ReadInv
  BY DEF LegacyInv
<1>4. /\ r \in RowOf /\ r # Absent /\ Plain(r) /\ r.column = c
      /\ r.record = [legacy |-> Absent, focal |-> c, last |-> "focal"] /\ L!Names(r.record) \subseteq {c}
  <2>1. PICK d : d = [legacy |-> Absent, focal |-> c, last |-> "focal"]
    OBVIOUS
  <2>2. d \in Naming /\ d.legacy = Absent /\ L!Names(d) \subseteq {c} /\ c # Absent
    BY <2>1 DEF Naming, L!Document, L!Names, L!LegacyAssumption
  <2>3. r = [column |-> c, record |-> d]
    BY <1>1, <2>1 DEF L!Doc
  <2>4. r \in RowOf
    BY <2>2, <2>3, MakeRow
  <2>5. r # Absent
    BY <2>4, RowsAreThere
  <2>6. QED
    BY <2>1, <2>2, <2>3, <2>4, <2>5 DEF Plain
<1>5. /\ row' \in [OutcomeId -> RowOf \cup {Absent}]
      /\ \A p \in OutcomeId : row'[p] = IF p = o THEN r ELSE row[p]
  BY <1>2, <1>3, <1>4 DEF RowInv
<1>6. DOMAIN named' = DOMAIN named /\ (\A k \in Column : named'[k] = named[k])
      /\ \A p \in OutcomeId : named'[p] = IF p = o THEN {c} ELSE named[p]
  BY <1>2, <1>3 DEF RowInv, L!LegacyAssumption
<1>7. DocInv'
  BY <1>2, <1>3, <1>6, DocsStay
<1>8. \A p \in OutcomeId \ raced' : p \notin raced
  BY <1>2
<1>9. RowInv'
  BY <1>2, <1>3, <1>4, <1>5, <1>6, <1>8 DEF RowInv
<1>10. ReadInv'
  <2>1. DOMAIN read \subseteq OutcomeId
    BY <1>3 DEF ReadInv
  <2>2. \A p \in DOMAIN read \ raced' : p # o /\ p \notin raced
    BY <1>2
  <2>3. \A p \in raced : p \in raced'
    BY <1>2
  <2>4. o \in DOMAIN read => o \in raced'
    BY <1>2
  <2>5. QED
    BY <1>2, <1>3, <1>4, <1>5, <2>1, <2>2, <2>3, <2>4 DEF ReadInv
<1>11. QED
  BY <1>7, <1>9, <1>10 DEF LegacyInv

\* Neither rows nor store are touched.
LEMMA RowsStay ==
    ASSUME RowInv, ReadInv, UNCHANGED <<table, row, store, read, named, raced>>
    PROVE  RowInv' /\ ReadInv'
BY DEF RowInv, ReadInv

\* The step of the migration that is about the outcomes leaves the documents alone.
LEMMA OutcomesDone ==
    ASSUME L!LegacyAssumption, DocInv, L!OnOutcomes, L!Advance, UNCHANGED <<doc, named>>
    PROVE  DocInv'
<1>1. stage > 0 /\ L!ColumnsOf(L!Databases[stage]) = {}
  BY DEF L!OnOutcomes, L!ColumnsOf
<1>2. doc = [c \in Column |-> IF c \in L!ColumnsOf(L!Databases[stage]) THEN L!Renamed(doc[c]) ELSE doc[c]]
  BY <1>1 DEF DocInv
<1>3. QED
  BY <1>1, <1>2, DatabaseDone

LEMMA MigrateDatabaseStep ==
    ASSUME L!LegacyAssumption, LegacyInv, L!MigrateDatabase
    PROVE  LegacyInv'
<1>1. DocInv'
  BY DatabaseDone DEF L!MigrateDatabase, LegacyInv
<1>2. RowInv' /\ ReadInv'
  BY RowsStay DEF L!MigrateDatabase, LegacyInv
<1>3. QED
  BY <1>1, <1>2 DEF LegacyInv

LEMMA MigrateValuesStep ==
    ASSUME L!LegacyAssumption, LegacyInv, L!MigrateValues
    PROVE  LegacyInv'
<1>1. stage > 0 /\ L!Databases[stage] = "value_store"
  BY DEF L!MigrateValues, L!OnValues
<1>2. DocInv'
  BY <1>1, DatabaseDone DEF L!MigrateValues, LegacyInv
<1>3. RowInv' /\ ReadInv'
  BY RowsStay DEF L!MigrateValues, LegacyInv
<1>4. QED
  BY <1>2, <1>3 DEF LegacyInv

LEMMA RebuildOutcomesStep ==
    ASSUME L!LegacyAssumption, LegacyInv, L!RebuildOutcomes
    PROVE  LegacyInv'
<1>1. /\ table = "old" /\ table' = "new" /\ L!OnOutcomes /\ L!Advance
      /\ row' = [o \in OutcomeId |-> IF row[o] = Absent THEN Absent ELSE [row[o] EXCEPT !.record = L!Renamed(@)]]
      /\ UNCHANGED <<doc, store, read, named, raced>>
  BY DEF L!RebuildOutcomes
<1>2. DocInv /\ RowInv /\ ReadInv
  BY DEF LegacyInv
<1>3. store = "closed" /\ DOMAIN read = {}
  BY <1>1, <1>2 DEF RowInv, ReadInv
<1>4. DocInv'
  BY <1>1, <1>2, OutcomesDone
<1>5. \A o \in OutcomeId : row[o] \in RowOf \cup {Absent}
  BY <1>2 DEF RowInv
<1>6. \A o \in OutcomeId :
        /\ row[o] = Absent => row'[o] = Absent
        /\ row[o] # Absent =>
              /\ row'[o] \in RowOf /\ row'[o] # Absent /\ row'[o].column = row[o].column
              /\ L!Names(row'[o].record) \subseteq L!Names(row[o].record)
  <2> SUFFICES ASSUME NEW o \in OutcomeId, row[o] # Absent
               PROVE  /\ row'[o] \in RowOf /\ row'[o] # Absent /\ row'[o].column = row[o].column
                      /\ L!Names(row'[o].record) \subseteq L!Names(row[o].record)
    BY <1>1
  <2>1. row[o] \in RowOf
    BY <1>5
  <2>2. row'[o] = [row[o] EXCEPT !.record = L!Renamed(row[o].record)]
    BY <1>1
  <2>3. PICK r : r = row[o]
    OBVIOUS
  <2>4. PICK s : s = row'[o]
    OBVIOUS
  <2>5. s = [r EXCEPT !.record = L!Renamed(r.record)] /\ r \in RowOf
    BY <2>1, <2>2, <2>3, <2>4
  <2>6. s \in RowOf /\ s.column = r.column /\ L!Names(s.record) \subseteq L!Names(r.record)
    BY <2>5, RenamedRows
  <2>7. s # Absent
    BY <2>6, RowsAreThere
  <2>8. QED
    BY <2>3, <2>4, <2>6, <2>7
<1>7. row' \in [OutcomeId -> RowOf \cup {Absent}]
  BY <1>1, <1>5, <1>6
<1>8. RowInv'
  BY <1>1, <1>2, <1>3, <1>6, <1>7 DEF RowInv
<1>9. ReadInv'
  BY <1>1, <1>2, <1>3 DEF ReadInv
<1>10. QED
  BY <1>4, <1>8, <1>9 DEF LegacyInv

LEMMA ReadOutcomesStep ==
    ASSUME L!LegacyAssumption, LegacyInv, L!ReadOutcomes
    PROVE  LegacyInv'
<1>1. /\ table \in {"new", "other"} /\ store # "read" /\ read' = L!RowsNow
      /\ UNCHANGED <<doc, table, row, store, stage, named, raced, finished>>
  BY DEF L!ReadOutcomes
<1>2. DocInv /\ RowInv /\ ReadInv
  BY DEF LegacyInv
<1>3. DocInv'
  BY <1>1, <1>2, DocsStay
<1>4. RowInv'
  BY <1>1, <1>2 DEF RowInv
<1>5. ReadInv'
  BY <1>1, <1>2, RowsRead DEF ReadInv
<1>6. QED
  BY <1>3, <1>4, <1>5 DEF LegacyInv

LEMMA WriteOutcomesStep ==
    ASSUME L!LegacyAssumption, LegacyInv, L!WriteOutcomes
    PROVE  LegacyInv'
<1> DEFINE Changed(o) == o \in DOMAIN read /\ row[o] # Absent /\ L!Renamed(read[o].record) # read[o].record
<1>1. /\ store # "read" /\ L!OnOutcomes /\ L!Advance /\ read' = <<>>
      /\ row' = [o \in OutcomeId |-> IF Changed(o) THEN [row[o] EXCEPT !.record = L!Renamed(read[o].record)] ELSE row[o]]
      /\ UNCHANGED <<doc, table, store, named, raced>>
  BY DEF L!WriteOutcomes
<1>2. DocInv /\ RowInv /\ ReadInv
  BY DEF LegacyInv
<1>3. DocInv'
  BY <1>1, <1>2, OutcomesDone
<1>4. /\ \A o \in OutcomeId : row[o] \in RowOf \cup {Absent}
      /\ \A o \in DOMAIN read : read[o] \in RowOf
  BY <1>2 DEF RowInv, ReadInv
<1>5. \A o \in OutcomeId : ~ Changed(o) => row'[o] = row[o]
  BY <1>1
<1>6. ASSUME NEW o \in OutcomeId, Changed(o)
      PROVE  /\ row'[o] \in RowOf /\ row'[o] # Absent /\ row[o] # Absent /\ row'[o].column = row[o].column
             /\ row'[o].record.legacy = Absent
             /\ L!Names(row'[o].record) \subseteq L!Names(read[o].record)
  <2>1. row[o] \in RowOf /\ read[o] \in RowOf /\ row[o] # Absent
    BY <1>4, <1>6
  <2>2. row'[o] = [row[o] EXCEPT !.record = L!Renamed(read[o].record)]
    BY <1>1, <1>6
  <2>3. PICK r : r = row[o]
    OBVIOUS
  <2>4. PICK s : s = row'[o]
    OBVIOUS
  <2>5. PICK q : q = read[o]
    OBVIOUS
  <2>6. s = [r EXCEPT !.record = L!Renamed(q.record)] /\ r \in RowOf /\ q \in RowOf
    BY <2>1, <2>2, <2>3, <2>4, <2>5
  <2>7. /\ s \in RowOf /\ s.column = r.column /\ s.record.legacy = Absent
        /\ L!Names(s.record) \subseteq L!Names(q.record)
    BY <2>6, RenamedRows
  <2>8. s # Absent
    BY <2>7, RowsAreThere
  <2>9. QED
    BY <2>1, <2>3, <2>4, <2>5, <2>7, <2>8
<1>7. \A o \in OutcomeId : row'[o] \in RowOf \cup {Absent} /\ (row'[o] = Absent => row[o] = Absent)
  BY <1>4, <1>5, <1>6
<1>8. row' \in [OutcomeId -> RowOf \cup {Absent}]
  BY <1>1, <1>7
<1>9. ASSUME NEW o \in OutcomeId \ raced, row'[o] # Absent
      PROVE  L!Names(row'[o].record) \subseteq named[o] /\ row'[o].column \in named[o] \cup {Absent}
  <2>1. row[o] # Absent => L!Names(row[o].record) \subseteq named[o] /\ row[o].column \in named[o] \cup {Absent}
    BY <1>2 DEF RowInv
  <2>2. CASE Changed(o)
    <3>1. row[o] = read[o] /\ row[o] # Absent
      BY <1>2, <2>2 DEF ReadInv
    <3>2. QED
      BY <1>6, <2>1, <2>2, <3>1
  <2>3. CASE ~ Changed(o)
    BY <1>5, <1>9, <2>1, <2>3
  <2>4. QED
    BY <2>2, <2>3
<1>10. store = "open" => \A o \in OutcomeId : row'[o] = Absent \/ Plain(row'[o])
  <2> SUFFICES ASSUME store = "open", NEW o \in OutcomeId, row'[o] # Absent PROVE Plain(row'[o])
    OBVIOUS
  <2>1. row[o] # Absent => Plain(row[o])
    BY <1>2 DEF RowInv
  <2>2. CASE Changed(o)
    BY <1>6, <2>1, <2>2 DEF Plain
  <2>3. CASE ~ Changed(o)
    BY <1>5, <2>1, <2>3
  <2>4. QED
    BY <2>2, <2>3
<1> HIDE DEF Changed
<1>11. RowInv'
  BY <1>1, <1>2, <1>7, <1>8, <1>9, <1>10 DEF RowInv
<1>12. ReadInv'
  BY <1>1, NothingRead DEF ReadInv
<1>13. QED
  BY <1>3, <1>11, <1>12 DEF LegacyInv

LEMMA NoOutcomesStep ==
    ASSUME L!LegacyAssumption, LegacyInv, L!NoOutcomes
    PROVE  LegacyInv'
<1>1. DocInv'
  BY OutcomesDone DEF L!NoOutcomes, LegacyInv
<1>2. RowInv' /\ ReadInv'
  BY RowsStay DEF L!NoOutcomes, LegacyInv
<1>3. QED
  BY <1>1, <1>2 DEF LegacyInv

\* The migration begins, ends or breaks off, or the store's process ends: what was read is lost,
\* if it was the one that ends who had read it.
LEMMA EndsStep ==
    ASSUME L!LegacyAssumption, LegacyInv,
           L!StartMigration \/ L!CutShort \/ L!CrashMigration \/ L!CrashStore
    PROVE  LegacyInv'
<1>1. DocInv /\ RowInv /\ ReadInv
  BY DEF LegacyInv
<1>2. CASE L!StartMigration
  BY <1>1, <1>2, StageStep, RowsStay DEF L!StartMigration, LegacyInv
<1>3. CASE L!CutShort
  <2>1. UNCHANGED <<table, row, store, read, named, raced>>
    BY <1>3 DEF L!CutShort
  <2>2. QED
    BY <1>1, <1>3, <2>1, CutShortStep, RowsStay DEF LegacyInv
<1>4. CASE L!CrashMigration
  <2>1. /\ stage' = 0 /\ read' = IF store = "read" THEN read ELSE <<>>
        /\ UNCHANGED <<doc, table, row, store, named, raced, finished>>
    BY <1>4 DEF L!CrashMigration
  <2>2. DocInv'
    BY <1>1, <2>1, StageStep
  <2>3. RowInv'
    BY <1>1, <2>1 DEF RowInv
  <2>4. ReadInv'
    BY <1>1, <2>1, NothingRead DEF ReadInv
  <2>5. QED
    BY <2>2, <2>3, <2>4 DEF LegacyInv
<1>5. CASE L!CrashStore
  <2>1. /\ store' = "closed" /\ read' = IF store = "read" THEN <<>> ELSE read
        /\ UNCHANGED <<doc, table, row, stage, named, raced, finished>>
    BY <1>5 DEF L!CrashStore
  <2>2. DocInv'
    BY <1>1, <2>1, DocsStay
  <2>3. RowInv'
    BY <1>1, <2>1 DEF RowInv
  <2>4. ReadInv'
    BY <1>1, <2>1, NothingRead DEF ReadInv
  <2>5. QED
    BY <2>2, <2>3, <2>4 DEF LegacyInv
<1>6. QED
  BY <1>2, <1>3, <1>4, <1>5

LEMMA LegacyStart ==
    ASSUME L!LegacyAssumption, L!Init
    PROVE  LegacyInv
<1>1. /\ doc \in [Column -> L!Given] /\ store = "closed" /\ stage = 0 /\ read = <<>>
      /\ raced = {} /\ finished = FALSE
      /\ named = [x \in Column \cup OutcomeId |->
                     IF x \in Column THEN L!Names(doc[x]) ELSE IF row[x] = Absent THEN {} ELSE L!Names(row[x].record)]
  BY DEF L!Init
<1>2. PICK d \in L!Given :
        row \in [OutcomeId -> IF table = Absent THEN {Absent}
                            ELSE {[column |-> IF table = "other" THEN Absent ELSE c, record |-> d] :
                                     c \in L!Names(d) \cup (IF table = "new" THEN {Absent} ELSE {})}]
  BY DEF L!Init
<1>3. d \in Naming /\ L!Names(d) \subseteq Context
  BY GivenAreNaming, NamesAreContexts
<1>4. \A o \in OutcomeId : row[o] = Absent \/
        \E c \in L!Names(d) \cup {Absent} : row[o] = [column |-> c, record |-> d]
  BY <1>2
<1>5. \A o \in OutcomeId : row[o] = Absent \/
        (row[o] \in RowOf /\ row[o].record = d /\ row[o].column \in L!Names(d) \cup {Absent})
  <2> SUFFICES ASSUME NEW o \in OutcomeId, row[o] # Absent
               PROVE  row[o] \in RowOf /\ row[o].record = d /\ row[o].column \in L!Names(d) \cup {Absent}
    OBVIOUS
  <2>1. PICK c \in L!Names(d) \cup {Absent} : row[o] = [column |-> c, record |-> d]
    BY <1>4
  <2>2. QED
    BY <1>3, <2>1, MakeRow
<1>6. DOMAIN row = OutcomeId /\ row = [o \in OutcomeId |-> row[o]]
  BY <1>2
<1>7. row \in [OutcomeId -> RowOf \cup {Absent}]
  BY <1>5, <1>6
<1>8. /\ DOMAIN named = Column \cup OutcomeId
      /\ \A c \in Column : named[c] = L!Names(doc[c])
      /\ \A o \in OutcomeId : named[o] = IF row[o] = Absent THEN {} ELSE L!Names(row[o].record)
  BY <1>1 DEF L!LegacyAssumption
<1>9. doc \in [Column -> Naming \cup {Torn}]
  BY <1>1, GivenAreNaming
<1>10. DocInv
  BY <1>1, <1>8, <1>9 DEF DocInv
<1>11. RowInv
  BY <1>1, <1>5, <1>7, <1>8 DEF RowInv
<1>12. ReadInv
  BY <1>1, NothingRead DEF ReadInv
<1>13. QED
  BY <1>10, <1>11, <1>12 DEF LegacyInv

\* outcome_store.py, storage_migration.py: documents and rows name contexts that they named
\* before, whichever of the opening store and the migration renamed them and wherever either
\* broke off; the migration has still to come to every document with the old key.
THEOREM LegacyInductive == ASSUME L!LegacyAssumption PROVE L!Spec => []LegacyInv
<1>1. L!Init => LegacyInv
  BY LegacyStart
<1>2. LegacyInv /\ [L!Next]_L!vars => LegacyInv'
  <2> SUFFICES ASSUME LegacyInv, [L!Next]_L!vars PROVE LegacyInv'
    OBVIOUS
  <2>1. CASE L!OpenTable
    BY <2>1, OpenTableStep
  <2>2. CASE L!OpenRead
    BY <2>2, OpenReadStep
  <2>3. CASE L!OpenWrite
    BY <2>3, OpenWriteStep
  <2>4. CASE \E o \in OutcomeId, c \in Context : L!Save(o, c)
    BY <2>4, SaveOutcomeStep
  <2>5. CASE L!StartMigration \/ L!CutShort \/ L!CrashMigration \/ L!CrashStore
    BY <2>5, EndsStep
  <2>6. CASE L!MigrateDatabase
    BY <2>6, MigrateDatabaseStep
  <2>7. CASE L!RebuildOutcomes
    BY <2>7, RebuildOutcomesStep
  <2>8. CASE L!ReadOutcomes
    BY <2>8, ReadOutcomesStep
  <2>9. CASE L!WriteOutcomes
    BY <2>9, WriteOutcomesStep
  <2>10. CASE L!NoOutcomes
    BY <2>10, NoOutcomesStep
  <2>11. CASE L!MigrateValues
    BY <2>11, MigrateValuesStep
  <2>12. CASE UNCHANGED L!vars
    <3>1. DocInv /\ UNCHANGED <<doc, stage, finished, named, table, row, store, read, raced>>
      BY <2>12 DEF L!vars, LegacyInv
    <3>2. QED
      BY <3>1, DocsStay, RowsStay DEF LegacyInv
  <2>13. QED
    BY <2>1, <2>2, <2>3, <2>4, <2>5, <2>6, <2>7, <2>8, <2>9, <2>10, <2>11, <2>12 DEF L!Next
<1>3. QED
  BY <1>1, <1>2, PTL DEF L!Spec

\* What the documents, rows and reads hold, for any columns, outcomes and contexts.
THEOREM LegacyTyped == ASSUME L!LegacyAssumption PROVE L!Spec => []L!TypeOK
<1>1. LegacyInv => L!TypeOK
  <2> SUFFICES ASSUME LegacyInv PROVE L!TypeOK
    OBVIOUS
  <2>1. \A c \in Column : doc[c] = Torn \/ L!Names(doc[c]) \subseteq Context
    BY NamesAreContexts DEF LegacyInv, DocInv
  <2>2. \A o \in OutcomeId : row[o] # Absent => row[o].column \in Context \cup {Absent}
    BY RowsAreThere DEF LegacyInv, RowInv
  <2>3. stage \in 0 .. Len(L!Databases) /\ DOMAIN read \subseteq OutcomeId
    BY SevenDatabases DEF LegacyInv, DocInv, ReadInv
  <2>4. QED
    BY <2>1, <2>2, <2>3 DEF L!TypeOK
<1>2. QED
  BY <1>1, LegacyInductive, PTL

\* storage_migration.py: after a migration that came to its end no document has the old key,
\* and no migration or opening of the store lost a name or made one up.
THEOREM MigrationKeeps == ASSUME L!LegacyAssumption PROVE L!Spec => []L!MigrationLosesNothing
<1>1. LegacyInv => L!MigrationLosesNothing
  <2> SUFFICES ASSUME LegacyInv PROVE L!MigrationLosesNothing
    OBVIOUS
  <2>1. finished => \A c \in Column : doc[c] # Torn => doc[c].legacy = Absent
    BY DEF LegacyInv, DocInv, Clean
  <2>2. \A c \in Column : doc[c] # Torn => L!Names(doc[c]) # {} /\ L!Names(doc[c]) \subseteq named[c]
    BY NamesAreContexts DEF LegacyInv, DocInv
  <2>3. \A o \in OutcomeId \ raced : row[o] # Absent =>
            L!Names(row[o].record) # {} /\ L!Names(row[o].record) \subseteq named[o]
    BY RowsAreThere, NamesAreContexts DEF LegacyInv, RowInv
  <2>4. QED
    BY <2>1, <2>2, <2>3 DEF L!MigrationLosesNothing
<1>2. QED
  BY <1>1, LegacyInductive, PTL

\* outcome_store.py: once a store is open every outcome can be read, and is listed under the
\* context it names, also when the migration works on the table at the same time.
THEOREM OpenStoresRead == ASSUME L!LegacyAssumption PROVE L!Spec => []L!OpenStoreIsReadable
<1>1. LegacyInv => L!OpenStoreIsReadable
  <2> SUFFICES ASSUME LegacyInv, store = "open" PROVE L!OpenStoreIsReadable
    BY DEF L!OpenStoreIsReadable
  <2>1. \A o \in OutcomeId : row[o] = Absent \/ Plain(row[o])
    BY DEF LegacyInv, RowInv
  <2>2. \A o \in OutcomeId : L!Readable(o)
    BY <2>1 DEF L!Readable, Plain
  <2>3. ASSUME NEW o \in OutcomeId \ raced, NEW c \in Context, named[o] = {c} PROVE o \in L!Listed(c)
    <3>1. row[o] # Absent
      BY <2>3 DEF LegacyInv, RowInv
    <3>2. row[o].column = c
      BY <2>1, <2>3, <3>1 DEF LegacyInv, RowInv, Plain
    <3>3. QED
      BY <3>1, <3>2 DEF L!Listed
  <2>4. QED
    BY <2>2, <2>3 DEF L!OpenStoreIsReadable
<1>2. QED
  BY <1>1, LegacyInductive, PTL

-----------------------------------------------------------------------------
(* Migration: the renames of a map, one after the other                    *)

\* What becomes of an identifier after the first renames of a map.
Renames(g, id, m) ==
    g = [i \in 0 .. Len(m.renames) |->
            IF i = 0 THEN id
            ELSE IF g[i - 1] = m.renames[i][1] THEN m.renames[i][2] ELSE g[i - 1]]

\* The first rename of an identifier, beyond the last one if there is none, and its new name.
FirstRename(p, id, new, m) ==
    /\ p \in 1 .. Len(m.renames) + 1
    /\ \A i \in 1 .. Len(m.renames) :
         /\ i < p => m.renames[i][1] # id
         /\ i = p => m.renames[i][1] = id /\ m.renames[i][2] = new
         /\ i > p => m.renames[i][1] # new

LEMMA ChainStep ==
    ASSUME NEW m, NEW id, NEW new, NEW p, FirstRename(p, id, new, m), Len(m.renames) \in Nat,
           NEW i \in 1 .. Len(m.renames)
    PROVE  LET before == IF p <= i - 1 THEN new ELSE id
           IN  (IF p <= i THEN new ELSE id)
                 = IF before = m.renames[i][1] THEN m.renames[i][2] ELSE before
<1>1. p \in Nat /\ i \in Nat
  BY DEF FirstRename
<1>2. CASE i < p
  BY <1>1, <1>2 DEF FirstRename
<1>3. CASE i = p
  BY <1>1, <1>3 DEF FirstRename
<1>4. CASE i > p
  BY <1>1, <1>4 DEF FirstRename
<1>5. QED
  BY <1>1, <1>2, <1>3, <1>4

\* The identifier stays as it is up to its rename, and has its new name from then on.
LEMMA ChainIsShort ==
    ASSUME NEW m, NEW id, NEW new, NEW p, FirstRename(p, id, new, m), Len(m.renames) \in Nat
    PROVE  O!Renamed(id, m) = IF p <= Len(m.renames) THEN new ELSE id
<1> DEFINE n == Len(m.renames)
           h == [i \in 0 .. n |-> IF p <= i THEN new ELSE id]
<1>0. p \in Nat /\ p >= 1
  BY DEF FirstRename
<1>1. Renames(h, id, m)
  <2>1. \A i \in 0 .. n : h[i] = IF p <= i THEN new ELSE id
    OBVIOUS
  <2>2. \A i \in 0 .. n :
          (IF p <= i THEN new ELSE id) =
            IF i = 0 THEN id
            ELSE IF h[i - 1] = m.renames[i][1] THEN m.renames[i][2] ELSE h[i - 1]
    <3> SUFFICES ASSUME NEW i \in 0 .. n
                 PROVE  (IF p <= i THEN new ELSE id) =
                          IF i = 0 THEN id
                          ELSE IF h[i - 1] = m.renames[i][1] THEN m.renames[i][2] ELSE h[i - 1]
      OBVIOUS
    <3>1. CASE i = 0
      BY <1>0, <3>1
    <3>2. CASE i # 0
      <4>1. i \in 1 .. n /\ i - 1 \in 0 .. n
        BY <3>2
      <4>2. h[i - 1] = IF p <= i - 1 THEN new ELSE id
        BY <4>1, <2>1
      <4> HIDE DEF h
      <4>3. QED
        BY <3>2, <4>1, <4>2, ChainStep
    <3>3. QED
      BY <3>1, <3>2
  <2>3. QED
    BY <2>2 DEF Renames
<1> HIDE DEF h
<1>2. ASSUME NEW g, Renames(g, id, m) PROVE g[n] = IF p <= n THEN new ELSE id
  <2> DEFINE T == {i \in 0 .. n : g[i] # IF p <= i THEN new ELSE id}
  <2>1. \A i \in 0 .. n : g[i] = IF i = 0 THEN id
            ELSE IF g[i - 1] = m.renames[i][1] THEN m.renames[i][2] ELSE g[i - 1]
    BY <1>2 DEF Renames
  <2>2. CASE T # {}
    <3>1. PICK x \in T : \A y \in T : x <= y
      <4>1. T \subseteq Nat
        OBVIOUS
      <4>2. QED
        BY <2>2, <4>1, LeastNumber
    <3>2. x # 0
      BY <1>0, <2>1, <3>1
    <3>3. x \in 1 .. n /\ x - 1 \in 0 .. n /\ ~(x <= x - 1)
      BY <3>1, <3>2
    <3>4. g[x - 1] = IF p <= x - 1 THEN new ELSE id
      BY <3>1, <3>3
    <3>5. g[x] = IF g[x - 1] = m.renames[x][1] THEN m.renames[x][2] ELSE g[x - 1]
      BY <2>1, <3>2, <3>3
    <3>6. g[x] = IF p <= x THEN new ELSE id
      BY <3>3, <3>4, <3>5, ChainStep
    <3>7. QED
      BY <3>1, <3>6
  <2>3. CASE T = {}
    BY <2>3
  <2>4. QED
    BY <2>2, <2>3
<1>3. \E g : Renames(g, id, m)
  BY <1>1
<1>4. Renames(CHOOSE g : Renames(g, id, m), id, m)
  BY <1>3
<1>5. O!Renamed(id, m) = (CHOOSE g : Renames(g, id, m))[n]
  BY DEF O!Renamed, Renames
<1>6. QED
  BY <1>2, <1>4, <1>5

\* A plain map gives every identifier its own new name, or none to one that is removed.
LEMMA PlainMapNames ==
    ASSUME O!MigrationAssumption, NEW m \in Map, O!Plain(m), NEW content \in [Field -> Id]
    PROVE  O!Migrated(content, m) = [f \in Field |-> O!NewName(content[f], m)]
<1> DEFINE n == Len(m.renames)
<1>1. /\ m.renames \in Seq(Id \X Id) /\ n \in Nat /\ DOMAIN m.renames = 1 .. n
      /\ \A i, j \in 1 .. n : m.renames[i][1] = m.renames[j][1] => i = j
      /\ None \notin Id
  BY DEF O!MigrationAssumption
<1>2. /\ \A i, j \in 1 .. n : i < j => m.renames[i][2] # m.renames[j][1]
      /\ \A i \in 1 .. n : m.renames[i][1] \notin m.removals /\ m.renames[i][2] \notin m.removals
  BY <1>1 DEF O!Plain
<1>3. ASSUME NEW id \in Id
      PROVE  (IF O!Renamed(id, m) \in m.removals THEN None ELSE O!Renamed(id, m)) = O!NewName(id, m)
  <2>1. CASE \E i \in 1 .. n : m.renames[i][1] = id
    <3>1. PICK p : p = CHOOSE i \in 1 .. n : m.renames[i][1] = id
      OBVIOUS
    <3>2. p \in 1 .. n /\ m.renames[p][1] = id
      BY <2>1, <3>1
    <3>3. FirstRename(p, id, m.renames[p][2], m)
      BY <1>1, <1>2, <3>2 DEF FirstRename
    <3>4. O!Renamed(id, m) = m.renames[p][2]
      BY <1>1, <3>2, <3>3, ChainIsShort
    <3>5. O!NewName(id, m) = m.renames[p][2]
      BY <1>1, <1>2, <2>1, <3>1, <3>2 DEF O!NewName
    <3>6. QED
      BY <1>2, <3>2, <3>4, <3>5
  <2>2. CASE \A i \in 1 .. n : m.renames[i][1] # id
    <3>1. FirstRename(n + 1, id, id, m)
      BY <1>1, <2>2 DEF FirstRename
    <3>2. O!Renamed(id, m) = id
      BY <1>1, <3>1, ChainIsShort
    <3>3. QED
      BY <1>1, <2>2, <3>2 DEF O!NewName
  <2>3. QED
    BY <2>1, <2>2
<1>4. \A f \in Field : content[f] \in Id
  OBVIOUS
<1>5. O!Migrated(content, m) =
        [f \in Field |-> IF O!Replaced(content, m)[f] \in m.removals THEN None
                         ELSE O!Replaced(content, m)[f]]
  BY DEF O!Migrated, O!WithoutRemoved
<1>6. \A f \in Field : O!Replaced(content, m)[f] = O!Renamed(content[f], m)
  BY DEF O!Replaced
<1>7. QED
  BY <1>3, <1>4, <1>5, <1>6

-----------------------------------------------------------------------------
(* Migration: files and the copies of the engines                          *)

\* Before its migration a project says what it was given to say, in files and copies; afterwards
\* a file that the migration has passed is the migrated one, and one it has not come to is as it
\* was; only a process that ends or an older copy leaves another.
FilesFollow ==
    /\ meant \in [DataKey -> Contents] /\ DOMAIN dataFile = DataKey /\ DOMAIN copy = DataKey
    /\ version \in {"old", "current"} /\ map \in Map \union {None} /\ waiting \subseteq DataKey
    /\ version = "old" =>
          waiting = {} /\ \A k \in DataKey : dataFile[k] = meant[k] /\ copy[k] \in {None, meant[k]}
    /\ version = "current" => map \in Map
    /\ version = "current" => \A k \in DataKey \ lagging :
          dataFile[k] = IF k \in waiting THEN meant[k] ELSE O!Migrated(meant[k], map)

LEMMA FilesInit == ASSUME O!MigrationAssumption, O!Init PROVE FilesFollow
BY DEF O!MigrationAssumption, O!Init, FilesFollow

LEMMA FilesStep ==
    ASSUME O!MigrationAssumption, FilesFollow, [O!Next]_(O!vars)
    PROVE  FilesFollow'
<1> USE DEF FilesFollow
<1>1. CASE O!CreateMigrationMap
  BY <1>1 DEF O!CreateMigrationMap, O!Compatible
<1>2. CASE O!StartMigration
  BY <1>2 DEF O!StartMigration, O!Compatible
<1>3. ASSUME NEW k \in DataKey, O!MigrateFile(k) PROVE FilesFollow'
  <2>1. PICK x : x = O!Migrated(dataFile[k], map)
    OBVIOUS
  <2>2. /\ dataFile' = [dataFile EXCEPT ![k] = x] /\ waiting' = waiting \ {k} /\ k \in waiting
        /\ UNCHANGED <<version, map, copy, meant, lagging>>
    BY <1>3, <2>1 DEF O!MigrateFile
  <2>3. version = "current" /\ (k \notin lagging => x = O!Migrated(meant[k], map))
    BY <2>1, <2>2
  <2>4. ASSUME NEW l \in DataKey \ lagging
        PROVE  dataFile'[l] = IF l \in waiting' THEN meant[l] ELSE O!Migrated(meant[l], map)
    <3>1. CASE l = k
      BY <2>2, <2>3, <3>1
    <3>2. CASE l # k
      BY <2>2, <2>3, <3>2
    <3>3. QED
      BY <3>1, <3>2
  <2>5. QED
    BY <2>2, <2>3, <2>4
<1>4. CASE O!End
  <2>1. /\ waiting' = {} /\ lagging' = lagging \union waiting /\ copy' = [k \in DataKey |-> None]
        /\ UNCHANGED <<version, map, dataFile, meant>>
    BY <1>4 DEF O!End
  <2>2. version = "current" => \A k \in DataKey \ lagging' : dataFile[k] = O!Migrated(meant[k], map)
    BY <2>1
  <2>3. QED
    BY <2>1, <2>2
<1>5. ASSUME NEW k \in DataKey, O!Load(k) PROVE FilesFollow'
  BY <1>5 DEF O!Load
<1>6. ASSUME NEW k \in DataKey, O!Save(k) PROVE FilesFollow'
  <2>1. /\ dataFile' = [dataFile EXCEPT ![k] = copy[k]]
        /\ lagging' = IF copy[k] = dataFile[k] THEN lagging ELSE lagging \union {k}
        /\ waiting = {} /\ copy[k] # None /\ UNCHANGED <<version, map, copy, waiting, meant>>
    BY <1>6 DEF O!Save
  <2>2. version = "old" => copy[k] = meant[k]
    BY <2>1
  <2>3. \A l \in DataKey : dataFile'[l] = IF l = k THEN copy[k] ELSE dataFile[l]
    BY <2>1
  <2>4. version = "current" => \A l \in DataKey \ lagging' : l \notin lagging /\ dataFile'[l] = dataFile[l]
    BY <2>1, <2>3
  <2>5. version = "old" => \A l \in DataKey : dataFile'[l] = meant[l]
    BY <2>2, <2>3
  <2>6. DOMAIN dataFile' = DataKey
    BY <2>1
  <2>7. QED
    BY <2>1, <2>4, <2>5, <2>6
<1>7. CASE UNCHANGED O!vars
  BY <1>7 DEF O!vars
<1>8. QED
  BY <1>1, <1>2, <1>3, <1>4, <1>5, <1>6, <1>7 DEF O!Next

\* A file that the migration has come to says in the new terms what an engine once gave it to
\* say, for any plain map, files and contents, also while engines load and save and wherever the
\* process ends (Migration's MigratedMeansTheSame, ontology_migration.py migrate_project).
THEOREM MigrationKeepsMeaning ==
    ASSUME O!MigrationAssumption PROVE O!Spec => []O!MigratedMeansTheSame
<1>1. O!Init => FilesFollow
  BY FilesInit
<1>2. FilesFollow /\ [O!Next]_(O!vars) => FilesFollow'
  BY FilesStep
<1>3. FilesFollow => O!MigratedMeansTheSame
  <2> SUFFICES ASSUME FilesFollow, version = "current", O!Plain(map),
                      NEW k \in DataKey \ (waiting \union lagging)
               PROVE  dataFile[k] = [f \in Field |-> O!NewName(meant[k][f], map)]
    BY DEF O!MigratedMeansTheSame
  <2>1. map \in Map /\ dataFile[k] = O!Migrated(meant[k], map) /\ meant[k] \in Contents
    BY DEF FilesFollow
  <2>2. meant[k] \in [Field -> Id]
    BY <2>1 DEF O!MigrationAssumption
  <2>3. QED
    BY <2>1, <2>2, PlainMapNames
<1>4. QED
  BY <1>1, <1>2, <1>3, PTL DEF O!Spec

-----------------------------------------------------------------------------
(* Migration: types                                                        *)

LEMMA RenamesExist ==
    ASSUME NEW m, NEW id, Len(m.renames) \in Nat
    PROVE  \E g : Renames(g, id, m)
<1> DEFINE n == Len(m.renames)
           Next(y, i) == IF y = m.renames[i][1] THEN m.renames[i][2] ELSE y
           Upto(g, k) == /\ g = [i \in 0 .. k |-> g[i]]
                         /\ \A i \in 0 .. k : g[i] = IF i = 0 THEN id ELSE Next(g[i - 1], i)
           T == {k \in 0 .. n : ~ \E g : Upto(g, k)}
<1>1. Upto([i \in 0 .. 0 |-> id], 0)
  OBVIOUS
<1>2. ASSUME NEW k \in 1 .. n, NEW g, Upto(g, k - 1) PROVE \E h : Upto(h, k)
  <2> DEFINE h == [i \in 0 .. k |-> IF i = k THEN Next(g[k - 1], k) ELSE g[i]]
  <2>1. ASSUME NEW i \in 0 .. k PROVE h[i] = IF i = 0 THEN id ELSE Next(h[i - 1], i)
    <3>1. CASE i = k
      <4>1. k - 1 \in 0 .. k /\ k - 1 # k /\ k # 0
        OBVIOUS
      <4>2. h[k - 1] = g[k - 1] /\ h[i] = Next(g[k - 1], k)
        BY <3>1, <4>1
      <4>3. QED
        BY <3>1, <4>1, <4>2
    <3>2. CASE i # k
      <4>1. i \in 0 .. k - 1 /\ h[i] = g[i]
        BY <3>2
      <4>2. g[i] = IF i = 0 THEN id ELSE Next(g[i - 1], i)
        BY <1>2, <4>1
      <4>3. CASE i = 0
        BY <4>1, <4>2, <4>3
      <4>4. CASE i # 0
        <5>1. i - 1 \in 0 .. k /\ i - 1 # k
          BY <3>2, <4>4
        <5>2. h[i - 1] = g[i - 1]
          BY <5>1
        <5>3. QED
          BY <4>1, <4>2, <4>4, <5>2
      <4>5. QED
        BY <4>3, <4>4
    <3>3. QED
      BY <3>1, <3>2
  <2>2. Upto(h, k)
    BY <2>1
  <2>3. QED
    BY <2>2
<1>3. T = {}
  <2> SUFFICES ASSUME T # {} PROVE FALSE
    OBVIOUS
  <2>1. PICK k \in T : \A j \in T : k <= j
    <3>1. T \subseteq Nat
      OBVIOUS
    <3>2. QED
      BY <3>1, LeastNumber
  <2>2. k \in 0 .. n /\ ~ \E g : Upto(g, k)
    OBVIOUS
  <2>3. k # 0
    BY <1>1, <2>2
  <2>4. k \in 1 .. n /\ k - 1 \in 0 .. n /\ ~ (k <= k - 1)
    BY <2>2, <2>3
  <2>5. k - 1 \notin T
    BY <2>1, <2>4
  <2>6. \E g : Upto(g, k - 1)
    BY <2>4, <2>5
  <2> HIDE DEF Upto, T
  <2>7. QED
    BY <1>2, <2>2, <2>4, <2>6
<1>4. n \in 0 .. n
  OBVIOUS
<1>5. PICK g : Upto(g, n)
  BY <1>3, <1>4
<1>6. \A i \in 0 .. n : g[i] = IF i = 0 THEN id
            ELSE IF g[i - 1] = m.renames[i][1] THEN m.renames[i][2] ELSE g[i - 1]
  BY <1>5
<1>7. QED
  BY <1>5, <1>6 DEF Renames

\* An identifier, or an entry that is gone, becomes another one.
LEMMA RenamedType ==
    ASSUME O!MigrationAssumption, NEW m \in Map, NEW id \in Id \union {None}
    PROVE  O!Renamed(id, m) \in Id \union {None}
<1> DEFINE n == Len(m.renames)
           g == CHOOSE g : Renames(g, id, m)
           T == {i \in 0 .. n : g[i] \notin Id \union {None}}
<1>1. n \in Nat /\ \A i \in 1 .. n : m.renames[i][2] \in Id
  BY DEF O!MigrationAssumption
<1>2. O!Renamed(id, m) = g[n]
  BY DEF O!Renamed, Renames
<1>3. Renames(g, id, m)
  BY <1>1, RenamesExist
<1> HIDE DEF g
<1>4. \A i \in 0 .. n : g[i] = IF i = 0 THEN id
            ELSE IF g[i - 1] = m.renames[i][1] THEN m.renames[i][2] ELSE g[i - 1]
  BY <1>3 DEF Renames
<1>5. CASE T # {}
  <2>1. PICK k \in T : \A j \in T : k <= j
    <3>1. T \subseteq Nat
      OBVIOUS
    <3>2. QED
      BY <1>5, <3>1, LeastNumber
  <2>2. k # 0
    BY <1>4, <2>1
  <2>3. k \in 1 .. n /\ k - 1 \in 0 .. n /\ ~ (k <= k - 1)
    BY <1>1, <2>1, <2>2
  <2>4. g[k - 1] \in Id \union {None}
    BY <2>1, <2>3
  <2>5. g[k] = IF g[k - 1] = m.renames[k][1] THEN m.renames[k][2] ELSE g[k - 1]
    BY <1>4, <2>2, <2>3
  <2>6. QED
    BY <1>1, <2>1, <2>3, <2>4, <2>5
<1>6. CASE T = {}
  BY <1>1, <1>2, <1>6
<1>7. QED
  BY <1>5, <1>6

Content == [Field -> Id \union {None}]

LEMMA MigratedType ==
    ASSUME O!MigrationAssumption, NEW m \in Map, NEW content \in Content
    PROVE  O!Migrated(content, m) \in Content
<1>1. O!Replaced(content, m) \in Content
  BY RenamedType DEF O!Replaced, Content
<1>2. QED
  BY <1>1 DEF O!Migrated, O!WithoutRemoved, Content

\* Files and copies hold identifiers, or nothing where one was removed (ontology_migration.py).
THEOREM MigrationTyped == ASSUME O!MigrationAssumption PROVE O!Spec => []O!TypeOK
<1>1. O!Init => FilesFollow /\ O!TypeOK
  BY FilesInit DEF O!MigrationAssumption, O!Init, O!TypeOK
<1>2. FilesFollow /\ O!TypeOK /\ [O!Next]_(O!vars) => FilesFollow' /\ O!TypeOK'
  <2> SUFFICES ASSUME FilesFollow, O!TypeOK, [O!Next]_(O!vars) PROVE O!TypeOK'
    BY FilesStep
  <2>1. CASE O!CreateMigrationMap
    BY <2>1 DEF O!CreateMigrationMap, O!TypeOK
  <2>2. CASE O!StartMigration
    BY <2>2 DEF O!StartMigration, O!TypeOK
  <2>3. CASE O!End
    BY <2>3 DEF O!End, O!TypeOK
  <2>4. ASSUME NEW k \in DataKey, O!MigrateFile(k) PROVE O!TypeOK'
    <3>1. map \in Map /\ dataFile \in [DataKey -> Content]
      BY <2>4 DEF O!MigrateFile, FilesFollow, O!TypeOK, Content
    <3>2. O!Migrated(dataFile[k], map) \in Content
      BY <3>1, MigratedType
    <3>3. dataFile' \in [DataKey -> Content]
      BY <2>4, <3>1, <3>2 DEF O!MigrateFile
    <3>4. QED
      BY <2>4, <3>3 DEF O!MigrateFile, O!TypeOK, Content
  <2>5. ASSUME NEW k \in DataKey, O!Load(k) PROVE O!TypeOK'
    BY <2>5 DEF O!Load, O!TypeOK
  <2>6. ASSUME NEW k \in DataKey, O!Save(k) PROVE O!TypeOK'
    BY <2>6 DEF O!Save, O!TypeOK
  <2>7. CASE UNCHANGED O!vars
    BY <2>7 DEF O!vars, O!TypeOK
  <2>8. QED
    BY <2>1, <2>2, <2>3, <2>4, <2>5, <2>6, <2>7 DEF O!Next
<1>3. QED
  BY <1>1, <1>2, PTL DEF O!Spec

-----------------------------------------------------------------------------
(* Feedback: what holds of contexts in memory and in the store             *)

NamesOf == [stem : F!Stems, version : Nat]
Worth == {About[o].revenue : o \in Observation} \cup {Absent}
MarginsSaid == {About[o].margin : o \in Observation} \ {Absent}
HeldContext == [name : NamesOf, version : Nat \ {0}, previous : NamesOf \cup {Absent}, revenue : Worth,
                margin : Nat, from : Nat]
StoredContext == [name : NamesOf, version : Nat \ {0}, previous : NamesOf \cup {Absent}, revenue : Worth,
                  margin : MarginsSaid \cup {Absent}, from : Seq(Observation) \cup {Absent}]
Partial(S, T) == UNION {[D -> T] : D \in SUBSET S}

\* The first version may have a name without a number, every other one has its number in its name.
Numbered(c) == c.version = IF c.name.version = 0 THEN 1 ELSE c.name.version

FeedbackTypes ==
    /\ inMemory \in [Engine -> Partial(NamesOf, HeldContext)]
    /\ lists \in [Engine -> Seq(Seq(Observation))] /\ margins \in [Engine -> Seq(MarginsSaid)]
    /\ rows \in Partial(F!Stems \X (Nat \ {0}), StoredContext)
    /\ outcomeRows \subseteq Observation
    /\ updates \in 0 .. MaxUpdates /\ straight \in BOOLEAN /\ applied \in [F!Stems -> Seq(Observation)]

\* A context in memory has its name, refers to objects that are there, and was saved.
WellKept(e, n) ==
    LET c == inMemory[e][n]
    IN  /\ c.name = n /\ Numbered(c) /\ <<n.stem, c.version>> \in DOMAIN rows
        /\ c.from <= Len(lists[e]) /\ c.margin <= Len(margins[e])

\* A row is found under its name, and there are no more versions than updates.
RowOK(k) ==
    /\ rows[k].name.stem = k[1] /\ rows[k].version = k[2] /\ Numbered(rows[k])
    /\ k[2] <= updates + 1

\* The newest version of a stem tells what was applied to it.
Told(stem) ==
    IF F!Versions(stem) = {} THEN applied[stem] = <<>>
    ELSE LET r == F!Newest(stem)
             os == applied[stem]
         IN  /\ r.from = IF os = <<>> THEN Absent ELSE os
             /\ F!SaysLast(os, F!Revenues, r.revenue)
             /\ F!SaysLast(os, F!Margins, r.margin)

\* Saved again, the newest version in memory would give its row again.
AsSaved(e, n) ==
    n = F!Newest(n.stem).name => F!Row(inMemory[e][n], lists[e], margins[e]) = F!Newest(n.stem)

\* Contexts of different stems refer to no object together.
NoneShared(e, n, m) ==
    n.stem # m.stem =>
        /\ inMemory[e][n].from = inMemory[e][m].from => inMemory[e][n].from = 0
        /\ inMemory[e][n].margin = inMemory[e][m].margin => inMemory[e][n].margin = 0

Straight ==
    /\ \A stem \in F!Stems : Told(stem)
    /\ \A e \in Engine : \A n \in DOMAIN inMemory[e] : AsSaved(e, n)
    /\ \A e \in Engine : \A n, m \in DOMAIN inMemory[e] : NoneShared(e, n, m)

Kept ==
    /\ FeedbackTypes
    /\ \A e \in Engine : \A n \in DOMAIN inMemory[e] : WellKept(e, n)
    /\ \A k \in DOMAIN rows : RowOK(k)

FeedbackInv == Kept /\ (straight => Straight)

-----------------------------------------------------------------------------
(* Feedback: functions, objects and rows                                   *)

LEMMA InPartial ==
    ASSUME NEW S, NEW T, NEW f \in Partial(S, T)
    PROVE  DOMAIN f \subseteq S /\ f = [x \in DOMAIN f |-> f[x]] /\ \A x \in DOMAIN f : f[x] \in T
BY DEF Partial

LEMMA WithType ==
    ASSUME NEW S, NEW T, NEW f \in Partial(S, T), NEW x \in S, NEW y \in T
    PROVE  F!With(f, x, y) \in Partial(S, T)
<1>1. DOMAIN f \subseteq S /\ \A z \in DOMAIN f : f[z] \in T
  BY InPartial
<1>2. F!With(f, x, y) \in [DOMAIN f \cup {x} -> T]
  BY <1>1 DEF F!With
<1>3. DOMAIN f \cup {x} \in SUBSET S
  BY <1>1
<1>4. QED
  BY <1>2, <1>3 DEF Partial

\* A value is put into the object that is referred to, or into one at the end.
Replaced(objects, ref, x, news, at) ==
    /\ Len(objects) <= Len(news) /\ at \in 1 .. Len(news) /\ news[at] = x
    /\ at = ref \/ at = Len(objects) + 1
    /\ \A i \in 1 .. Len(objects) : i # ref => news[i] = objects[i]

LEMMA PutIntoIs ==
    ASSUME NEW T, NEW objects \in Seq(T), NEW ref \in Nat, ref <= Len(objects), NEW x \in T
    PROVE  /\ F!PutInto(objects, ref, x) \in Seq(T)
           /\ Replaced(objects, ref, x, F!PutInto(objects, ref, x), F!RefAfter(objects, ref))
<1>1. CASE ref = 0
  BY <1>1 DEF F!PutInto, F!RefAfter, Replaced
<1>2. CASE ref # 0
  <2>1. ref \in 1 .. Len(objects)
    BY <1>2
  <2>2. [objects EXCEPT ![ref] = x] \in Seq(T) /\ Len([objects EXCEPT ![ref] = x]) = Len(objects)
    BY <2>1
  <2>3. QED
    BY <1>2, <2>1, <2>2 DEF F!PutInto, F!RefAfter, Replaced
<1>3. QED
  BY <1>1, <1>2

\* The newest version of a stem is one of its rows, and no other is newer.
LEMMA NewestIs ==
    ASSUME Kept, NEW stem, F!Versions(stem) # {}
    PROVE  \E v \in F!Versions(stem) :
              /\ F!Max(F!Versions(stem)) = v
              /\ <<stem, v>> \in DOMAIN rows /\ F!Newest(stem) = rows[<<stem, v>>]
              /\ v \in Nat \ {0} /\ \A u \in F!Versions(stem) : u \in Nat /\ u <= v
<1>1. \A k \in DOMAIN rows : k \in F!Stems \X (Nat \ {0}) /\ k[2] <= updates + 1
  BY InPartial DEF Kept, FeedbackTypes, RowOK
<1>2. F!Versions(stem) \subseteq Nat \ {0} /\ \A v \in F!Versions(stem) : v <= updates + 1
  BY <1>1 DEF F!Versions
<1>3. \E x \in F!Versions(stem) : \A y \in F!Versions(stem) : y <= x
  BY <1>2, LargestNumber DEF Kept, FeedbackTypes
<1>4. \E x \in F!Versions(stem) : \A y \in F!Versions(stem) : x >= y
  BY <1>2, <1>3
<1>5. /\ F!Max(F!Versions(stem)) \in F!Versions(stem)
      /\ \A y \in F!Versions(stem) : F!Max(F!Versions(stem)) >= y
  BY <1>4 DEF F!Max
<1>6. \A v \in F!Versions(stem) : <<stem, v>> \in DOMAIN rows
  BY <1>1 DEF F!Versions
<1>7. QED
  BY <1>2, <1>5, <1>6 DEF F!Newest

LEMMA RowHasVersion == \A s, v : <<s, v>> \in DOMAIN rows => v \in F!Versions(s)
BY DEF F!Versions

\* A row that is newer than those of its stem is its newest, and other stems keep theirs.
LEMMA NewerRow ==
    ASSUME Kept, NEW s \in F!Stems, NEW v \in Nat \ {0}, NEW r \in StoredContext,
           rows' = F!With(rows, <<s, v>>, r), \A u \in F!Versions(s) : u < v
    PROVE  /\ F!Versions(s)' # {} /\ F!Newest(s)' = r
           /\ \A t : t # s => F!Versions(t)' = F!Versions(t)
           /\ \A t : t # s /\ F!Versions(t) # {} => F!Newest(t)' = F!Newest(t)
<1>1. /\ DOMAIN rows' = DOMAIN rows \cup {<<s, v>>} /\ rows'[<<s, v>>] = r
      /\ \A k \in DOMAIN rows : k # <<s, v>> => rows'[k] = rows[k]
  BY DEF F!With
<1>2. \A k \in DOMAIN rows : k \in F!Stems \X (Nat \ {0})
  BY InPartial DEF Kept, FeedbackTypes
<1>3. F!Versions(s)' = F!Versions(s) \cup {v}
  BY <1>1 DEF F!Versions
<1>4. \A t : t # s => F!Versions(t)' = F!Versions(t)
  BY <1>1 DEF F!Versions
<1>5. F!Versions(s)' # {} /\ F!Newest(s)' = r
  <2>1. F!Versions(s) \subseteq Nat
    BY <1>2 DEF F!Versions
  <2>2. \A w \in F!Versions(s) \cup {v} : v >= w
    BY <2>1
  <2>3. \A x \in F!Versions(s) \cup {v} : (\A w \in F!Versions(s) \cup {v} : x >= w) => x = v
    BY <2>1
  <2>4. F!Max(F!Versions(s) \cup {v}) = v
    BY <2>2, <2>3 DEF F!Max
  <2>5. F!Newest(s)' = rows'[<<s, F!Max(F!Versions(s)')>>]
    BY DEF F!Newest, F!Max
  <2>6. QED
    BY <1>1, <1>3, <2>4, <2>5
<1>6. ASSUME NEW t, t # s, F!Versions(t) # {} PROVE F!Newest(t)' = F!Newest(t)
  <2>1. PICK u \in F!Versions(t) :
           /\ <<t, u>> \in DOMAIN rows /\ F!Newest(t) = rows[<<t, u>>] /\ u = F!Max(F!Versions(t))
    BY <1>6, NewestIs
  <2>2. F!Newest(t)' = rows'[<<t, F!Max(F!Versions(t)')>>]
    BY DEF F!Newest, F!Max
  <2>3. QED
    BY <1>1, <1>4, <1>6, <2>1, <2>2
<1>7. QED
  BY <1>4, <1>5, <1>6

\* A context with other objects, in memory or in the store.
LEMMA OtherObjects ==
    ASSUME NEW c, NEW f, NEW m, c \in HeldContext \/ c \in StoredContext
    PROVE  [c EXCEPT !.from = f, !.margin = m] =
           [name |-> c.name, version |-> c.version, previous |-> c.previous, revenue |-> c.revenue,
            margin |-> m, from |-> f]
<1> DEFINE d == [c EXCEPT !.from = f]
           e == [d EXCEPT !.margin = m]
<1>1. /\ c = [x \in DOMAIN c |-> c[x]]
      /\ DOMAIN c = {"name", "version", "previous", "revenue", "margin", "from"}
  BY DEF HeldContext, StoredContext
<1>2. /\ d = [x \in DOMAIN c |-> d[x]]
      /\ d.name = c.name /\ d.version = c.version /\ d.previous = c.previous
      /\ d.revenue = c.revenue /\ d.margin = c.margin /\ d.from = f
  BY <1>1
<1>3. DOMAIN d = DOMAIN c
  BY <1>1
<1> HIDE DEF d
<1>4. /\ e = [x \in DOMAIN d |-> e[x]]
      /\ e.name = c.name /\ e.version = c.version /\ e.previous = c.previous
      /\ e.revenue = c.revenue /\ e.margin = m /\ e.from = f
  BY <1>1, <1>2, <1>3
<1>5. DOMAIN e = {"name", "version", "previous", "revenue", "margin", "from"}
  BY <1>1, <1>3
<1> HIDE DEF e
<1>6. e = [name |-> c.name, version |-> c.version, previous |-> c.previous, revenue |-> c.revenue,
           margin |-> m, from |-> f]
  BY <1>4, <1>5
<1>7. QED
  BY <1>6 DEF e, d

\* What saving makes of a context.
LEMMA RowIs ==
    ASSUME NEW c \in HeldContext, NEW ls \in Seq(Seq(Observation)), NEW ms \in Seq(MarginsSaid),
           c.from <= Len(ls), c.margin <= Len(ms)
    PROVE  LET r == F!Row(c, ls, ms)
           IN  /\ r \in StoredContext
               /\ r = [name |-> c.name, version |-> c.version, previous |-> c.previous,
                       revenue |-> c.revenue,
                       margin |-> IF c.margin = 0 THEN Absent ELSE ms[c.margin],
                       from |-> IF c.from = 0 THEN Absent ELSE ls[c.from]]
<1>2. /\ c.name \in NamesOf /\ c.version \in Nat \ {0} /\ c.previous \in NamesOf \cup {Absent}
      /\ c.revenue \in Worth /\ c.margin \in Nat /\ c.from \in Nat
  BY DEF HeldContext
<1> DEFINE f == IF c.from = 0 THEN Absent ELSE ls[c.from]
           m == IF c.margin = 0 THEN Absent ELSE ms[c.margin]
<1>3. f \in Seq(Observation) \cup {Absent}
  BY <1>2
<1>4. m \in MarginsSaid \cup {Absent}
  BY <1>2
<1>5. F!Row(c, ls, ms) = [name |-> c.name, version |-> c.version, previous |-> c.previous,
                         revenue |-> c.revenue, margin |-> m, from |-> f]
  BY OtherObjects DEF F!Row
<1> HIDE DEF f, m
<1>6. F!Row(c, ls, ms) \in StoredContext
  BY <1>2, <1>3, <1>4, <1>5 DEF StoredContext
<1>7. QED
  BY <1>5, <1>6 DEF f, m

\* One more outcome has the last word if it says something.
LEMMA LastWord ==
    ASSUME NEW os \in Seq(Observation), NEW o \in Observation, NEW says, NEW x, F!SaysLast(os, says, x)
    PROVE  F!SaysLast(Append(os, o), says, IF says[o] # Absent THEN says[o] ELSE x)
<1>1. /\ DOMAIN Append(os, o) = 1 .. Len(os) + 1 /\ Append(os, o)[Len(os) + 1] = o
      /\ \A i \in 1 .. Len(os) : Append(os, o)[i] = os[i]
      /\ DOMAIN os = 1 .. Len(os) /\ Len(os) \in Nat
  OBVIOUS
<1> DEFINE more == Append(os, o)
<1> HIDE DEF more
<1>2. CASE says[o] # Absent
  <2>1. Len(os) + 1 \in DOMAIN more /\ says[more[Len(os) + 1]] = says[o]
    BY <1>1 DEF more
  <2>2. \A j \in DOMAIN more : ~ (j > Len(os) + 1)
    BY <1>1 DEF more
  <2>3. QED
    BY <1>2, <2>1, <2>2 DEF F!SaysLast, more
<1>3. CASE says[o] = Absent /\ x = Absent /\ \A i \in DOMAIN os : says[os[i]] = Absent
  <2>1. \A i \in DOMAIN more : says[more[i]] = Absent
    BY <1>1, <1>3 DEF more
  <2>2. QED
    BY <1>3, <2>1 DEF F!SaysLast, more
<1>4. CASE /\ says[o] = Absent
           /\ \E i \in DOMAIN os : /\ x = says[os[i]] /\ x # Absent
                                   /\ \A j \in DOMAIN os : j > i => says[os[j]] = Absent
  <2>1. PICK i \in DOMAIN os : /\ x = says[os[i]] /\ x # Absent
                               /\ \A j \in DOMAIN os : j > i => says[os[j]] = Absent
    BY <1>4
  <2>2. i \in DOMAIN more /\ x = says[more[i]]
    BY <1>1, <2>1 DEF more
  <2>3. \A j \in DOMAIN more : j > i => says[more[j]] = Absent
    BY <1>1, <1>4, <2>1 DEF more
  <2>4. QED
    BY <1>4, <2>1, <2>2, <2>3 DEF F!SaysLast, more
<1>5. QED
  BY <1>2, <1>3, <1>4 DEF F!SaysLast

-----------------------------------------------------------------------------
(* Feedback: what is loaded and updated                                    *)

Longer(s, t) == Len(s) <= Len(t) /\ \A i \in 1 .. Len(s) : t[i] = s[i]

\* What is loaded is a context that was saved, with its objects after those that were there.
Loaded(l, e, name) ==
    /\ l.c \in HeldContext /\ Numbered(l.c) /\ l.c.name.stem = name.stem
    /\ <<name.stem, l.c.version>> \in DOMAIN rows
    /\ l.lists \in Seq(Seq(Observation)) /\ l.margins \in Seq(MarginsSaid)
    /\ l.c.from <= Len(l.lists) /\ l.c.margin <= Len(l.margins)
    /\ Longer(lists[e], l.lists) /\ Longer(margins[e], l.margins)

\* It refers to no object of another stem, and saved again it gives the newest row if it is that.
LoadedStraight(l, e, name) ==
    /\ \A n \in DOMAIN inMemory[e] : n.stem # name.stem =>
         /\ inMemory[e][n].from = l.c.from => l.c.from = 0
         /\ inMemory[e][n].margin = l.c.margin => l.c.margin = 0
    /\ l.c.name = F!Newest(name.stem).name => F!Row(l.c, l.lists, l.margins) = F!Newest(name.stem)

LEMMA ObjectIs ==
    ASSUME NEW T, NEW objects \in Seq(T), NEW x \in T
    PROVE  /\ Append(objects, x) \in Seq(T) /\ Longer(objects, Append(objects, x))
           /\ Len(Append(objects, x)) = Len(objects) + 1 /\ Append(objects, x)[Len(objects) + 1] = x
BY DEF Longer

LEMMA LoadIs ==
    ASSUME F!FeedbackAssumption, Kept, NEW e \in Engine, NEW name \in NamesOf, F!Found(e, name)
    PROVE  /\ Loaded(F!Load(e, name), e, name)
           /\ Straight => LoadedStraight(F!Load(e, name), e, name)
<1>1. /\ inMemory[e] \in Partial(NamesOf, HeldContext)
      /\ lists[e] \in Seq(Seq(Observation)) /\ margins[e] \in Seq(MarginsSaid)
  BY DEF Kept, FeedbackTypes
<1>2. Longer(lists[e], lists[e]) /\ Longer(margins[e], margins[e])
  BY <1>1 DEF Longer
<1>3. CASE name \in DOMAIN inMemory[e]
  <2>1. F!Load(e, name) = [c |-> inMemory[e][name], lists |-> lists[e], margins |-> margins[e]]
    BY <1>3 DEF F!Load
  <2>2. WellKept(e, name) /\ inMemory[e][name] \in HeldContext
    BY <1>1, <1>3, InPartial DEF Kept
  <2>3. Loaded(F!Load(e, name), e, name)
    BY <1>1, <1>2, <2>1, <2>2 DEF Loaded, WellKept
  <2>4. ASSUME Straight PROVE LoadedStraight(F!Load(e, name), e, name)
    <3>1. AsSaved(e, name)
      BY <1>3, <2>4 DEF Straight
    <3>2. \A n \in DOMAIN inMemory[e] : NoneShared(e, n, name)
      BY <1>3, <2>4 DEF Straight
    <3>3. inMemory[e][name].name = name
      BY <2>2 DEF WellKept
    <3>4. QED
      BY <2>1, <3>1, <3>2, <3>3 DEF LoadedStraight, AsSaved, NoneShared
  <2>5. QED
    BY <2>3, <2>4
<1>4. CASE name \notin DOMAIN inMemory[e]
  <2> DEFINE r == F!Newest(name.stem)
             ls == IF r.from = Absent THEN lists[e] ELSE Append(lists[e], r.from)
             ms == IF r.margin = Absent THEN margins[e] ELSE Append(margins[e], r.margin)
             c == [r EXCEPT !.from = IF @ = Absent THEN 0 ELSE Len(ls),
                            !.margin = IF @ = Absent THEN 0 ELSE Len(ms)]
  <2>1. F!Load(e, name) = [c |-> c, lists |-> ls, margins |-> ms]
    BY <1>4 DEF F!Load
  <2>2. F!Versions(name.stem) # {}
    BY <1>4 DEF F!Found
  <2>3. PICK v \in Nat : <<name.stem, v>> \in DOMAIN rows /\ r = rows[<<name.stem, v>>]
    BY <2>2, NewestIs
  <2>4. RowOK(<<name.stem, v>>) /\ r \in StoredContext
    BY <2>3, InPartial DEF Kept, FeedbackTypes
  <2> HIDE DEF r
  <2>5. /\ r = [name |-> r.name, version |-> r.version, previous |-> r.previous, revenue |-> r.revenue,
                margin |-> r.margin, from |-> r.from]
        /\ r.name \in NamesOf /\ r.version \in Nat \ {0} /\ r.previous \in NamesOf \cup {Absent}
        /\ r.revenue \in Worth /\ r.margin \in MarginsSaid \cup {Absent}
        /\ r.from \in Seq(Observation) \cup {Absent}
    BY <2>4 DEF StoredContext
  <2>6. /\ ls \in Seq(Seq(Observation)) /\ Longer(lists[e], ls)
        /\ r.from # Absent => Len(ls) = Len(lists[e]) + 1 /\ ls[Len(ls)] = r.from
    BY <1>1, <1>2, <2>5, ObjectIs
  <2>7. /\ ms \in Seq(MarginsSaid) /\ Longer(margins[e], ms)
        /\ r.margin # Absent => Len(ms) = Len(margins[e]) + 1 /\ ms[Len(ms)] = r.margin
    BY <1>1, <1>2, <2>5, ObjectIs
  <2> HIDE DEF ls, ms
  <2>8. /\ c = [name |-> r.name, version |-> r.version, previous |-> r.previous, revenue |-> r.revenue,
                margin |-> IF r.margin = Absent THEN 0 ELSE Len(ms),
                from |-> IF r.from = Absent THEN 0 ELSE Len(ls)]
    BY <2>4, OtherObjects
  <2> HIDE DEF c
  <2>9. Len(ls) \in Nat /\ Len(ms) \in Nat /\ Len(lists[e]) \in Nat /\ Len(margins[e]) \in Nat
    BY <1>1, <2>6, <2>7
  <2>10. c \in HeldContext /\ c.from <= Len(ls) /\ c.margin <= Len(ms)
    BY <2>5, <2>8, <2>9 DEF HeldContext
  <2>11. /\ Numbered(c) /\ c.name.stem = name.stem /\ c.version = v /\ c.name = r.name
    BY <2>3, <2>4, <2>8 DEF RowOK, Numbered
  <2>12. Loaded(F!Load(e, name), e, name)
    BY <2>1, <2>3, <2>6, <2>7, <2>10, <2>11 DEF Loaded
  <2>13. F!Row(c, ls, ms) = r
    <3>1. F!Row(c, ls, ms) = [name |-> c.name, version |-> c.version, previous |-> c.previous,
                              revenue |-> c.revenue,
                              margin |-> IF c.margin = 0 THEN Absent ELSE ms[c.margin],
                              from |-> IF c.from = 0 THEN Absent ELSE ls[c.from]]
      BY <2>6, <2>7, <2>10, RowIs
    <3>2. (IF c.from = 0 THEN Absent ELSE ls[c.from]) = r.from
      BY <2>6, <2>8, <2>9
    <3>3. (IF c.margin = 0 THEN Absent ELSE ms[c.margin]) = r.margin
      BY <2>7, <2>8, <2>9
    <3>4. QED
      BY <2>5, <2>8, <3>1, <3>2, <3>3
  <2>14. ASSUME NEW n \in DOMAIN inMemory[e]
         PROVE  /\ inMemory[e][n].from = c.from => c.from = 0
                /\ inMemory[e][n].margin = c.margin => c.margin = 0
    <3>1. WellKept(e, n) /\ inMemory[e][n] \in HeldContext
      BY <1>1, <2>14, InPartial DEF Kept
    <3>2. /\ inMemory[e][n].from <= Len(lists[e]) /\ inMemory[e][n].from \in Nat
          /\ inMemory[e][n].margin <= Len(margins[e]) /\ inMemory[e][n].margin \in Nat
      BY <3>1 DEF WellKept, HeldContext
    <3>3. QED
      BY <2>6, <2>7, <2>8, <2>9, <3>2
  <2>15. LoadedStraight(F!Load(e, name), e, name)
    BY <2>1, <2>13, <2>14 DEF LoadedStraight, r
  <2>16. QED
    BY <2>12, <2>15
<1>5. QED
  BY <1>3, <1>4

\* An update makes the next version, whose objects are those of the one before or new at the end.
LEMMA UpdatedIs ==
    ASSUME NEW l, NEW o \in Observation, l.c \in HeldContext, Numbered(l.c),
           l.lists \in Seq(Seq(Observation)), l.margins \in Seq(MarginsSaid),
           l.c.from <= Len(l.lists), l.c.margin <= Len(l.margins)
    PROVE  LET u == F!Updated(l, o)
               r == F!Row(u.c, u.lists, u.margins)
               before == F!Row(l.c, l.lists, l.margins)
           IN  /\ u.c \in HeldContext /\ Numbered(u.c) /\ u.c.version = l.c.version + 1
               /\ u.c.name = F!Name(F!First(l.c.name.stem), l.c.version + 1)
               /\ u.c.previous = l.c.name
               /\ u.lists \in Seq(Seq(Observation)) /\ u.margins \in Seq(MarginsSaid)
               /\ u.c.from <= Len(u.lists) /\ u.c.margin <= Len(u.margins)
               /\ Len(l.lists) <= Len(u.lists) /\ Len(l.margins) <= Len(u.margins)
               /\ \A i \in 1 .. Len(l.lists) : i # l.c.from => u.lists[i] = l.lists[i]
               /\ \A i \in 1 .. Len(l.margins) : i # l.c.margin => u.margins[i] = l.margins[i]
               /\ u.c.from = Len(l.lists) + 1 \/ u.c.from = l.c.from
               /\ u.c.margin = Len(l.margins) + 1 \/ u.c.margin = l.c.margin
               /\ r \in StoredContext /\ r.name = u.c.name
               /\ r.from = Append(IF before.from = Absent /\ l.c.from = 0 THEN <<>> ELSE before.from, o)
               /\ r.revenue = IF About[o].revenue # Absent THEN About[o].revenue ELSE before.revenue
               /\ r.margin = IF About[o].margin # Absent THEN About[o].margin ELSE before.margin
<1> DEFINE c == l.c
           os == F!Outcomes(l, o)
           says == About[o].margin
           noted == says # Absent
           ls == F!PutInto(l.lists, c.from, os)
           ms == IF noted THEN F!PutInto(l.margins, c.margin, says) ELSE l.margins
           from == F!RefAfter(l.lists, c.from)
           margin == IF noted THEN F!RefAfter(l.margins, c.margin) ELSE c.margin
           revenue == IF About[o].revenue # Absent THEN About[o].revenue ELSE c.revenue
           name == F!Name(F!First(c.name.stem), c.version + 1)
           new == [name |-> name, version |-> c.version + 1, previous |-> c.name, revenue |-> revenue,
                   margin |-> margin, from |-> from]
<1>1. F!Updated(l, o) = [c |-> new, lists |-> ls, margins |-> ms]
  BY DEF F!Updated
<1>2. /\ c.name \in NamesOf /\ c.version \in Nat \ {0} /\ c.revenue \in Worth
      /\ c.margin \in Nat /\ c.from \in Nat
  BY DEF HeldContext
<1>3. os \in Seq(Observation) /\ os = Append(IF c.from = 0 THEN <<>> ELSE l.lists[c.from], o)
  BY <1>2 DEF F!Outcomes
<1> HIDE DEF os
<1>4. /\ ls \in Seq(Seq(Observation)) /\ Len(l.lists) <= Len(ls)
      /\ from \in 1 .. Len(ls) /\ ls[from] = os /\ (from = c.from \/ from = Len(l.lists) + 1)
      /\ \A i \in 1 .. Len(l.lists) : i # c.from => ls[i] = l.lists[i]
  <2>1. ls \in Seq(Seq(Observation)) /\ Replaced(l.lists, c.from, os, ls, from)
    BY <1>2, <1>3, PutIntoIs
  <2>2. QED
    BY <2>1 DEF Replaced
<1> HIDE DEF ls, from
<1>5. noted => says \in MarginsSaid
  BY DEF MarginsSaid
<1>6. /\ ms \in Seq(MarginsSaid) /\ Len(l.margins) <= Len(ms)
      /\ margin \in 0 .. Len(ms) /\ (margin = c.margin \/ margin = Len(l.margins) + 1)
      /\ \A i \in 1 .. Len(l.margins) : i # c.margin => ms[i] = l.margins[i]
      /\ noted => margin # 0 /\ ms[margin] = says
      /\ ~noted => margin = c.margin /\ ms = l.margins
  <2>1. CASE noted
    <3>1. /\ F!PutInto(l.margins, c.margin, says) \in Seq(MarginsSaid)
          /\ Replaced(l.margins, c.margin, says, F!PutInto(l.margins, c.margin, says),
                      F!RefAfter(l.margins, c.margin))
      BY <1>2, <1>5, <2>1, PutIntoIs
    <3>2. /\ ms = F!PutInto(l.margins, c.margin, says) /\ margin = F!RefAfter(l.margins, c.margin)
      BY <2>1
    <3> HIDE DEF ms, margin
    <3>3. QED
      BY <2>1, <3>1, <3>2 DEF Replaced
  <2>2. CASE ~noted
    BY <1>2, <2>2
  <2>3. QED
    BY <2>1, <2>2
<1> HIDE DEF ms, margin
<1>7. revenue \in Worth
  BY <1>2 DEF Worth
<1> HIDE DEF revenue
<1>8. name \in NamesOf /\ name.version = c.version + 1
  <2>1. c.name.stem \in F!Stems
    BY <1>2 DEF NamesOf
  <2>2. F!First(c.name.stem) \in F!Stems
    BY <2>1 DEF F!Stems, F!First
  <2>3. QED
    BY <1>2, <2>2 DEF NamesOf, F!Name
<1> HIDE DEF name
<1>9. Len(ls) \in Nat /\ Len(ms) \in Nat /\ from \in Nat /\ margin \in Nat
  BY <1>4, <1>6
<1>10. new \in HeldContext /\ Numbered(new)
  BY <1>2, <1>7, <1>8, <1>9 DEF HeldContext, Numbered
<1>11. from <= Len(ls) /\ margin <= Len(ms) /\ from # 0
  BY <1>4, <1>6, <1>9
<1> DEFINE r == F!Row(new, ls, ms)
           before == F!Row(c, l.lists, l.margins)
<1>12. /\ r \in StoredContext
       /\ r = [name |-> name, version |-> c.version + 1, previous |-> c.name, revenue |-> revenue,
               margin |-> IF margin = 0 THEN Absent ELSE ms[margin],
               from |-> IF from = 0 THEN Absent ELSE ls[from]]
  <2>1. new.from <= Len(ls) /\ new.margin <= Len(ms)
    BY <1>11
  <2>2. QED
    BY <1>4, <1>6, <1>10, <2>1, RowIs
<1>13. before = [name |-> c.name, version |-> c.version, previous |-> c.previous, revenue |-> c.revenue,
                 margin |-> IF c.margin = 0 THEN Absent ELSE l.margins[c.margin],
                 from |-> IF c.from = 0 THEN Absent ELSE l.lists[c.from]]
  BY RowIs
<1>14. r.name = name /\ r.from = os
  BY <1>4, <1>11, <1>12
<1>15. r.from = Append(IF before.from = Absent /\ c.from = 0 THEN <<>> ELSE before.from, o)
  BY <1>3, <1>13, <1>14
<1>16. r.revenue = IF About[o].revenue # Absent THEN About[o].revenue ELSE before.revenue
  BY <1>12, <1>13 DEF revenue
<1>17. r.margin = IF says # Absent THEN says ELSE before.margin
  BY <1>6, <1>12, <1>13
<1>18. /\ new.name = name /\ new.version = c.version + 1 /\ new.previous = c.name
       /\ new.from = from /\ new.margin = margin
  OBVIOUS
<1> HIDE DEF new, r, before
<1>19. /\ F!Updated(l, o).c = new /\ F!Updated(l, o).lists = ls /\ F!Updated(l, o).margins = ms
  BY <1>1
<1>20. /\ new.from <= Len(ls) /\ new.margin <= Len(ms)
       /\ (new.from = Len(l.lists) + 1 \/ new.from = c.from)
       /\ (new.margin = Len(l.margins) + 1 \/ new.margin = c.margin)
  BY <1>4, <1>6, <1>11, <1>18
<1>21. F!Row(new, ls, ms) \in StoredContext /\ F!Row(new, ls, ms).name = new.name
  BY <1>12, <1>14, <1>18 DEF r
<1>22. new.name = F!Name(F!First(l.c.name.stem), l.c.version + 1)
  BY <1>18 DEF name
<1>23. QED
  BY <1>4, <1>6, <1>10, <1>15, <1>16, <1>17, <1>18, <1>19, <1>20, <1>21, <1>22 DEF r, before

-----------------------------------------------------------------------------
(* Feedback: the steps                                                     *)

LEMMA NothingHeld == \A S, T : <<>> \in Partial(S, T) /\ DOMAIN <<>> = {}
<1>1. \A T : <<>> \in [{} -> T]
  OBVIOUS
<1>2. \A S, T : <<>> \in Partial(S, T)
  BY <1>1 DEF Partial
<1>3. QED
  BY <1>2

LEMMA FeedbackStart == ASSUME F!FeedbackAssumption, F!Init PROVE FeedbackInv
<1>1. /\ inMemory = [e \in Engine |-> <<>>] /\ lists = [e \in Engine |-> <<>>]
      /\ margins = [e \in Engine |-> <<>>] /\ rows = <<>> /\ outcomeRows = {}
      /\ updates = 0 /\ applied = [stem \in F!Stems |-> <<>>] /\ straight = TRUE
  BY DEF F!Init
<1>2. FeedbackTypes
  BY <1>1, NothingHeld DEF FeedbackTypes, F!FeedbackAssumption
<1>3. \A e \in Engine : DOMAIN inMemory[e] = {}
  BY <1>1
<1>4. DOMAIN rows = {}
  BY <1>1
<1>5. \A stem \in F!Stems : Told(stem)
  BY <1>1, <1>4 DEF Told, F!Versions
<1>6. QED
  BY <1>2, <1>3, <1>4, <1>5 DEF FeedbackInv, Kept, Straight

LEMMA ToldStays ==
    ASSUME NEW stem, F!Versions(stem)' = F!Versions(stem), applied'[stem] = applied[stem],
           F!Versions(stem) # {} => F!Newest(stem)' = F!Newest(stem), Told(stem)
    PROVE  Told(stem)'
<1>1. CASE F!Versions(stem) = {}
  BY <1>1 DEF Told
<1>2. CASE F!Versions(stem) # {}
  <2>1. /\ F!Newest(stem).from = IF applied[stem] = <<>> THEN Absent ELSE applied[stem]
        /\ F!SaysLast(applied[stem], F!Revenues, F!Newest(stem).revenue)
        /\ F!SaysLast(applied[stem], F!Margins, F!Newest(stem).margin)
    BY <1>2 DEF Told
  <2>2. /\ F!Newest(stem)'.from = IF applied'[stem] = <<>> THEN Absent ELSE applied'[stem]
        /\ F!SaysLast(applied'[stem], F!Revenues, F!Newest(stem)'.revenue)
        /\ F!SaysLast(applied'[stem], F!Margins, F!Newest(stem)'.margin)
    BY <1>2, <2>1
  <2>3. QED
    BY <1>2, <2>2 DEF Told
<1>3. QED
  BY <1>1, <1>2

LEMMA ContextsStay ==
    ASSUME FeedbackInv, UNCHANGED F!contextVars, outcomeRows' \subseteq Observation PROVE FeedbackInv'
<1>1. UNCHANGED <<inMemory, lists, margins, rows, updates, applied, straight>>
  BY DEF F!contextVars
<1>2. FeedbackTypes'
  BY <1>1 DEF FeedbackInv, Kept, FeedbackTypes
<1>3. \A e \in Engine : \A n \in DOMAIN inMemory'[e] : WellKept(e, n)'
  BY <1>1 DEF FeedbackInv, Kept, WellKept
<1>4. \A k \in DOMAIN rows' : RowOK(k)'
  BY <1>1 DEF FeedbackInv, Kept, RowOK
<1>5. \A s : F!Versions(s)' = F!Versions(s) /\ F!Newest(s)' = F!Newest(s)
  BY <1>1 DEF F!Versions, F!Newest, F!Max
<1>6. ASSUME straight PROVE Straight'
  <2>1. Straight
    BY <1>6 DEF FeedbackInv
  <2>2. \A stem \in F!Stems : Told(stem)'
    BY <1>1, <1>5, <2>1, ToldStays DEF Straight
  <2>3. \A e \in Engine : \A n \in DOMAIN inMemory'[e] : AsSaved(e, n)'
    BY <1>1, <1>5, <2>1 DEF Straight, AsSaved, F!Row
  <2>4. \A e \in Engine : \A n, m \in DOMAIN inMemory'[e] : NoneShared(e, n, m)'
    BY <1>1, <2>1 DEF Straight, NoneShared
  <2>5. QED
    BY <2>2, <2>3, <2>4 DEF Straight
<1>7. QED
  BY <1>1, <1>2, <1>3, <1>4, <1>6 DEF FeedbackInv, Kept

LEMMA RestartStep == ASSUME FeedbackInv, NEW e \in Engine, F!Restart(e) PROVE FeedbackInv'
<1>1. /\ inMemory' = [inMemory EXCEPT ![e] = <<>>] /\ lists' = [lists EXCEPT ![e] = <<>>]
      /\ margins' = [margins EXCEPT ![e] = <<>>]
      /\ UNCHANGED <<rows, outcomeRows, updates, applied, straight>>
  BY DEF F!Restart
<1>2. FeedbackTypes'
  BY <1>1, NothingHeld DEF FeedbackInv, Kept, FeedbackTypes
<1>3. /\ DOMAIN inMemory'[e] = {}
      /\ \A d \in Engine : d # e =>
            inMemory'[d] = inMemory[d] /\ lists'[d] = lists[d] /\ margins'[d] = margins[d]
  BY <1>1 DEF FeedbackInv, Kept, FeedbackTypes
<1>4. \A d \in Engine : \A n \in DOMAIN inMemory'[d] : WellKept(d, n)'
  BY <1>1, <1>3 DEF FeedbackInv, Kept, WellKept
<1>5. \A k \in DOMAIN rows' : RowOK(k)'
  BY <1>1 DEF FeedbackInv, Kept, RowOK
<1>6. \A s : F!Versions(s)' = F!Versions(s) /\ F!Newest(s)' = F!Newest(s)
  BY <1>1 DEF F!Versions, F!Newest, F!Max
<1>7. ASSUME straight PROVE Straight'
  <2>1. Straight
    BY <1>7 DEF FeedbackInv
  <2>2. \A stem \in F!Stems : Told(stem)'
    BY <1>1, <1>6, <2>1, ToldStays DEF Straight
  <2>3. \A d \in Engine : \A n \in DOMAIN inMemory'[d] : AsSaved(d, n)'
    <3> SUFFICES ASSUME NEW d \in Engine, NEW n \in DOMAIN inMemory'[d] PROVE AsSaved(d, n)'
      OBVIOUS
    <3>1. d # e /\ n \in DOMAIN inMemory[d] /\ AsSaved(d, n)
      BY <1>3, <2>1 DEF Straight
    <3>2. inMemory'[d] = inMemory[d] /\ lists'[d] = lists[d] /\ margins'[d] = margins[d]
      BY <1>3, <3>1
    <3>3. QED
      BY <1>6, <3>1, <3>2 DEF AsSaved
  <2>4. \A d \in Engine : \A n, m \in DOMAIN inMemory'[d] : NoneShared(d, n, m)'
    BY <1>1, <1>3, <2>1 DEF Straight, NoneShared
  <2>5. QED
    BY <2>2, <2>3, <2>4 DEF Straight
<1>8. QED
  BY <1>1, <1>2, <1>4, <1>5, <1>7 DEF FeedbackInv, Kept

\* A version newer than those of its stem is written by an engine, which keeps all it had but for
\* objects that only this stem refers to.
LEMMA NewVersion ==
    ASSUME F!FeedbackAssumption, Kept, Straight, Kept', NEW e \in Engine,
           NEW c \in HeldContext, NEW r \in StoredContext, Numbered(c),
           \A v \in F!Versions(c.name.stem) : v < c.version,
           inMemory' = [inMemory EXCEPT ![e] = F!With(@, c.name, c)],
           \A d \in Engine : d # e => lists'[d] = lists[d] /\ margins'[d] = margins[d],
           rows' = F!With(rows, <<c.name.stem, c.version>>, r),
           r = F!Row(c, lists'[e], margins'[e]), r.name = c.name,
           \A n \in DOMAIN inMemory[e] : n.stem # c.name.stem =>
             /\ inMemory[e][n].from # 0 => /\ inMemory[e][n].from # c.from
                                           /\ lists'[e][inMemory[e][n].from] = lists[e][inMemory[e][n].from]
             /\ inMemory[e][n].margin # 0 =>
                  /\ inMemory[e][n].margin # c.margin
                  /\ margins'[e][inMemory[e][n].margin] = margins[e][inMemory[e][n].margin],
           Told(c.name.stem)',
           \A s \in F!Stems : s # c.name.stem => applied'[s] = applied[s]
    PROVE  Straight'
<1> DEFINE stem == c.name.stem
<1>1. stem \in F!Stems /\ c.version \in Nat \ {0} /\ c.name \in NamesOf
  BY DEF HeldContext, NamesOf
<1>2. /\ F!Versions(stem)' # {} /\ F!Newest(stem)' = r
      /\ \A t : t # stem => F!Versions(t)' = F!Versions(t)
      /\ \A t : t # stem /\ F!Versions(t) # {} => F!Newest(t)' = F!Newest(t)
  BY <1>1, NewerRow
<1>3. /\ \A d \in Engine : d # e => inMemory'[d] = inMemory[d]
      /\ inMemory'[e] = F!With(inMemory[e], c.name, c)
      /\ inMemory[e] \in Partial(NamesOf, HeldContext)
  BY DEF Kept, FeedbackTypes
<1>4. /\ DOMAIN inMemory'[e] = DOMAIN inMemory[e] \cup {c.name} /\ inMemory'[e][c.name] = c
      /\ \A n \in DOMAIN inMemory[e] : n # c.name => inMemory'[e][n] = inMemory[e][n]
  BY <1>3 DEF F!With
<1>5. \A s \in F!Stems : Told(s)'
  <2> SUFFICES ASSUME NEW s \in F!Stems, s # stem PROVE Told(s)'
    OBVIOUS
  <2>1. Told(s)
    BY DEF Straight
  <2>2. QED
    BY <1>2, <2>1, ToldStays
\* No context that was in memory has the name of the new one, as it has a row.
<1>6. ASSUME NEW d \in Engine, NEW n \in DOMAIN inMemory[d]
      PROVE  n # c.name /\ F!Versions(n.stem) # {} /\ n.stem \in F!Stems
  <2>1. WellKept(d, n) /\ n \in NamesOf
    BY <1>6, InPartial DEF Kept, FeedbackTypes
  <2>2. inMemory[d][n].version \in F!Versions(n.stem)
    BY <2>1, RowHasVersion DEF WellKept
  <2>3. ASSUME n = c.name PROVE FALSE
    <3>1. inMemory[d][n].version < c.version
      BY <2>2, <2>3
    <3>2. inMemory[d][n].name = c.name /\ Numbered(inMemory[d][n])
      BY <2>1, <2>3 DEF WellKept
    <3>3. inMemory[d][n].version = c.version
      BY <3>2 DEF Numbered
    <3>4. QED
      BY <1>1, <3>1, <3>3
  <2>4. QED
    BY <2>1, <2>2, <2>3 DEF NamesOf
<1>7. ASSUME NEW d \in Engine, NEW n \in DOMAIN inMemory'[d] PROVE AsSaved(d, n)'
  <2>1. CASE d = e /\ n = c.name
    BY <1>2, <1>4, <2>1 DEF AsSaved
  <2>2. CASE n \in DOMAIN inMemory[d]
    <3>1. /\ n # c.name /\ F!Versions(n.stem) # {} /\ AsSaved(d, n)
      BY <1>6, <2>2 DEF Straight
    <3>2. CASE n.stem = stem
      <4>1. F!Newest(n.stem)' = r /\ r.name # n
        BY <1>2, <3>1, <3>2
      <4>2. QED
        BY <4>1 DEF AsSaved
    <3>3. CASE n.stem # stem
      <4>1. F!Newest(n.stem)' = F!Newest(n.stem)
        BY <1>2, <3>1, <3>3
      <4>2. inMemory'[d][n] = inMemory[d][n]
        BY <1>3, <1>4, <2>2, <3>1
      <4>3. F!Row(inMemory[d][n], lists'[d], margins'[d]) = F!Row(inMemory[d][n], lists[d], margins[d])
        <5>1. CASE d # e
          BY <5>1
        <5>2. CASE d = e
          BY <2>2, <3>3, <5>2 DEF F!Row
        <5>3. QED
          BY <5>1, <5>2
      <4>4. QED
        BY <3>1, <4>1, <4>2, <4>3 DEF AsSaved
    <3>4. QED
      BY <3>2, <3>3
  <2>3. QED
    BY <1>3, <1>4, <1>7, <2>1, <2>2
<1>8. ASSUME NEW d \in Engine, NEW n \in DOMAIN inMemory'[d], NEW m \in DOMAIN inMemory'[d]
      PROVE  NoneShared(d, n, m)'
  <2>1. CASE n \in DOMAIN inMemory[d] /\ m \in DOMAIN inMemory[d]
    <3>1. inMemory'[d][n] = inMemory[d][n] /\ inMemory'[d][m] = inMemory[d][m]
      BY <1>3, <1>4, <1>6, <2>1
    <3>2. NoneShared(d, n, m)
      BY <2>1 DEF Straight
    <3>3. QED
      BY <3>1, <3>2 DEF NoneShared
  <2>2. CASE d = e /\ n = c.name /\ m \in DOMAIN inMemory[e]
    <3>1. inMemory'[d][n] = c /\ inMemory'[d][m] = inMemory[e][m]
      BY <1>4, <1>6, <2>2
    <3>2. m.stem # stem => /\ inMemory[e][m].from # 0 => inMemory[e][m].from # c.from
                           /\ inMemory[e][m].margin # 0 => inMemory[e][m].margin # c.margin
      BY <2>2
    <3>3. QED
      BY <2>2, <3>1, <3>2 DEF NoneShared
  <2>3. CASE d = e /\ m = c.name /\ n \in DOMAIN inMemory[e]
    <3>1. inMemory'[d][m] = c /\ inMemory'[d][n] = inMemory[e][n]
      BY <1>4, <1>6, <2>3
    <3>2. n.stem # stem => /\ inMemory[e][n].from # 0 => inMemory[e][n].from # c.from
                           /\ inMemory[e][n].margin # 0 => inMemory[e][n].margin # c.margin
      BY <2>3
    <3>3. QED
      BY <2>3, <3>1, <3>2 DEF NoneShared
  <2>4. CASE n = m
    BY <2>4 DEF NoneShared
  <2>5. QED
    BY <1>3, <1>4, <1>8, <2>1, <2>2, <2>3, <2>4
<1>9. QED
  BY <1>5, <1>7, <1>8 DEF Straight

\* Types, names and rows when an engine writes a version.
LEMMA VersionKept ==
    ASSUME F!FeedbackAssumption, Kept, NEW e \in Engine, NEW c \in HeldContext, NEW r \in StoredContext,
           Numbered(c), NEW ls \in Seq(Seq(Observation)), NEW ms \in Seq(MarginsSaid),
           inMemory' = [inMemory EXCEPT ![e] = F!With(@, c.name, c)],
           lists' = [lists EXCEPT ![e] = ls], margins' = [margins EXCEPT ![e] = ms],
           Len(lists[e]) <= Len(ls), Len(margins[e]) <= Len(ms), c.from <= Len(ls), c.margin <= Len(ms),
           rows' = F!With(rows, <<c.name.stem, c.version>>, r), r.name = c.name, r.version = c.version,
           outcomeRows' = outcomeRows, updates' \in 0 .. MaxUpdates, updates <= updates', c.version <= updates' + 1,
           applied' \in [F!Stems -> Seq(Observation)], straight' \in BOOLEAN
    PROVE  Kept'
<1>1. c.name \in NamesOf /\ c.name.stem \in F!Stems /\ c.version \in Nat \ {0} /\ updates \in Nat
      /\ updates' \in Nat
  BY DEF HeldContext, NamesOf, Kept, FeedbackTypes
<1>2. <<c.name.stem, c.version>> \in F!Stems \X (Nat \ {0})
  BY <1>1
<1>3. /\ rows \in Partial(F!Stems \X (Nat \ {0}), StoredContext)
      /\ inMemory[e] \in Partial(NamesOf, HeldContext)
      /\ lists[e] \in Seq(Seq(Observation)) /\ margins[e] \in Seq(MarginsSaid)
  BY DEF Kept, FeedbackTypes
<1>4. /\ rows' \in Partial(F!Stems \X (Nat \ {0}), StoredContext)
      /\ DOMAIN rows' = DOMAIN rows \cup {<<c.name.stem, c.version>>}
      /\ rows'[<<c.name.stem, c.version>>] = r
      /\ \A k \in DOMAIN rows : k # <<c.name.stem, c.version>> => rows'[k] = rows[k]
  <2>1. rows' \in Partial(F!Stems \X (Nat \ {0}), StoredContext)
    BY <1>2, <1>3, WithType
  <2>2. QED
    BY <2>1 DEF F!With
<1>5. /\ inMemory'[e] \in Partial(NamesOf, HeldContext)
      /\ DOMAIN inMemory'[e] = DOMAIN inMemory[e] \cup {c.name} /\ inMemory'[e][c.name] = c
      /\ \A n \in DOMAIN inMemory[e] : n # c.name => inMemory'[e][n] = inMemory[e][n]
  <2>1. inMemory'[e] = F!With(inMemory[e], c.name, c)
    BY DEF Kept, FeedbackTypes
  <2>2. QED
    <3>1. inMemory'[e] \in Partial(NamesOf, HeldContext)
      BY <1>1, <1>3, <2>1, WithType
    <3>2. QED
      BY <2>1, <3>1 DEF F!With
<1>6. /\ \A d \in Engine : d # e =>
            inMemory'[d] = inMemory[d] /\ lists'[d] = lists[d] /\ margins'[d] = margins[d]
      /\ lists'[e] = ls /\ margins'[e] = ms
  BY DEF Kept, FeedbackTypes
<1>7. FeedbackTypes'
  <2>1. inMemory' \in [Engine -> Partial(NamesOf, HeldContext)]
    <3>1. inMemory' = [d \in Engine |-> inMemory'[d]]
      BY DEF Kept, FeedbackTypes
    <3>2. \A d \in Engine : inMemory'[d] \in Partial(NamesOf, HeldContext)
      BY <1>5, <1>6 DEF Kept, FeedbackTypes
    <3>3. QED
      BY <3>1, <3>2
  <2>2. lists' \in [Engine -> Seq(Seq(Observation))] /\ margins' \in [Engine -> Seq(MarginsSaid)]
    BY DEF Kept, FeedbackTypes
  <2>3. QED
    BY <1>4, <2>1, <2>2 DEF Kept, FeedbackTypes
<1>8. ASSUME NEW d \in Engine, NEW n \in DOMAIN inMemory'[d] PROVE WellKept(d, n)'
  <2>1. CASE d = e /\ n = c.name
    BY <1>4, <1>5, <1>6, <2>1 DEF WellKept
  <2>2. CASE d # e
    <3>1. WellKept(d, n) /\ inMemory'[d] = inMemory[d] /\ lists'[d] = lists[d] /\ margins'[d] = margins[d]
      BY <1>6, <1>8, <2>2 DEF Kept
    <3>2. QED
      BY <1>4, <3>1 DEF WellKept
  <2>3. CASE d = e /\ n # c.name
    <3>1. n \in DOMAIN inMemory[e] /\ WellKept(e, n) /\ inMemory'[e][n] = inMemory[e][n]
      BY <1>5, <1>8, <2>3 DEF Kept
    <3>2. inMemory[e][n].from \in Nat /\ inMemory[e][n].margin \in Nat
      <4>1. inMemory[e][n] \in HeldContext
        BY <1>3, <3>1, InPartial
      <4>2. QED
        BY <4>1 DEF HeldContext
    <3>3. /\ inMemory[e][n].from <= Len(ls) /\ inMemory[e][n].margin <= Len(ms)
      BY <1>3, <3>1, <3>2 DEF WellKept
    <3>4. QED
      BY <1>4, <1>6, <2>3, <3>1, <3>3 DEF WellKept
  <2>4. QED
    BY <2>1, <2>2, <2>3
<1>9. ASSUME NEW k \in DOMAIN rows' PROVE RowOK(k)'
  <2>1. CASE k = <<c.name.stem, c.version>>
    <3>1. Numbered(r)
      BY DEF Numbered
    <3>2. QED
      BY <1>4, <2>1, <3>1 DEF RowOK
  <2>2. CASE k # <<c.name.stem, c.version>>
    <3>1. k \in DOMAIN rows /\ RowOK(k) /\ rows'[k] = rows[k]
      BY <1>4, <1>9, <2>2 DEF Kept
    <3>2. k \in F!Stems \X (Nat \ {0})
      BY <1>3, <3>1, InPartial
    <3>3. QED
      BY <1>1, <3>1, <3>2 DEF RowOK
  <2>3. QED
    BY <2>1, <2>2
<1>10. QED
  BY <1>7, <1>8, <1>9 DEF Kept

LEMMA RegisterContextStep ==
    ASSUME F!FeedbackAssumption, FeedbackInv, NEW e \in Engine, NEW name \in Registered,
           F!RegisterContext(e, name)
    PROVE  FeedbackInv'
<1> DEFINE c == [name |-> name, version |-> 1, previous |-> Absent, revenue |-> Absent, margin |-> 0,
                 from |-> 0]
           r == F!Row(c, <<>>, <<>>)
<1>1. /\ F!Versions(name.stem) = {}
      /\ inMemory' = [inMemory EXCEPT ![e] = F!With(@, name, c)]
      /\ rows' = F!With(rows, F!Key(c), r)
      /\ UNCHANGED <<toldStrategies, outcomeRows, lists, margins, notes, updates, applied, straight>>
  BY DEF F!RegisterContext, F!Saved
<1>2. PICK number \in {0, 1} : name = [stem |-> name.stem, version |-> number]
  BY DEF F!FeedbackAssumption, F!Name
<1>3. name \in NamesOf /\ name.version \in {0, 1} /\ name.stem \in F!Stems
  BY <1>2 DEF NamesOf, F!Stems
<1>4. c \in HeldContext /\ Numbered(c) /\ F!Key(c) = <<name.stem, 1>>
  BY <1>3 DEF HeldContext, Worth, Numbered, F!Key
<1>5. /\ r \in StoredContext
      /\ r = [name |-> name, version |-> 1, previous |-> Absent, revenue |-> Absent, margin |-> Absent,
              from |-> Absent]
  <2>1. <<>> \in Seq(Seq(Observation)) /\ <<>> \in Seq(MarginsSaid) /\ c.from <= Len(<<>>) /\ c.margin <= Len(<<>>)
    OBVIOUS
  <2>2. c.name = name /\ c.version = 1 /\ c.previous = Absent /\ c.revenue = Absent /\ c.margin = 0 /\ c.from = 0
    OBVIOUS
  <2> HIDE DEF c
  <2>3. QED
    BY <1>4, <2>1, <2>2, RowIs
<1>6. /\ lists[e] \in Seq(Seq(Observation)) /\ margins[e] \in Seq(MarginsSaid)
      /\ lists = [d \in Engine |-> lists[d]] /\ margins = [d \in Engine |-> margins[d]]
      /\ updates \in 0 .. MaxUpdates /\ straight \in BOOLEAN /\ applied \in [F!Stems -> Seq(Observation)]
  BY DEF FeedbackInv, Kept, FeedbackTypes
<1>7. r.name = name /\ r.version = 1 /\ r.from = Absent /\ r.revenue = Absent /\ r.margin = Absent
      /\ c.name = name /\ c.version = 1 /\ c.from = 0 /\ c.margin = 0
  BY <1>5
<1>8. F!Row(c, lists[e], margins[e]) = r
  BY <1>4, <1>5, <1>6, RowIs
<1> HIDE DEF c, r
<1>9. /\ rows' = F!With(rows, <<c.name.stem, c.version>>, r)
      /\ inMemory' = [inMemory EXCEPT ![e] = F!With(@, c.name, c)]
      /\ lists' = [lists EXCEPT ![e] = lists[e]] /\ margins' = [margins EXCEPT ![e] = margins[e]]
  BY <1>1, <1>4, <1>6, <1>7
<1>10. /\ c.from <= Len(lists[e]) /\ c.margin <= Len(margins[e]) /\ Len(lists[e]) <= Len(lists[e])
       /\ Len(margins[e]) <= Len(margins[e]) /\ r.name = c.name /\ r.version = c.version
       /\ outcomeRows' = outcomeRows /\ updates' \in 0 .. MaxUpdates /\ updates <= updates'
       /\ c.version <= updates' + 1 /\ applied' \in [F!Stems -> Seq(Observation)] /\ straight' \in BOOLEAN
  BY <1>1, <1>6, <1>7
<1>11. Kept
  BY DEF FeedbackInv
<1>12. Kept'
  BY <1>4, <1>5, <1>6, <1>9, <1>10, <1>11, VersionKept
<1>13. ASSUME straight PROVE Straight'
  <2>1. Straight
    BY <1>13 DEF FeedbackInv
  <2>2. \A v \in F!Versions(c.name.stem) : v < c.version
    BY <1>1, <1>7
  <2>3. Told(c.name.stem)'
    <3>1. applied'[name.stem] = <<>>
      BY <1>1, <1>3, <2>1 DEF Straight, Told
    <3>2. F!Versions(name.stem)' # {} /\ F!Newest(name.stem)' = r
      BY <1>3, <1>5, <1>7, <1>9, <1>11, <2>2, NewerRow
    <3>3. \A says : F!SaysLast(<<>>, says, Absent)
      BY DEF F!SaysLast
    <3>4. QED
      BY <1>7, <3>1, <3>2, <3>3 DEF Told
  <2>4. \A d \in Engine : d # e => lists'[d] = lists[d] /\ margins'[d] = margins[d]
    BY <1>1
  <2>5. \A n \in DOMAIN inMemory[e] : n.stem # c.name.stem =>
             /\ inMemory[e][n].from # 0 => /\ inMemory[e][n].from # c.from
                                           /\ lists'[e][inMemory[e][n].from] = lists[e][inMemory[e][n].from]
             /\ inMemory[e][n].margin # 0 =>
                  /\ inMemory[e][n].margin # c.margin
                  /\ margins'[e][inMemory[e][n].margin] = margins[e][inMemory[e][n].margin]
    BY <1>1, <1>7
  <2>6. r = F!Row(c, lists'[e], margins'[e]) /\ \A s \in F!Stems : s # c.name.stem => applied'[s] = applied[s]
    BY <1>1, <1>8
  <2>7. QED
    BY <1>4, <1>5, <1>7, <1>9, <1>11, <1>12, <2>1, <2>2, <2>3, <2>4, <2>5, <2>6, NewVersion
<1>14. QED
  BY <1>1, <1>12, <1>13 DEF FeedbackInv

LEMMA NamesTyped == ASSUME F!FeedbackAssumption, Kept PROVE F!Names \subseteq NamesOf
<1>1. \A name \in Registered : name \in NamesOf
  <2> SUFFICES ASSUME NEW name \in Registered PROVE name \in NamesOf
    OBVIOUS
  <2>1. PICK number \in {0, 1} : name = [stem |-> name.stem, version |-> number]
    BY DEF F!FeedbackAssumption, F!Name
  <2>2. QED
    BY <2>1 DEF NamesOf, F!Stems
<1>2. \A e \in Engine : DOMAIN inMemory[e] \subseteq NamesOf
  BY InPartial DEF Kept, FeedbackTypes
<1>3. QED
  BY <1>1, <1>2 DEF F!Names

\* The version that is loaded is the newest of its stem if it has its name.
LEMMA NewestHasVersion ==
    ASSUME Kept, NEW c, Numbered(c), NEW stem, F!Versions(stem) # {}, c.name = F!Newest(stem).name
    PROVE  /\ c.version \in F!Versions(stem) /\ \A v \in F!Versions(stem) : v < c.version + 1
<1>1. PICK v \in F!Versions(stem) :
         /\ <<stem, v>> \in DOMAIN rows /\ F!Newest(stem) = rows[<<stem, v>>]
         /\ v \in Nat \ {0} /\ \A u \in F!Versions(stem) : u \in Nat /\ u <= v
  BY NewestIs
<1>2. RowOK(<<stem, v>>)
  BY <1>1 DEF Kept
<1>3. Numbered(rows[<<stem, v>>]) /\ rows[<<stem, v>>].version = v
  BY <1>2 DEF RowOK
<1>4. c.version = v
  BY <1>1, <1>3 DEF Numbered
<1>5. QED
  BY <1>1, <1>4

LEMMA UpdateStep ==
    ASSUME F!FeedbackAssumption, FeedbackInv, NEW e \in Engine, NEW o \in Observation, NEW name \in F!Names,
           F!Update(e, o, name)
    PROVE  FeedbackInv'
<1> DEFINE stem == name.stem
<1>a. PICK l : l = F!Load(e, name)
  OBVIOUS
<1>b. PICK u : u = F!Updated(l, o)
  OBVIOUS
<1>c. PICK c : c = u.c
  OBVIOUS
<1>d. PICK r, before : r = F!Row(c, u.lists, u.margins) /\ before = F!Row(l.c, l.lists, l.margins)
  OBVIOUS
<1>1. Kept
  BY DEF FeedbackInv
<1>2. name \in NamesOf /\ stem \in F!Stems
  BY <1>1, NamesTyped DEF NamesOf
<1>3. F!Found(e, name) /\ updates < MaxUpdates
  BY DEF F!Update
<1>4. Loaded(l, e, name) /\ (Straight => LoadedStraight(l, e, name))
  BY <1>1, <1>2, <1>3, <1>a, LoadIs
<1>5. /\ inMemory' = [inMemory EXCEPT ![e] = F!With(@, c.name, c)]
      /\ lists' = [lists EXCEPT ![e] = u.lists] /\ margins' = [margins EXCEPT ![e] = u.margins]
      /\ rows' = F!With(rows, F!Key(c), r)
      /\ updates' = updates + 1
      /\ applied' = [applied EXCEPT ![l.c.name.stem] = Append(@, o)]
      /\ straight' = (straight /\ c.name.stem = l.c.name.stem /\ c.previous = F!Newest(l.c.name.stem).name)
      /\ outcomeRows' = outcomeRows
  BY <1>a, <1>b, <1>c, <1>d DEF F!Update, F!Saved
<1>6. /\ l.c \in HeldContext /\ Numbered(l.c) /\ l.c.name.stem = stem
      /\ <<stem, l.c.version>> \in DOMAIN rows
      /\ l.lists \in Seq(Seq(Observation)) /\ l.margins \in Seq(MarginsSaid)
      /\ l.c.from <= Len(l.lists) /\ l.c.margin <= Len(l.margins)
      /\ Longer(lists[e], l.lists) /\ Longer(margins[e], l.margins)
  BY <1>4 DEF Loaded
<1>7. /\ c \in HeldContext /\ Numbered(c) /\ c.version = l.c.version + 1
      /\ c.name = F!Name(F!First(stem), l.c.version + 1) /\ c.previous = l.c.name
      /\ u.lists \in Seq(Seq(Observation)) /\ u.margins \in Seq(MarginsSaid)
      /\ c.from <= Len(u.lists) /\ c.margin <= Len(u.margins)
      /\ Len(l.lists) <= Len(u.lists) /\ Len(l.margins) <= Len(u.margins)
      /\ \A i \in 1 .. Len(l.lists) : i # l.c.from => u.lists[i] = l.lists[i]
      /\ \A i \in 1 .. Len(l.margins) : i # l.c.margin => u.margins[i] = l.margins[i]
      /\ c.from = Len(l.lists) + 1 \/ c.from = l.c.from
      /\ c.margin = Len(l.margins) + 1 \/ c.margin = l.c.margin
      /\ r \in StoredContext /\ r.name = c.name
      /\ r.from = Append(IF before.from = Absent /\ l.c.from = 0 THEN <<>> ELSE before.from, o)
      /\ r.revenue = IF About[o].revenue # Absent THEN About[o].revenue ELSE before.revenue
      /\ r.margin = IF About[o].margin # Absent THEN About[o].margin ELSE before.margin
  BY <1>6, <1>b, <1>c, <1>d, UpdatedIs
<1>8. before.from = IF l.c.from = 0 THEN Absent ELSE l.lists[l.c.from]
  BY <1>6, <1>d, RowIs
<1>9. r.version = c.version
  BY <1>7, <1>d, RowIs
<1>10. /\ l.c.from \in Nat /\ l.c.margin \in Nat /\ l.c.version \in Nat \ {0}
       /\ lists[e] \in Seq(Seq(Observation)) /\ margins[e] \in Seq(MarginsSaid)
       /\ updates \in 0 .. MaxUpdates /\ MaxUpdates \in Nat /\ straight \in BOOLEAN
       /\ applied \in [F!Stems -> Seq(Observation)] /\ DOMAIN lists = Engine /\ DOMAIN margins = Engine
  BY <1>1, <1>6 DEF HeldContext, Kept, FeedbackTypes, F!FeedbackAssumption
<1>11. F!Key(c) = <<c.name.stem, c.version>>
  BY <1>7, <1>10 DEF F!Key, F!Name, Numbered
<1>12. l.c.version <= updates + 1
  <2>1. RowOK(<<stem, l.c.version>>)
    BY <1>1, <1>6 DEF Kept
  <2>2. QED
    BY <2>1 DEF RowOK
<1>13. /\ rows' = F!With(rows, <<c.name.stem, c.version>>, r)
       /\ Len(lists[e]) <= Len(u.lists) /\ Len(margins[e]) <= Len(u.margins)
       /\ updates' \in 0 .. MaxUpdates /\ updates <= updates' /\ c.version <= updates' + 1
       /\ applied' \in [F!Stems -> Seq(Observation)] /\ straight' \in BOOLEAN
  <2>1. Len(lists[e]) <= Len(u.lists) /\ Len(margins[e]) <= Len(u.margins)
    BY <1>6, <1>7, <1>10 DEF Longer
  <2>2. applied' \in [F!Stems -> Seq(Observation)]
    BY <1>2, <1>5, <1>6, <1>10
  <2>3. straight' \in BOOLEAN
    BY <1>5
  <2>4. rows' = F!With(rows, <<c.name.stem, c.version>>, r)
    BY <1>5, <1>11
  <2>5. updates' = updates + 1 /\ c.version = l.c.version + 1
    BY <1>5, <1>7
  <2>6. updates' \in 0 .. MaxUpdates /\ updates <= updates' /\ c.version <= updates' + 1
    BY <1>3, <1>10, <1>12, <2>5
  <2>7. QED
    BY <2>1, <2>2, <2>3, <2>4, <2>6
<1>14. Kept'
  BY <1>1, <1>5, <1>7, <1>9, <1>13, VersionKept
<1>15. ASSUME straight' PROVE Straight'
  <2>1. straight /\ c.name.stem = stem /\ l.c.name = F!Newest(stem).name
    BY <1>5, <1>6, <1>7, <1>15
  <2>2. Straight /\ LoadedStraight(l, e, name)
    BY <1>4, <2>1 DEF FeedbackInv
  <2>3. F!Versions(stem) # {}
    BY <1>6, RowHasVersion
  <2>4. \A v \in F!Versions(stem) : v < c.version
    BY <1>1, <1>6, <1>7, <2>1, <2>3, NewestHasVersion
  <2>5. before = F!Newest(stem)
    BY <1>d, <2>1, <2>2 DEF LoadedStraight
  <2> DEFINE os == applied[stem]
  <2>6. os \in Seq(Observation) /\ applied'[stem] = Append(os, o)
    BY <1>2, <1>5, <1>6, <1>10
  <2>7. /\ before.from = IF os = <<>> THEN Absent ELSE os
        /\ F!SaysLast(os, F!Revenues, before.revenue) /\ F!SaysLast(os, F!Margins, before.margin)
    BY <1>2, <2>2, <2>3, <2>5 DEF Straight, Told
  <2>8. r.from = Append(os, o)
    <3>1. CASE l.c.from = 0
      BY <1>7, <1>8, <2>6, <2>7, <3>1 DEF F!FeedbackAssumption
    <3>2. CASE l.c.from # 0
      <4>1. l.lists[l.c.from] \in Seq(Observation)
        BY <1>6, <1>10, <3>2
      <4>2. QED
        BY <1>7, <1>8, <2>6, <2>7, <3>2, <4>1 DEF F!FeedbackAssumption
    <3>3. QED
      BY <3>1, <3>2
  <2>9. F!SaysLast(Append(os, o), F!Revenues, r.revenue)
    <3>1. F!Revenues[o] = About[o].revenue
      BY DEF F!Revenues
    <3>2. F!SaysLast(Append(os, o), F!Revenues, IF F!Revenues[o] # Absent THEN F!Revenues[o] ELSE before.revenue)
      BY <2>6, <2>7, LastWord
    <3>3. QED
      BY <1>7, <3>1, <3>2
  <2>10. F!SaysLast(Append(os, o), F!Margins, r.margin)
    <3>1. F!Margins[o] = About[o].margin
      BY DEF F!Margins
    <3>2. F!SaysLast(Append(os, o), F!Margins, IF F!Margins[o] # Absent THEN F!Margins[o] ELSE before.margin)
      BY <2>6, <2>7, LastWord
    <3>3. QED
      BY <1>7, <3>1, <3>2
  <2>11. F!Versions(c.name.stem)' # {} /\ F!Newest(c.name.stem)' = r
    <3>1. c.version \in Nat \ {0} /\ r \in StoredContext /\ c.name.stem \in F!Stems
      BY <1>2, <1>7, <2>1 DEF HeldContext
    <3>2. \A v \in F!Versions(c.name.stem) : v < c.version
      BY <2>1, <2>4
    <3>3. rows' = F!With(rows, <<c.name.stem, c.version>>, r)
      BY <1>13
    <3>4. QED
      BY <1>1, <3>1, <3>2, <3>3, NewerRow
  <2>12. Append(os, o) # <<>>
    BY <2>6
  <2>13. Told(c.name.stem)'
    <3>1. /\ F!Newest(stem)'.from = applied'[stem] /\ applied'[stem] # <<>>
          /\ F!SaysLast(applied'[stem], F!Revenues, F!Newest(stem)'.revenue)
          /\ F!SaysLast(applied'[stem], F!Margins, F!Newest(stem)'.margin)
          /\ F!Versions(stem)' # {}
      BY <2>1, <2>6, <2>8, <2>9, <2>10, <2>11, <2>12
    <3>2. Told(stem)'
      BY <3>1 DEF Told
    <3>3. QED
      BY <2>1, <3>2
  <2>14. \A d \in Engine : d # e => lists'[d] = lists[d] /\ margins'[d] = margins[d]
    BY <1>5
  <2>15. lists'[e] = u.lists /\ margins'[e] = u.margins
    BY <1>5, <1>10
  <2>16. ASSUME NEW n \in DOMAIN inMemory[e], n.stem # c.name.stem
         PROVE  /\ inMemory[e][n].from # 0 =>
                     /\ inMemory[e][n].from # c.from
                     /\ lists'[e][inMemory[e][n].from] = lists[e][inMemory[e][n].from]
                /\ inMemory[e][n].margin # 0 =>
                     /\ inMemory[e][n].margin # c.margin
                     /\ margins'[e][inMemory[e][n].margin] = margins[e][inMemory[e][n].margin]
    <3> DEFINE k == inMemory[e][n]
    <3>1. WellKept(e, n) /\ k \in HeldContext
      BY <1>1, <2>16, InPartial DEF Kept, FeedbackTypes
    <3>2. k.from \in Nat /\ k.margin \in Nat /\ k.from <= Len(lists[e]) /\ k.margin <= Len(margins[e])
      BY <3>1 DEF WellKept, HeldContext
    <3>3. /\ k.from = l.c.from => l.c.from = 0
          /\ k.margin = l.c.margin => l.c.margin = 0
      BY <2>1, <2>2, <2>16 DEF LoadedStraight
    <3> HIDE DEF k
    <3>4. ASSUME k.from # 0
          PROVE  k.from # c.from /\ lists'[e][k.from] = lists[e][k.from]
      <4>1. k.from \in 1 .. Len(lists[e]) /\ k.from \in 1 .. Len(l.lists) /\ k.from # l.c.from
        BY <1>6, <1>10, <3>2, <3>3, <3>4 DEF Longer
      <4>2. u.lists[k.from] = l.lists[k.from] /\ l.lists[k.from] = lists[e][k.from]
        BY <1>6, <1>7, <4>1 DEF Longer
      <4>3. k.from # c.from
        BY <1>6, <1>7, <4>1
      <4>4. QED
        BY <2>15, <4>2, <4>3
    <3>5. ASSUME k.margin # 0
          PROVE  k.margin # c.margin /\ margins'[e][k.margin] = margins[e][k.margin]
      <4>1. k.margin \in 1 .. Len(margins[e]) /\ k.margin \in 1 .. Len(l.margins) /\ k.margin # l.c.margin
        BY <1>6, <1>10, <3>2, <3>3, <3>5 DEF Longer
      <4>2. u.margins[k.margin] = l.margins[k.margin] /\ l.margins[k.margin] = margins[e][k.margin]
        BY <1>6, <1>7, <4>1 DEF Longer
      <4>3. k.margin # c.margin
        BY <1>6, <1>7, <4>1
      <4>4. QED
        BY <2>15, <4>2, <4>3
    <3>6. QED
      BY <3>4, <3>5 DEF k
  <2>17. r = F!Row(c, lists'[e], margins'[e])
    BY <1>d, <2>15
  <2>18. \A s \in F!Stems : s # c.name.stem => applied'[s] = applied[s]
    BY <1>5, <1>6, <1>10, <2>1
  <2>19. \A v \in F!Versions(c.name.stem) : v < c.version
    BY <2>1, <2>4
  <2>20. Kept /\ Kept' /\ Straight
    BY <1>1, <1>14, <2>2
  <2>21. c \in HeldContext /\ Numbered(c) /\ r \in StoredContext /\ r.name = c.name
    BY <1>7
  <2>22. /\ inMemory' = [inMemory EXCEPT ![e] = F!With(@, c.name, c)]
         /\ rows' = F!With(rows, <<c.name.stem, c.version>>, r)
    BY <1>5, <1>13
  <2>23. QED
    BY <2>13, <2>14, <2>16, <2>17, <2>18, <2>19, <2>20, <2>21, <2>22, NewVersion
<1>16. QED
  BY <1>14, <1>15 DEF FeedbackInv

-----------------------------------------------------------------------------
(* Feedback: the theorems                                                  *)

\* The invariant is inductive: engines that share a store register and update contexts and end
\* (learning_engine.py, context_learner.py, focal_actor_context_store.py).
THEOREM FeedbackInductive == ASSUME F!FeedbackAssumption PROVE F!Spec => []FeedbackInv
<1>1. F!Init => FeedbackInv
  BY FeedbackStart
<1>2. FeedbackInv /\ [F!Next]_(F!vars) => FeedbackInv'
  <2> SUFFICES ASSUME FeedbackInv, [F!Next]_(F!vars) PROVE FeedbackInv'
    OBVIOUS
  <2>1. outcomeRows \subseteq Observation
    BY DEF FeedbackInv, Kept, FeedbackTypes
  <2>2. ASSUME NEW o \in Observation, F!RegisterOutcome(o) PROVE FeedbackInv'
    BY <2>1, <2>2, ContextsStay DEF F!RegisterOutcome
  <2>3. ASSUME NEW e \in Engine, NEW o \in Observation, F!Learn(e, o) PROVE FeedbackInv'
    BY <2>1, <2>3, ContextsStay DEF F!Learn
  <2>4. ASSUME NEW e \in Engine, NEW s, F!RegisterStrategy(e, s) PROVE FeedbackInv'
    BY <2>1, <2>4, ContextsStay DEF F!RegisterStrategy
  <2>5. CASE UNCHANGED F!vars
    <3>1. UNCHANGED F!contextVars /\ outcomeRows' = outcomeRows
      BY <2>5 DEF F!vars, F!contextVars
    <3>2. QED
      BY <2>1, <3>1, ContextsStay
  <2>6. QED
    BY <2>2, <2>3, <2>4, <2>5, UpdateStep, RegisterContextStep, RestartStep DEF F!Next
<1>3. QED
  BY <1>1, <1>2, PTL DEF F!Spec

\* The newest version of a context names every outcome that was applied to it, in their order, and
\* holds what the last of them say, while each update is asked of the newest version and the name
\* has no "-v" within; though versions share objects in memory, engines share the store and
\* processes end (learning_engine.py:update_focal_actor_context_from_outcome_api).
THEOREM NothingLearnedLost == ASSUME F!FeedbackAssumption PROVE F!Spec => []F!NothingLearnedIsLost
<1>1. FeedbackInv => F!NothingLearnedIsLost
  <2> SUFFICES ASSUME FeedbackInv, straight, NEW k \in DOMAIN rows
               PROVE  LET r == F!Newest(k[1])
                          os == applied[k[1]]
                      IN  /\ r.from = IF os = <<>> THEN Absent ELSE os
                          /\ F!SaysLast(os, F!Revenues, r.revenue)
                          /\ F!SaysLast(os, F!Margins, r.margin)
    BY DEF F!NothingLearnedIsLost
  <2>1. k \in F!Stems \X (Nat \ {0})
    BY InPartial DEF FeedbackInv, Kept, FeedbackTypes
  <2>2. F!Versions(k[1]) # {}
    BY <2>1 DEF F!Versions
  <2>3. Told(k[1])
    BY <2>1 DEF FeedbackInv, Straight
  <2>4. QED
    BY <2>2, <2>3 DEF Told
<1>2. QED
  BY <1>1, FeedbackInductive, PTL

\* Contexts in memory have their names and refer to objects that are there
\* (learning_engine.py).
THEOREM FeedbackTyped == ASSUME F!FeedbackAssumption PROVE F!Spec => []F!TypeOK
<1>1. F!FeedbackAssumption /\ FeedbackInv => F!TypeOK
  <2> SUFFICES ASSUME F!FeedbackAssumption, FeedbackInv, NEW e \in Engine, NEW n \in DOMAIN inMemory[e]
               PROVE  LET c == inMemory[e][n]
                      IN  /\ c.name = n /\ c.from \in {0} \cup DOMAIN lists[e]
                          /\ c.margin \in {0} \cup DOMAIN margins[e]
    BY DEF F!TypeOK, FeedbackInv, Kept, FeedbackTypes, F!FeedbackAssumption
  <2>1. WellKept(e, n) /\ inMemory[e][n] \in HeldContext
    BY InPartial DEF FeedbackInv, Kept, FeedbackTypes
  <2>2. lists[e] \in Seq(Seq(Observation)) /\ margins[e] \in Seq(MarginsSaid)
    BY DEF FeedbackInv, Kept, FeedbackTypes
  <2>3. QED
    BY <2>1, <2>2 DEF WellKept, HeldContext
<1>2. QED
  BY <1>1, FeedbackInductive, PTL

-----------------------------------------------------------------------------
(* Feedback: outliers                                                      *)

\* What a sum is: the last of a row that adds one number after another.
Adding(a, numbers) ==
    a[0] = 0 /\ \A i \in 1 .. Len(numbers) : a[i] = a[i - 1] + numbers[i] /\ a[i] \in Int

LEMMA TotalIs ==
    ASSUME NEW numbers \in Seq(Int)
    PROVE  \E a : Adding(a, numbers) /\ F!Total(numbers) = a[Len(numbers)]
<1> DEFINE n == Len(numbers)
           f == [i \in 1 .. n |-> [k \in Int |-> k + numbers[i]]]
           G(a) == a = [i \in 0 .. n |-> IF i = 0 THEN 0 ELSE a[i - 1] + numbers[i]]
           all == CHOOSE a : G(a)
<1>1. n \in Nat /\ \A i \in 1 .. n : numbers[i] \in Int
  OBVIOUS
<1>2. F!Total(numbers) = all[n]
  BY DEF F!Total
<1> HIDE DEF n
<1>3. f \in [1 .. n -> [Int -> Int]]
  BY <1>1
<1>4. PICK a : Trace(a, Int, 0, n, f)
  <2> HIDE DEF f
  <2>1. 0 \in Int /\ n \in Nat
    BY <1>1
  <2> QED
    BY <1>3, <2>1, StepsExist, Zenon
<1>5. a \in [0 .. n -> Int] /\ a[0] = 0 /\ \A i \in 1 .. n : a[i] = f[i][a[i - 1]]
  <2> HIDE DEF f
  <2> QED
    BY <1>4 DEF Trace
<1>6. \A i \in 1 .. n : a[i] = a[i - 1] + numbers[i]
  <2> SUFFICES ASSUME NEW i \in 1 .. n PROVE a[i] = a[i - 1] + numbers[i]
    OBVIOUS
  <2>1. i - 1 \in 0 .. n
    BY <1>1
  <2>2. a[i - 1] \in Int /\ a[i] = f[i][a[i - 1]]
    <3> HIDE DEF f
    <3> QED
      BY <1>5, <2>1
  <2> QED
    BY <2>2
<1> HIDE DEF f
<1>7. G(a)
  <2>1. a = [i \in 0 .. n |-> a[i]]
    BY <1>5
  <2>2. \A i \in 0 .. n : i # 0 => i \in 1 .. n
    BY <1>1
  <2> QED
    BY <1>5, <1>6, <2>1, <2>2
<1>8. G(all)
  <2> HIDE DEF G
  <2> QED
    BY <1>7
<1>9. \A i \in 0 .. n : all[i] = IF i = 0 THEN 0 ELSE all[i - 1] + numbers[i]
  <2> HIDE DEF all
  <2> QED
    BY <1>8
<1> HIDE DEF all, G
<1>10. all[0] = 0 /\ \A i \in 1 .. n : all[i] = all[i - 1] + numbers[i]
  <2>1. 0 \in 0 .. n /\ \A i \in 1 .. n : i \in 0 .. n /\ i # 0
    BY <1>1
  <2> QED
    BY <1>9, <2>1
<1> DEFINE Good == {i \in Nat : i <= n => all[i] \in Int}
<1>11. 0 \in Good
  BY <1>10
<1>12. ASSUME NEW i \in Nat, i \in Good PROVE i + 1 \in Good
  <2>1. SUFFICES ASSUME i + 1 <= n PROVE all[i + 1] \in Int
    OBVIOUS
  <2>2. i + 1 \in 1 .. n /\ (i + 1) - 1 = i /\ all[i] \in Int
    BY <1>1, <1>12, <2>1
  <2> QED
    BY <1>1, <1>10, <2>2
<1>13. \A i \in 1 .. n : all[i] \in Int
  <2>1. Nat \subseteq Good
    <3> HIDE DEF Good
    <3> QED
      BY <1>11, <1>12, CountingUp
  <2> SUFFICES ASSUME NEW i \in 1 .. n PROVE all[i] \in Int
    OBVIOUS
  <2>2. i \in Nat /\ i <= n
    BY <1>1
  <2>3. i \in Good
    <3> HIDE DEF Good
    <3> QED
      BY <2>1, <2>2
  <2> QED
    BY <2>2, <2>3
<1> QED
  BY <1>2, <1>10, <1>13 DEF Adding, n

\* The square of a sum of m + 1 numbers is at most m + 1 times the sum of their squares, if that
\* holds of m of them.
LEMMA OneMoreSquare ==
    ASSUME NEW m \in Nat, NEW s \in Int, NEW q \in Int, NEW x \in Int, q >= 0, s * s <= m * q
    PROVE  (s + x) * (s + x) <= (m + 1) * (q + x * x)
<1>1. CASE m = 0
  <2>1. s = 0
    BY <1>1
  <2> QED
    BY <1>1, <2>1
<1>2. CASE m > 0
  <2>1. PICK a \in Int, b \in Int, c \in Int, r \in Int : a = s * s /\ b = s * x /\ c = x * x /\ r = q + m * c - 2 * b
    OBVIOUS
  <2>2. (s - m * x) * (s - m * x) = a - 2 * (m * b) + m * (m * c)
    BY <2>1
  <2>3. (s - m * x) * (s - m * x) >= 0
    OBVIOUS
  <2>4. m * r = m * q + m * (m * c) - 2 * (m * b)
    BY <2>1
  <2>5. m * r >= 0
    BY <2>1, <2>2, <2>3, <2>4
  <2>6. r >= 0
    BY <1>2, <2>5
  <2>7. (s + x) * (s + x) = a + 2 * b + c
    BY <2>1
  <2>8. (m + 1) * (q + x * x) = m * q + q + m * c + c
    BY <2>1
  <2> QED
    BY <2>1, <2>6, <2>7, <2>8
<1> QED
  BY <1>1, <1>2

\* A number among at most ten is no further from their mean than three deviations: s is the sum of
\* the m others and q that of their squares.
LEMMA FewAreNear ==
    ASSUME NEW m \in 0 .. 9, NEW s \in Int, NEW q \in Int, NEW d \in Int, q >= 0, s * s <= m * q
    PROVE  ((m + 1) * d - (s + d)) * ((m + 1) * d - (s + d))
                <= 9 * ((m + 1) * (q + d * d) - (s + d) * (s + d))
<1> DEFINE off == (m + 1) * d - (s + d)
           spread == (m + 1) * (q + d * d) - (s + d) * (s + d)
<1>1. spread \in Int /\ spread >= 0
  BY OneMoreSquare
<1>2. PICK a \in Int, b \in Int, c \in Int : a = s * s /\ b = s * d /\ c = d * d
  OBVIOUS
<1>3. off * off = m * (m * c) - 2 * (m * b) + a
  BY <1>2
<1>4. spread = m * q + q + m * c - a - 2 * b
  BY <1>2
<1> HIDE DEF off, spread
<1>5. a <= m * q
  BY <1>2
<1>6. off * off <= 9 * spread
  <2>1. m \in {0, 1, 2, 3, 4, 5, 6, 7, 8, 9}
    OBVIOUS
  <2>2. m * spread - off * off = (m + 1) * (m * q - a)
    BY <1>3, <1>4
  <2>3. m * q - a >= 0
    BY <1>5
  <2>4. PICK v \in Int, w \in Int, x \in Int, y \in Int :
            v = off * off /\ w = m * spread /\ x = spread /\ y = m * q - a
    <3>1. off \in Int
      BY DEF off
    <3> QED
      BY <1>1, <1>2, <3>1
  <2>5. w - v = (m + 1) * y /\ y >= 0 /\ x >= 0
    BY <1>1, <2>2, <2>3, <2>4
  <2>6. w - v >= 0
    <3>1. (m + 1) * y >= 0
      BY <2>1, <2>5
    <3> QED
      BY <2>5, <3>1
  <2>7. w <= 9 * x
    BY <1>1, <2>1, <2>4, <2>5
  <2>8. v <= 9 * x
    BY <2>6, <2>7
  <2> QED
    BY <2>4, <2>8
<1> QED
  BY <1>6 DEF off, spread

\* None of at most ten differences is beyond three deviations.  The proof takes the k-th out of the
\* sums: s and q are those of the others up to j.
LEMMA NoneBeyond ==
    ASSUME NEW ds \in Seq(Int), Len(ds) <= 10
    PROVE  ~ F!Beyond(ds, 3)
<1> DEFINE n == Len(ds)
           squared == [i \in DOMAIN ds |-> ds[i] * ds[i]]
<1>1. n \in Nat /\ n <= 10 /\ DOMAIN ds = 1 .. n /\ \A i \in 1 .. n : ds[i] \in Int
  OBVIOUS
<1>2. squared \in Seq(Int) /\ Len(squared) = n /\ \A i \in 1 .. n : squared[i] = ds[i] * ds[i]
  <2>1. \A i \in 1 .. n : ds[i] * ds[i] \in Int
    BY <1>1
  <2>2. squared = [i \in 1 .. n |-> ds[i] * ds[i]]
    BY <1>1
  <2> HIDE DEF squared, n
  <2>3. squared \in [1 .. n -> Int] /\ \A i \in 1 .. n : squared[i] = ds[i] * ds[i]
    BY <2>1, <2>2
  <2> QED
    BY <1>1, <2>3
<1>3. PICK a : Adding(a, ds) /\ F!Total(ds) = a[n]
  BY TotalIs
<1>4. PICK b : Adding(b, squared) /\ F!Total(squared) = b[n]
  BY <1>2, TotalIs
<1>5. F!Beyond(ds, 3) = \E k \in 1 .. n : (n * ds[k] - a[n]) * (n * ds[k] - a[n]) > 3 * 3 * (n * b[n] - a[n] * a[n])
  BY <1>1, <1>3, <1>4 DEF F!Beyond
<1>6. /\ a[0] = 0 /\ b[0] = 0
      /\ \A i \in 1 .. n : /\ a[i] = a[i - 1] + ds[i] /\ b[i] = b[i - 1] + ds[i] * ds[i]
                           /\ a[i] \in Int /\ b[i] \in Int
  BY <1>2, <1>3, <1>4 DEF Adding
<1> HIDE DEF n, squared
<1>7. SUFFICES ASSUME NEW k \in 1 .. n
               PROVE  (n * ds[k] - a[n]) * (n * ds[k] - a[n]) <= 9 * (n * b[n] - a[n] * a[n])
  <2> SUFFICES ASSUME NEW i \in 1 .. n,
                      (n * ds[i] - a[n]) * (n * ds[i] - a[n]) > 3 * 3 * (n * b[n] - a[n] * a[n])
               PROVE  FALSE
    BY <1>5
  <2>1. n \in 1 .. n /\ a[n] \in Int /\ b[n] \in Int /\ ds[i] \in Int
    BY <1>1, <1>6
  <2>2. PICK v \in Int, w \in Int : v = (n * ds[i] - a[n]) * (n * ds[i] - a[n]) /\ w = n * b[n] - a[n] * a[n]
    BY <1>1, <2>1
  <2>3. v > 3 * 3 * w
    BY <2>2
  <2>4. v <= 9 * w
    BY <1>7, <2>2
  <2> QED
    BY <2>3, <2>4
<1>8. PICK d \in Int : d = ds[k]
  BY <1>1
<1> DEFINE one(j) == IF j < k THEN 0 ELSE 1
           s(j) == a[j] - one(j) * d
           q(j) == b[j] - one(j) * (d * d)
           Close(j) == q(j) >= 0 /\ s(j) * s(j) <= (j - one(j)) * q(j)
           Good == {j \in Nat : j <= n => Close(j)}
<1>9. k \in Nat /\ k >= 1 /\ k <= n
  BY <1>1
<1>10. 0 \in Good
  <2>1. one(0) = 0
    BY <1>9
  <2> HIDE DEF one
  <2>2. s(0) = 0 /\ q(0) = 0
    BY <1>6, <1>8, <2>1
  <2> HIDE DEF s, q
  <2> QED
    BY <2>1, <2>2
<1>11. ASSUME NEW j \in Nat, j \in Good PROVE j + 1 \in Good
  <2>1. SUFFICES ASSUME j + 1 <= n PROVE Close(j + 1)
    <3> HIDE DEF Close
    <3> QED
      OBVIOUS
  <2>2. j + 1 \in 1 .. n /\ (j + 1) - 1 = j /\ j <= n
    BY <1>1, <2>1
  <2>3. Close(j)
    <3> HIDE DEF Close
    <3> QED
      BY <1>11, <2>2
  <2>4. a[j] \in Int /\ b[j] \in Int
    <3>1. j = 0 \/ j \in 1 .. n
      BY <2>2
    <3> QED
      BY <1>6, <3>1
  <2>5. PICK x \in Int : x = ds[j + 1]
    BY <1>1, <2>2
  <2>6. a[j + 1] = a[j] + x /\ b[j + 1] = b[j] + x * x
    BY <1>6, <2>2, <2>5
  <2>7. CASE j + 1 = k
    <3>1. x = d /\ one(j) = 0 /\ one(j + 1) = 1
      BY <1>8, <1>9, <2>5, <2>7
    <3> HIDE DEF one
    <3>2. s(j) = a[j] /\ q(j) = b[j] /\ s(j + 1) = a[j] /\ q(j + 1) = b[j] /\ (j + 1) - one(j + 1) = j - one(j)
      BY <2>4, <2>6, <3>1
    <3> HIDE DEF s, q
    <3> QED
      BY <2>3, <3>2
  <2>8. CASE j + 1 # k
    <3>1. one(j + 1) = one(j) /\ one(j) \in {0, 1} /\ j - one(j) \in Nat /\ (j + 1) - one(j + 1) = (j - one(j)) + 1
      BY <1>9, <2>8
    <3> HIDE DEF one
    <3>2. PICK u \in Int, v \in Int : u = one(j) * d /\ v = one(j) * (d * d)
      BY <3>1
    <3>3. /\ s(j) \in Int /\ q(j) \in Int /\ s(j + 1) = s(j) + x /\ q(j + 1) = q(j) + x * x
      <4>1. s(j) = a[j] - u /\ q(j) = b[j] - v /\ s(j + 1) = a[j + 1] - u /\ q(j + 1) = b[j + 1] - v
        BY <3>1, <3>2
      <4>2. PICK y \in Int : y = x * x
        OBVIOUS
      <4> HIDE DEF s, q
      <4> QED
        BY <2>4, <2>6, <3>2, <4>1, <4>2
    <3> HIDE DEF s, q
    <3>4. s(j + 1) * s(j + 1) <= ((j - one(j)) + 1) * q(j + 1)
      BY <2>3, <3>1, <3>3, OneMoreSquare
    <3>5. q(j + 1) >= 0
      <4>1. x * x >= 0 /\ x * x \in Int
        OBVIOUS
      <4> QED
        BY <2>3, <3>3, <4>1
    <3> QED
      BY <3>1, <3>4, <3>5
  <2> QED
    BY <2>7, <2>8
<1>12. Close(n)
  <2>1. Nat \subseteq Good
    <3> HIDE DEF Good
    <3> QED
      BY <1>10, <1>11, CountingUp
  <2> HIDE DEF Close
  <2> QED
    BY <1>1, <2>1
<1>13. n \in 1 .. n /\ n - 1 \in 0 .. 9 /\ one(n) = 1 /\ (n - 1) + 1 = n
  BY <1>1, <1>9
<1>14. a[n] \in Int /\ b[n] \in Int
  BY <1>6, <1>13
<1>15. PICK u \in Int, w \in Int : u = a[n] - d /\ w = b[n] - d * d
  BY <1>14
<1>16. w >= 0 /\ u * u <= (n - 1) * w
  BY <1>12, <1>13, <1>14, <1>15
<1>17. (((n - 1) + 1) * d - (u + d)) * (((n - 1) + 1) * d - (u + d))
            <= 9 * (((n - 1) + 1) * (w + d * d) - (u + d) * (u + d))
  <2> HIDE DEF one, s, q, Close, Good
  <2> QED
    BY <1>13, <1>16, FewAreNear
<1>18. u + d = a[n] /\ w + d * d = b[n]
  BY <1>14, <1>15
<1> QED
  BY <1>8, <1>13, <1>17, <1>18

\* Every note is what its outcome teaches.
Taught ==
    {n \in {F!Lesson(o) : o \in Observation} \cup {F!DirectLesson(o) : o \in Observation} :
        /\ n.outcome \in Observation
        /\ About[n.outcome].strategy # Absent => n = F!Lesson(n.outcome)}
NotesTold == notes \in [Engine -> Seq(Taught)]

\* An outcome of fewer than ten metrics is never put aside as an outlier: each large difference
\* counts, for any differences (outcome_comparator.py detect_outlier).
THEOREM FewNeverOutlying ==
    ASSUME F!FeedbackAssumption
    PROVE  F!Spec => []F!FewAreNoOutliers
<1>1. F!Init => NotesTold
  BY DEF F!Init, NotesTold
<1>2. NotesTold /\ [F!Next]_(F!vars) => NotesTold'
  <2> SUFFICES ASSUME NotesTold, [F!Next]_(F!vars) PROVE NotesTold'
    OBVIOUS
  <2>1. ASSUME notes' = notes PROVE NotesTold'
    BY <2>1 DEF NotesTold
  <2>2. ASSUME NEW e \in Engine, NEW o \in Observation, F!Learn(e, o) PROVE NotesTold'
    <3> DEFINE note == IF About[o].strategy = Absent THEN F!DirectLesson(o) ELSE F!Lesson(o)
    <3>1. notes' = [notes EXCEPT ![e] = Append(@, note)]
      BY <2>2 DEF F!Learn
    <3>2. /\ note \in {F!Lesson(p) : p \in Observation} \cup {F!DirectLesson(p) : p \in Observation}
          /\ note.outcome = o /\ (About[o].strategy # Absent => note = F!Lesson(o))
      BY DEF F!Lesson, F!DirectLesson
    <3> HIDE DEF note
    <3>3. note \in Taught
      BY <3>2 DEF Taught
    <3> QED
      BY <3>1, <3>3 DEF NotesTold
  <2>3. ASSUME NEW e \in Engine, F!Restart(e) PROVE NotesTold'
    BY <2>3 DEF F!Restart, NotesTold
  <2> QED
    BY <2>1, <2>2, <2>3 DEF F!Next, F!vars, F!contextVars, F!RegisterOutcome, F!RegisterStrategy,
                            F!RegisterContext, F!Update
<1>3. NotesTold => F!FewAreNoOutliers
  <2> SUFFICES ASSUME NotesTold, NEW e \in Engine, NEW i \in DOMAIN notes[e],
                      Len(About[notes[e][i].outcome].deltas) < 10, About[notes[e][i].outcome].strategy # Absent
               PROVE  notes[e][i].learned = {j \in DOMAIN About[notes[e][i].outcome].deltas :
                                                F!Absolute(About[notes[e][i].outcome].deltas[j]) > 30}
    BY DEF F!FewAreNoOutliers, F!ToSet
  <2>1. PICK o \in Observation : o = notes[e][i].outcome /\ notes[e][i] = F!Lesson(o)
    <3>1. notes[e][i] \in Taught
      BY DEF NotesTold
    <3> QED
      BY <3>1 DEF Taught
  <2>2. About[o].deltas \in Seq(Int) /\ Len(About[o].deltas) <= 10
    BY <2>1 DEF F!FeedbackAssumption
  <2>3. ~ F!IsOutlier(About[o].deltas)
    BY <2>2, NoneBeyond DEF F!IsOutlier
  <2> QED
    BY <2>1, <2>3 DEF F!Lesson
<1> QED
  BY <1>1, <1>2, <1>3, PTL DEF F!Spec

-----------------------------------------------------------------------------
(* All stores: the one that is chosen stays so, and runs as it would alone *)

LEMMA ChoiceStays == ASSUME NEW x PROVE /\ which = x /\ [StoresNext \/ OthersNext]_storeVars => (which = x)'
                                        /\ ~ (which = x) /\ [StoresNext \/ OthersNext]_storeVars => (~ (which = x))'
BY DEF StoresNext, OthersNext, storeVars

LEMMA OntologyRuns == StoresSpec /\ which = "ontology" => O!Spec
<1>1. StoresInit /\ which = "ontology" => O!Init
  BY DEF StoresInit
<1>2. which = "ontology" /\ [StoresNext \/ OthersNext]_storeVars => [O!Next]_(O!vars)
  BY DEF StoresNext, OthersNext, Stored, storeVars, ontology, O!vars
<1>3. which = "ontology" /\ [StoresNext \/ OthersNext]_storeVars => (which = "ontology")'
  BY ChoiceStays
<1>4. QED
  BY <1>1, <1>2, <1>3, PTL DEF StoresSpec, O!Spec

LEMMA NoOntology == StoresSpec /\ ~ (which = "ontology") => [](~ (which = "ontology"))
<1>1. ~ (which = "ontology") /\ [StoresNext \/ OthersNext]_storeVars => (~ (which = "ontology"))'
  BY ChoiceStays
<1>2. QED
  BY <1>1, PTL DEF StoresSpec

LEMMA StorageRuns == StoresSpec /\ which = "storage" => A!Spec
<1>1. StoresInit /\ which = "storage" => A!Init
  BY DEF StoresInit
<1>2. which = "storage" /\ [StoresNext \/ OthersNext]_storeVars => [A!Next]_(A!vars)
  BY DEF StoresNext, OthersNext, Stored, storeVars, artifacts, A!vars
<1>3. which = "storage" /\ [StoresNext \/ OthersNext]_storeVars => (which = "storage")'
  BY ChoiceStays
<1>4. QED
  BY <1>1, <1>2, <1>3, PTL DEF StoresSpec, A!Spec

LEMMA NoStorage == StoresSpec /\ ~ (which = "storage") => [](~ (which = "storage"))
<1>1. ~ (which = "storage") /\ [StoresNext \/ OthersNext]_storeVars => (~ (which = "storage"))'
  BY ChoiceStays
<1>2. QED
  BY <1>1, PTL DEF StoresSpec

LEMMA KeysRuns == StoresSpec /\ which = "keys" => L!Spec
<1>1. StoresInit /\ which = "keys" => L!Init
  BY DEF StoresInit
<1>2. which = "keys" /\ [StoresNext \/ OthersNext]_storeVars => [L!Next]_(L!vars)
  BY DEF StoresNext, OthersNext, Stored, storeVars, legacy, L!vars
<1>3. which = "keys" /\ [StoresNext \/ OthersNext]_storeVars => (which = "keys")'
  BY ChoiceStays
<1>4. QED
  BY <1>1, <1>2, <1>3, PTL DEF StoresSpec, L!Spec

LEMMA NoKeys == StoresSpec /\ ~ (which = "keys") => [](~ (which = "keys"))
<1>1. ~ (which = "keys") /\ [StoresNext \/ OthersNext]_storeVars => (~ (which = "keys"))'
  BY ChoiceStays
<1>2. QED
  BY <1>1, PTL DEF StoresSpec

LEMMA PriorsRuns == StoresSpec /\ which = "belief" => B!Spec
<1>1. StoresInit /\ which = "belief" => B!Init
  BY DEF StoresInit
<1>2. which = "belief" /\ [StoresNext \/ OthersNext]_storeVars => [B!Next]_(B!vars)
  BY DEF StoresNext, OthersNext, Stored, storeVars, beliefs, B!vars
<1>3. which = "belief" /\ [StoresNext \/ OthersNext]_storeVars => (which = "belief")'
  BY ChoiceStays
<1>4. QED
  BY <1>1, <1>2, <1>3, PTL DEF StoresSpec, B!Spec

LEMMA NoPriors == StoresSpec /\ ~ (which = "belief") => [](~ (which = "belief"))
<1>1. ~ (which = "belief") /\ [StoresNext \/ OthersNext]_storeVars => (~ (which = "belief"))'
  BY ChoiceStays
<1>2. QED
  BY <1>1, PTL DEF StoresSpec

LEMMA PackingRuns == StoresSpec /\ which = "packing" => P!Spec
<1>1. StoresInit /\ which = "packing" => P!Init
  BY DEF StoresInit
<1>2. which = "packing" /\ [StoresNext \/ OthersNext]_storeVars => [P!Next]_(P!vars)
  BY DEF StoresNext, OthersNext, Stored, storeVars, packStore, P!vars
<1>3. which = "packing" /\ [StoresNext \/ OthersNext]_storeVars => (which = "packing")'
  BY ChoiceStays
<1>4. QED
  BY <1>1, <1>2, <1>3, PTL DEF StoresSpec, P!Spec

LEMMA NoPacking == StoresSpec /\ ~ (which = "packing") => [](~ (which = "packing"))
<1>1. ~ (which = "packing") /\ [StoresNext \/ OthersNext]_storeVars => (~ (which = "packing"))'
  BY ChoiceStays
<1>2. QED
  BY <1>1, PTL DEF StoresSpec

LEMMA VersionsRuns == StoresSpec /\ which = "versions" => F!Spec
<1>1. StoresInit /\ which = "versions" => F!Init
  BY DEF StoresInit
<1>2. which = "versions" /\ [StoresNext \/ OthersNext]_storeVars => [F!Next]_(F!vars)
  BY DEF StoresNext, OthersNext, Stored, storeVars, feedback, F!vars
<1>3. which = "versions" /\ [StoresNext \/ OthersNext]_storeVars => (which = "versions")'
  BY ChoiceStays
<1>4. QED
  BY <1>1, <1>2, <1>3, PTL DEF StoresSpec, F!Spec

LEMMA NoVersions == StoresSpec /\ ~ (which = "versions") => [](~ (which = "versions"))
<1>1. ~ (which = "versions") /\ [StoresNext \/ OthersNext]_storeVars => (~ (which = "versions"))'
  BY ChoiceStays
<1>2. QED
  BY <1>1, PTL DEF StoresSpec

\* What was stored keeps its meaning under its new names and can be found, wherever a put, a reset
\* or a migration was cut short, and the versions of packs and contexts hold all that was put into
\* them; whichever store it is (stores/artifact_store.py, outcome_store.py, storage_migration.py,
\* cmis_v2/engines/migration.py, pack_store.py, context_learner.py).
THEOREM StorageStaysBacked == StoresSpec => []StorageIsBacked
<1>1. StoresSpec => [](which = "ontology" => O!MigratedMeansTheSame)
  <2>1. O!Spec => []O!MigratedMeansTheSame
    BY OntologyAssumption, MigrationKeepsMeaning
  <2>2. QED
    BY <2>1, OntologyRuns, NoOntology, PTL
<1>2. StoresSpec => [](which = "storage" => A!ArtifactsAreBacked /\ A!BackupsKeepAll)
  <2>1. A!Spec => []A!ArtifactsAreBacked
    BY StorageAssumption, ArtifactsBacked
  <2>2. A!Spec => []A!BackupsKeepAll
    BY StorageAssumption, BackupsKeep
  <2>3. QED
    BY <2>1, <2>2, StorageRuns, NoStorage, PTL
<1>3. StoresSpec => [](which = "keys" => L!MigrationLosesNothing /\ L!OpenStoreIsReadable)
  <2>1. L!Spec => []L!MigrationLosesNothing
    BY KeysAssumption, MigrationKeeps
  <2>2. L!Spec => []L!OpenStoreIsReadable
    BY KeysAssumption, OpenStoresRead
  <2>3. QED
    BY <2>1, <2>2, KeysRuns, NoKeys, PTL
<1>4. StoresSpec => [](which = "packing" => P!VersionsAreDense)
  <2>1. P!Spec => []P!VersionsAreDense
    BY PackingAssumption, PacksAreDense
  <2>2. QED
    BY <2>1, PackingRuns, NoPacking, PTL
<1>5. StoresSpec => [](which = "versions" => F!NothingLearnedIsLost)
  <2>1. F!Spec => []F!NothingLearnedIsLost
    BY VersionsAssumption, NothingLearnedLost
  <2>2. QED
    BY <2>1, VersionsRuns, NoVersions, PTL
<1>6. QED
  BY <1>1, <1>2, <1>3, <1>4, <1>5, PTL DEF StorageIsBacked

\* A prior that is returned is the newest a process can know of, and a posterior counts the
\* observations it was made of (prior_manager.py, belief_engine.py, belief_updater.py).
THEOREM PriorsStayBacked == StoresSpec => []PriorsAreBacked
<1>1. StoresSpec => [](which = "belief" => B!PriorIsCurrent /\ B!CountsAreBacked)
  <2>1. B!Spec => []B!PriorIsCurrent
    BY PriorsAssumption, PriorsAreCurrent
  <2>2. B!Spec => []B!CountsAreBacked
    BY PriorsAssumption, CountsStayBacked
  <2>3. QED
    BY <2>1, <2>2, PriorsRuns, NoPriors, PTL
<1>2. QED
  BY <1>1, PTL DEF PriorsAreBacked

\* Every store stays within its types, whichever was chosen.
THEOREM StoresStayTyped == StoresSpec => []StoresTypeOK
<1>1. StoresSpec => [](which = "ontology" => O!TypeOK)
  <2>1. O!Spec => []O!TypeOK
    BY OntologyAssumption, MigrationTyped
  <2>2. QED
    BY <2>1, OntologyRuns, NoOntology, PTL
<1>2. StoresSpec => [](which = "storage" => A!TypeOK)
  <2>1. A!Spec => []A!TypeOK
    BY StorageAssumption, ArtifactsTypeCorrect
  <2>2. QED
    BY <2>1, StorageRuns, NoStorage, PTL
<1>3. StoresSpec => [](which = "keys" => L!TypeOK)
  <2>1. L!Spec => []L!TypeOK
    BY KeysAssumption, LegacyTyped
  <2>2. QED
    BY <2>1, KeysRuns, NoKeys, PTL
<1>4. StoresSpec => [](which = "belief" => B!TypeOK)
  <2>1. B!Spec => []B!TypeOK
    BY PriorsAssumption, BeliefsTyped
  <2>2. QED
    BY <2>1, PriorsRuns, NoPriors, PTL
<1>5. StoresSpec => [](which = "packing" => P!TypeOK)
  <2>1. P!Spec => []P!TypeOK
    BY PackingAssumption, PacksTyped
  <2>2. QED
    BY <2>1, PackingRuns, NoPacking, PTL
<1>6. StoresSpec => [](which = "versions" => F!TypeOK)
  <2>1. F!Spec => []F!TypeOK
    BY VersionsAssumption, FeedbackTyped
  <2>2. QED
    BY <2>1, VersionsRuns, NoVersions, PTL
<1>7. QED
  BY <1>1, <1>2, <1>3, <1>4, <1>5, <1>6, PTL DEF StoresTypeOK
=============================================================================
