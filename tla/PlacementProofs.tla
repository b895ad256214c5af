-------------------------- MODULE PlacementProofs --------------------------
(***************************************************************************)
(* What the greedy HRW placement guarantees for every weight table, every  *)
(* code and every membership: it exists, it is unique, its nodes are       *)
(* distinct, and a node that joins or leaves exchanges at most one of      *)
(* them.  The inductions over shard indices are proofs by least            *)
(* counterexample.                                                         *)
(***************************************************************************)
EXTENDS Placement, FiniteSetTheorems, WellFoundedInduction, TLAPS

\* Every nonempty set of naturals has a least element.
LEMMA LeastNat ==
    ASSUME NEW S \in SUBSET Nat, S # {}
    PROVE  \E x \in S : \A y \in S : x <= y
<1> DEFINE R == {ss \in Nat \X Nat : ss[1] < ss[2]}
<1>1. IsWellFoundedOn(R, Nat)
  BY NatLessThanWellFounded DEF OpToRel
<1>2. \A x, y \in Nat : <<y, x>> \in R <=> y < x
  OBVIOUS
<1> HIDE DEF R
<1>3. PICK x \in S : \A y \in S : ~ (<<y, x>> \in R)
  BY <1>1, WFMin
<1>4. \A y \in S : ~ (y < x)
  BY <1>2, <1>3
<1> QED BY <1>4

\* The shard indices below i.
LEMMA IdxFacts ==
    /\ Total \in Nat /\ Total > 0
    /\ \A i \in Idx : i \in Nat /\ i < Total /\ 0 .. (i - 1) \subseteq Idx
    /\ \A i \in Nat : i < Total => i \in Idx
BY PlacementAssumption DEF Total, Idx

-----------------------------------------------------------------------------
\* Outranks orders the nodes totally.
LEMMA OutranksTotal ==
    ASSUME NEW w \in Weights, NEW i \in Idx, NEW a \in Nodes, NEW b \in Nodes
    PROVE  /\ Outranks(w, i, a, b) \/ Outranks(w, i, b, a)
           /\ Outranks(w, i, a, b) /\ Outranks(w, i, b, a) => a = b
<1>1. w[i][a] \in Nat /\ w[i][b] \in Nat /\ a \in Nat /\ b \in Nat
  BY PlacementAssumption DEF Weights
<1> QED BY <1>1 DEF Outranks

LEMMA OutranksTransitive ==
    ASSUME NEW w \in Weights, NEW i \in Idx, NEW a \in Nodes, NEW b \in Nodes, NEW c \in Nodes,
           Outranks(w, i, a, b), Outranks(w, i, b, c)
    PROVE  Outranks(w, i, a, c)
<1>1. w[i][a] \in Nat /\ w[i][b] \in Nat /\ w[i][c] \in Nat /\ a \in Nat /\ b \in Nat /\ c \in Nat
  BY PlacementAssumption DEF Weights
<1> QED BY <1>1 DEF Outranks

\* The scan of the inner loop finds a node: a set of nodes has a best one.
LEMMA BestExists ==
    ASSUME NEW w \in Weights, NEW i \in Idx, NEW S \in SUBSET Nodes, S # {}
    PROVE  \E n \in S : \A o \in S : Outranks(w, i, n, o)
<1> DEFINE above(n) == {o \in S : o # n /\ Outranks(w, i, o, n)}
           count(n) == Cardinality(above(n))
           counts == {count(n) : n \in S}
<1>1. \A n \in S : IsFiniteSet(above(n)) /\ count(n) \in Nat
  BY PlacementAssumption, FS_Subset, FS_CardinalityType
<1>2. counts \in SUBSET Nat /\ counts # {}
  BY <1>1
<1>3. PICK least \in counts : \A c \in counts : least <= c
  BY <1>2, LeastNat
<1>4. PICK n \in S : least = count(n)
  OBVIOUS
<1>5. \A o \in S : count(n) <= count(o)
  BY <1>3, <1>4
<1>6. SUFFICES ASSUME NEW b \in S, ~ Outranks(w, i, n, b) PROVE FALSE
  OBVIOUS
<1>7. Outranks(w, i, b, n) /\ b # n
  <2>1. Outranks(w, i, n, b) \/ Outranks(w, i, b, n)
    BY OutranksTotal
  <2>2. Outranks(w, i, n, n)
    BY OutranksTotal
  <2> QED BY <1>6, <2>1, <2>2
<1>8. above(b) \subseteq above(n) /\ b \in above(n) /\ b \notin above(b)
  <2>1. \A o \in above(b) : Outranks(w, i, o, n)
    BY <1>7, OutranksTransitive
  <2>2. \A o \in above(b) : o # n
    BY <1>6
  <2> QED BY <1>7, <2>1, <2>2
<1> HIDE DEF above
<1>9. Cardinality(above(b)) < Cardinality(above(n))
  <2>1. above(b) \in SUBSET above(n) /\ above(b) # above(n)
    BY <1>8
  <2>2. /\ Cardinality(above(b)) <= Cardinality(above(n))
        /\ Cardinality(above(n)) = Cardinality(above(b)) => above(n) = above(b)
    BY <1>1, <2>1, FS_Subset
  <2> QED BY <1>1, <2>1, <2>2
<1> QED BY <1>1, <1>5, <1>9

-----------------------------------------------------------------------------
\* The eligible nodes that the shards below i have left.
Free(f, eligible, i) == eligible \ {f[j] : j \in 0 .. (i - 1)}

LEMMA FreeStep ==
    ASSUME NEW f, NEW E, NEW i \in Nat
    PROVE  /\ Free(f, E, 0) = E
           /\ Free(f, E, i + 1) = Free(f, E, i) \ {f[i]}
<1>1. 0 .. (0 - 1) = {} /\ 0 .. (i + 1 - 1) = (0 .. (i - 1)) \cup {i}
  OBVIOUS
<1> QED BY <1>1 DEF Free

\* Each shard is on the best node the ones below it have left.
LEMMA HrwAt ==
    ASSUME NEW w, NEW f, NEW E, IsHrwPlacement(w, f, E), NEW i \in Idx
    PROVE  f[i] \in Free(f, E, i) /\ \A n \in Free(f, E, i) : Outranks(w, i, f[i], n)
BY DEF IsHrwPlacement, Free

\* The greedy exclusion puts the shards of an object on distinct nodes.
LEMMA HrwDistinct ==
    ASSUME NEW w, NEW f, NEW E, IsHrwPlacement(w, f, E), NEW i \in Idx, NEW j \in Idx, i # j
    PROVE  f[i] # f[j]
<1>1. \A a, b \in Idx : a < b => f[b] # f[a]
  <2> SUFFICES ASSUME NEW a \in Idx, NEW b \in Idx, a < b PROVE f[b] # f[a]
    OBVIOUS
  <2>1. a \in 0 .. (b - 1)
    BY IdxFacts
  <2> QED BY <2>1, HrwAt DEF Free
<1> QED BY <1>1, IdxFacts

\* Fewer shards than nodes leave a node free.
LEMMA SomeNodeFree ==
    ASSUME NEW E \in SUBSET Nodes, Cardinality(E) >= Total, NEW i \in Idx,
           NEW f \in [0 .. (i - 1) -> E]
    PROVE  Free(f, E, i) # {}
<1> SUFFICES ASSUME Free(f, E, i) = {} PROVE FALSE
  OBVIOUS
<1>1. IsFiniteSet(E) /\ Cardinality(E) \in Nat
  BY PlacementAssumption, FS_Subset, FS_CardinalityType
<1>2. i \in Nat /\ i < Total /\ Total \in Nat
  BY IdxFacts
<1>3. IsFiniteSet(0 .. (i - 1)) /\ Cardinality(0 .. (i - 1)) = i
  <2>1. 0 \in Int /\ i - 1 \in Int
    BY <1>2
  <2> QED BY <1>2, <2>1, FS_Interval
<1>4. f \in Surjection(0 .. (i - 1), E)
  BY DEF Free, Surjection
<1>5. Cardinality(E) <= i
  BY <1>3, <1>4, FS_Surjection
<1> QED BY <1>1, <1>2, <1>5

\* f is a placement of the shards below i.
Partial(w, f, eligible, i) ==
    /\ f \in [0 .. (i - 1) -> eligible]
    /\ \A j \in 0 .. (i - 1) :
          /\ f[j] \in Free(f, eligible, j)
          /\ \A n \in Free(f, eligible, j) : Outranks(w, j, f[j], n)

LEMMA PartialExtends ==
    ASSUME NEW w \in Weights, NEW E \in SUBSET Nodes, Cardinality(E) >= Total,
           NEW i \in Idx, NEW f, Partial(w, f, E, i)
    PROVE  \E g : Partial(w, g, E, i + 1)
<1>0. i \in Nat
  BY IdxFacts
<1>1. Free(f, E, i) # {} /\ Free(f, E, i) \in SUBSET Nodes
  BY SomeNodeFree DEF Partial, Free
<1>2. PICK n \in Free(f, E, i) : \A o \in Free(f, E, i) : Outranks(w, i, n, o)
  BY <1>1, BestExists
<1> DEFINE g == [j \in 0 .. i |-> IF j = i THEN n ELSE f[j]]
<1>3. 0 .. (i + 1 - 1) = 0 .. i /\ i \in 0 .. i
  BY <1>0
<1>4. \A j \in 0 .. (i - 1) : g[j] = f[j] /\ j \in 0 .. i /\ j # i
  BY <1>0
<1>5. g \in [0 .. i -> E]
  BY <1>0 DEF Free, Partial
<1>6. \A j \in 0 .. i : Free(g, E, j) = Free(f, E, j)
  <2> TAKE j \in 0 .. i
  <2>1. \A h \in 0 .. (j - 1) : h \in 0 .. (i - 1)
    BY <1>0
  <2>2. {g[h] : h \in 0 .. (j - 1)} = {f[h] : h \in 0 .. (j - 1)}
    BY <1>4, <2>1
  <2> QED BY <2>2 DEF Free
<1>7. g[i] = n
  BY <1>3
<1> HIDE DEF g
<1>8. ASSUME NEW j \in 0 .. i
      PROVE  g[j] \in Free(g, E, j) /\ \A o \in Free(g, E, j) : Outranks(w, j, g[j], o)
  <2>1. CASE j = i
    BY <1>2, <1>6, <1>7, <2>1
  <2>2. CASE j # i
    <3>1. j \in 0 .. (i - 1)
      BY <1>0, <2>2
    <3> QED BY <1>4, <1>6, <3>1 DEF Partial
  <2> QED BY <2>1, <2>2
<1>9. Partial(w, g, E, i + 1)
  BY <1>3, <1>5, <1>8 DEF Partial
<1> QED BY <1>9

\* hrw_intended_nodes() succeeds whenever there are k + m nodes.
THEOREM HrwExists ==
    ASSUME NEW w \in Weights, NEW E \in SUBSET Nodes, Cardinality(E) >= Total
    PROVE  /\ hrw_intended_nodes(w, E) \in [Idx -> E]
           /\ IsHrwPlacement(w, hrw_intended_nodes(w, E), E)
<1> DEFINE stuck == {i \in Nat : i <= Total /\ ~ \E f : Partial(w, f, E, i)}
<1>1. stuck = {}
  <2> SUFFICES ASSUME stuck # {} PROVE FALSE
    OBVIOUS
  <2>1. PICK i \in stuck : \A j \in stuck : i <= j
    BY LeastNat
  <2>2. i # 0
    <3>1. 0 .. (0 - 1) = {}
      OBVIOUS
    <3>2. Partial(w, [j \in {} |-> 0], E, 0)
      BY <3>1 DEF Partial
    <3> QED BY <2>1, <3>2
  <2>3. i - 1 \in Nat /\ i - 1 <= Total /\ i - 1 \notin stuck /\ i - 1 \in Idx /\ i - 1 + 1 = i
    BY <2>1, <2>2, IdxFacts
  <2>4. PICK f : Partial(w, f, E, i - 1)
    BY <2>3
  <2>5. \E g : Partial(w, g, E, i - 1 + 1)
    BY <2>3, <2>4, PartialExtends
  <2> QED BY <2>1, <2>3, <2>5
<1>2. PICK f : Partial(w, f, E, Total)
  BY <1>1, IdxFacts
<1>3. Idx = 0 .. (Total - 1)
  BY DEF Idx
<1>4. f \in [Idx -> E] /\ IsHrwPlacement(w, f, E)
  BY <1>2, <1>3 DEF Partial, IsHrwPlacement, Free
<1> QED BY <1>4 DEF hrw_intended_nodes

\* It is a function of the object and the membership: two placements agree.
THEOREM HrwUnique ==
    ASSUME NEW w \in Weights, NEW E \in SUBSET Nodes,
           NEW f \in [Idx -> E], IsHrwPlacement(w, f, E),
           NEW g \in [Idx -> E], IsHrwPlacement(w, g, E)
    PROVE  f = g
<1> DEFINE differ == {i \in Idx : f[i] # g[i]}
<1> SUFFICES ASSUME differ # {} PROVE FALSE
  OBVIOUS
<1>1. differ \in SUBSET Nat
  BY IdxFacts
<1>2. PICK i \in differ : \A j \in differ : i <= j
  BY <1>1, LeastNat
<1>3. \A j \in 0 .. (i - 1) : f[j] = g[j]
  BY <1>2, IdxFacts
<1>4. Free(f, E, i) = Free(g, E, i)
  BY <1>3 DEF Free
<1>5. i \in Idx /\ f[i] \in Nodes /\ g[i] \in Nodes
  BY <1>2
<1>6. Outranks(w, i, f[i], g[i]) /\ Outranks(w, i, g[i], f[i])
  BY <1>4, <1>5, HrwAt
<1> QED BY <1>2, <1>5, <1>6, OutranksTotal

-----------------------------------------------------------------------------
\* Up to shard i the placements with and without node x have left the same
\* nodes but for one: x itself, or the last node that was displaced.
OffByOne(f, E, g, x, i) ==
    \E y : y \notin Free(f, E, i) /\ Free(g, E \cup {x}, i) = Free(f, E, i) \cup {y}

LEMMA OffByOneStep ==
    ASSUME NEW w \in Weights, NEW E \in SUBSET Nodes, NEW x \in Nodes,
           NEW f, IsHrwPlacement(w, f, E),
           NEW g, IsHrwPlacement(w, g, E \cup {x}),
           NEW i \in Idx, OffByOne(f, E, g, x, i)
    PROVE  OffByOne(f, E, g, x, i + 1)
<1> DEFINE F == Free(f, E, i)
           G == Free(g, E \cup {x}, i)
<1>1. PICK y : y \notin F /\ G = F \cup {y}
  BY DEF OffByOne
<1>2. i \in Nat /\ F \subseteq Nodes /\ G \subseteq Nodes
  BY IdxFacts DEF Free
<1>3. f[i] \in F /\ \A n \in F : Outranks(w, i, f[i], n)
  BY HrwAt
<1>4. g[i] \in G /\ \A n \in G : Outranks(w, i, g[i], n)
  BY HrwAt
<1>5. Free(f, E, i + 1) = F \ {f[i]} /\ Free(g, E \cup {x}, i + 1) = G \ {g[i]}
  BY <1>2, FreeStep
<1> HIDE DEF F, G
<1>6. CASE g[i] = y
  <2>1. G \ {g[i]} = (F \ {f[i]}) \cup {f[i]} /\ f[i] \notin F \ {f[i]}
    BY <1>1, <1>3, <1>6
  <2> QED BY <1>5, <2>1 DEF OffByOne
<1>7. CASE g[i] # y
  <2>1. g[i] \in F /\ f[i] \in G
    BY <1>1, <1>3, <1>4, <1>7
  <2>2. g[i] = f[i]
    BY <1>2, <1>3, <1>4, <2>1, OutranksTotal
  <2>3. G \ {g[i]} = (F \ {f[i]}) \cup {y} /\ y \notin F \ {f[i]}
    BY <1>1, <1>7, <2>2
  <2> QED BY <1>5, <2>3 DEF OffByOne
<1> QED BY <1>6, <1>7

\* A node that joins takes the place of at most one node of the object, and
\* puts nobody else in.
LEMMA HrwChurn ==
    ASSUME NEW w \in Weights, NEW E \in SUBSET Nodes, NEW x \in Nodes \ E,
           NEW f \in [Idx -> E], IsHrwPlacement(w, f, E),
           NEW g \in [Idx -> E \cup {x}], IsHrwPlacement(w, g, E \cup {x})
    PROVE  /\ NodesOf(g) \ NodesOf(f) \subseteq {x}
           /\ \E y : NodesOf(f) \ NodesOf(g) \subseteq {y}
<1> DEFINE wrong == {i \in Nat : i <= Total /\ ~ OffByOne(f, E, g, x, i)}
<1>1. wrong = {}
  <2> SUFFICES ASSUME wrong # {} PROVE FALSE
    OBVIOUS
  <2>1. PICK i \in wrong : \A j \in wrong : i <= j
    BY LeastNat
  <2>2. OffByOne(f, E, g, x, 0)
    BY FreeStep DEF OffByOne
  <2>3. i - 1 \in Nat /\ i - 1 <= Total /\ i - 1 \notin wrong /\ i - 1 \in Idx /\ i - 1 + 1 = i
    BY <2>1, <2>2, IdxFacts
  <2>4. OffByOne(f, E, g, x, i - 1)
    BY <2>3
  <2>5. OffByOne(f, E, g, x, i - 1 + 1)
    BY <2>3, <2>4, OffByOneStep
  <2> QED BY <2>1, <2>3, <2>5
<1>2. PICK y : /\ y \notin Free(f, E, Total)
               /\ Free(g, E \cup {x}, Total) = Free(f, E, Total) \cup {y}
  <2>1. Total \in Nat /\ Total <= Total
    BY IdxFacts
  <2>2. OffByOne(f, E, g, x, Total)
    BY <1>1, <2>1
  <2> QED BY <2>2 DEF OffByOne
<1> DEFINE before == NodesOf(f)
           after  == NodesOf(g)
<1>3. Free(f, E, Total) = E \ before /\ Free(g, E \cup {x}, Total) = (E \cup {x}) \ after
  BY DEF Free, Idx, NodesOf
<1>4. before \subseteq E /\ after \subseteq E \cup {x}
  BY DEF NodesOf
<1> HIDE DEF before, after
<1>5. after \ before \subseteq {x} /\ before \ after \subseteq {y}
  BY <1>2, <1>3, <1>4
<1> QED BY <1>5 DEF before, after

\* Shards on distinct nodes: m lost nodes take at most m of them.
LEMMA LossesLeaveK ==
    ASSUME NEW f \in [Idx -> Nodes], \A i, j \in Idx : i # j => f[i] # f[j],
           NEW lost \in SUBSET Nodes, Cardinality(lost) <= M
    PROVE  Cardinality({i \in Idx : f[i] \notin lost}) >= K
<1> DEFINE hit == {i \in Idx : f[i] \in lost}
           left == {i \in Idx : f[i] \notin lost}
           on  == [i \in hit |-> f[i]]
<1>1. IsFiniteSet(lost) /\ Cardinality(lost) \in Nat
  BY PlacementAssumption, FS_Subset, FS_CardinalityType
<1>2. on \in Injection(hit, lost)
  BY DEF Injection, IsInjective
<1>3. IsFiniteSet(hit) /\ Cardinality(hit) \in Nat /\ Cardinality(hit) <= Cardinality(lost)
  <2> HIDE DEF hit, on
  <2> QED BY <1>1, <1>2, FS_Injection, FS_CardinalityType
<1>4. IsFiniteSet(Idx) /\ Cardinality(Idx) = Total
  <2>1. 0 \in Int /\ Total - 1 \in Int /\ ~(0 > Total - 1) /\ (Total - 1) - 0 + 1 = Total
    BY IdxFacts
  <2> QED BY <2>1, FS_Interval DEF Idx
<1>5. left = Idx \ hit /\ Idx \cap hit = hit
  OBVIOUS
<1>6. Cardinality(Idx \ hit) = Total - Cardinality(hit)
  <2> HIDE DEF hit
  <2> QED BY <1>4, <1>5, FS_Difference
<1>7. K \in Nat /\ M \in Nat /\ Total = K + M
  BY PlacementAssumption DEF Total
<1>8. Cardinality(left) >= K
  <2> HIDE DEF hit, left
  <2> QED BY <1>1, <1>3, <1>5, <1>6, <1>7
<1> QED BY <1>8

-----------------------------------------------------------------------------
\* The missing shards that get their target before shard i.
Before(missing, i) == {h \in missing : h < i}

\* The candidates are free healthy nodes, and there is one when a node is free.
LEMMA CandidatesAreFree ==
    ASSUME NEW w, NEW i, NEW taken, NEW healthy, NEW used, NEW E
    PROVE  /\ RepairCandidates(w, i, taken, healthy, used, E) \subseteq healthy \ taken
           /\ healthy \ taken # {} => RepairCandidates(w, i, taken, healthy, used, E) # {}
BY DEF RepairCandidates

\* The targets given so far leave a node of any set as large as the missing
\* shards.
LEMMA TargetsLeaveOne ==
    ASSUME NEW missing \in SUBSET Idx, NEW i \in missing, NEW pool \in SUBSET Nodes,
           Cardinality(missing) <= Cardinality(pool), NEW t
    PROVE  pool \ {t[j] : j \in Before(missing, i)} # {}
<1> DEFINE low == Before(missing, i)
           taken == {t[j] : j \in low}
<1> SUFFICES ASSUME pool \subseteq taken PROVE FALSE
  OBVIOUS
<1>1. IsFiniteSet(missing) /\ Cardinality(missing) \in Nat
  <2>1. 0 \in Int /\ Total - 1 \in Int
    BY IdxFacts
  <2> QED BY <2>1, FS_Interval, FS_Subset, FS_CardinalityType DEF Idx
<1>2. low \in SUBSET missing /\ i \notin low
  BY IdxFacts DEF Before
<1>3. low \in SUBSET (missing \ {i})
  BY <1>2
<1>4. /\ IsFiniteSet(missing \ {i})
      /\ Cardinality(missing \ {i}) = Cardinality(missing) - 1
  BY <1>1, FS_RemoveElement
<1> HIDE DEF low
<1>5. /\ IsFiniteSet(low) /\ Cardinality(low) \in Nat
      /\ Cardinality(low) <= Cardinality(missing) - 1
  BY <1>3, <1>4, FS_Subset, FS_CardinalityType
<1>6. IsFiniteSet(taken) /\ Cardinality(taken) \in Nat /\ Cardinality(taken) <= Cardinality(low)
  <2>1. [j \in low |-> t[j]] \in Surjection(low, taken)
    BY DEF Surjection
  <2> HIDE DEF taken
  <2> QED BY <1>5, <2>1, FS_Surjection, FS_CardinalityType
<1> HIDE DEF taken
<1>7. Cardinality(pool) \in Nat /\ Cardinality(pool) <= Cardinality(taken)
  <2>1. pool \in SUBSET taken
    OBVIOUS
  <2> QED BY <1>6, <2>1, FS_Subset, FS_CardinalityType
<1> QED BY <1>1, <1>5, <1>6, <1>7

\* An assignment for the missing shards below i goes on to i.
LEMMA AssignmentExtends ==
    ASSUME NEW w, NEW missing \in SUBSET Idx, NEW healthy \in SUBSET Nodes,
           Cardinality(missing) <= Cardinality(healthy), NEW used, NEW E, NEW i \in Idx,
           NEW t \in [Before(missing, i) -> healthy],
           IsRepairAssignment(w, t, Before(missing, i), healthy, used, E)
    PROVE  \E u \in [Before(missing, i + 1) -> healthy] :
                IsRepairAssignment(w, u, Before(missing, i + 1), healthy, used, E)
<1> DEFINE low == Before(missing, i)
           next == Before(missing, i + 1)
<1>1. \A h \in missing : h \in Nat /\ i \in Nat
  BY IdxFacts
<1>2. CASE i \notin missing
  <2>1. next = low
    BY <1>1, <1>2 DEF Before
  <2> QED BY <2>1
<1>3. CASE i \in missing
  <2>1. next = low \cup {i} /\ i \notin low
    BY <1>1, <1>3 DEF Before
  <2> DEFINE taken == {t[j] : j \in low}
  <2>2. PICK n \in healthy : n \in RepairCandidates(w, i, taken, healthy, used, E)
    <3>1. healthy \ taken # {}
      BY <1>3, TargetsLeaveOne
    <3> HIDE DEF taken
    <3> QED BY <3>1, CandidatesAreFree
  <2> DEFINE u == [j \in next |-> IF j = i THEN n ELSE t[j]]
  <2>3. u \in [next -> healthy] /\ u[i] = n /\ \A j \in low : u[j] = t[j] /\ j # i
    BY <2>1, <2>2
  <2>4. \A j \in next : {h \in next : h < j} = {h \in low : h < j}
    BY <1>1 DEF Before
  <2>5. \A j \in next : {u[h] : h \in {g \in next : g < j}} = {t[h] : h \in {g \in low : g < j}}
    <3> HIDE DEF u, low, next
    <3> QED BY <2>3, <2>4
  <2>6. {h \in low : h < i} = low
    BY DEF Before
  <2> HIDE DEF u
  <2>7. ASSUME NEW j \in next
        PROVE  u[j] \in RepairCandidates(w, j, {u[h] : h \in {g \in next : g < j}},
                                         healthy, used, E)
    <3>1. CASE j = i
      <4>1. {u[h] : h \in {g \in next : g < j}} = taken
        BY <2>5, <2>6, <3>1
      <4> QED BY <2>2, <2>3, <3>1, <4>1
    <3>2. CASE j # i
      <4>1. j \in low
        BY <2>1, <3>2
      <4>2. t[j] \in RepairCandidates(w, j, {t[h] : h \in {g \in low : g < j}},
                                      healthy, used, E)
        BY <4>1 DEF IsRepairAssignment
      <4> QED BY <2>3, <2>5, <4>1, <4>2
    <3> QED BY <3>1, <3>2
  <2>8. IsRepairAssignment(w, u, next, healthy, used, E)
    BY <2>7 DEF IsRepairAssignment
  <2> QED BY <2>3, <2>8
<1> QED BY <1>2, <1>3

\* The fallback pool is there "so repair never fails when enough healthy nodes
\* exist": with as many healthy nodes as missing shards the assignment exists,
\* whatever the weights, the surviving shards and the membership.
THEOREM RepairFindsTargets ==
    ASSUME NEW w, NEW missing \in SUBSET Idx, NEW healthy \in SUBSET Nodes,
           Cardinality(missing) <= Cardinality(healthy), NEW used, NEW E
    PROVE  \E t \in [missing -> healthy] :
                IsRepairAssignment(w, t, missing, healthy, used, E)
<1> DEFINE assigned(i) == \E t \in [Before(missing, i) -> healthy] :
                    IsRepairAssignment(w, t, Before(missing, i), healthy, used, E)
           stuck == {i \in Nat : i <= Total /\ ~ assigned(i)}
<1>1. stuck = {}
  <2> SUFFICES ASSUME stuck # {} PROVE FALSE
    OBVIOUS
  <2>1. PICK i \in stuck : \A j \in stuck : i <= j
    BY LeastNat
  <2>2. i # 0
    <3>1. Before(missing, 0) = {}
      BY IdxFacts DEF Before
    <3>2. /\ [j \in {} |-> 0] \in [{} -> healthy]
          /\ IsRepairAssignment(w, [j \in {} |-> 0], {}, healthy, used, E)
      BY DEF IsRepairAssignment
    <3> QED BY <2>1, <3>1, <3>2
  <2>3. i - 1 \in Nat /\ i - 1 <= Total /\ i - 1 \notin stuck /\ i - 1 \in Idx /\ i - 1 + 1 = i
    BY <2>1, <2>2, IdxFacts
  <2>4. PICK t \in [Before(missing, i - 1) -> healthy] :
            IsRepairAssignment(w, t, Before(missing, i - 1), healthy, used, E)
    BY <2>3
  <2>5. assigned(i - 1 + 1)
    BY <2>3, <2>4, AssignmentExtends
  <2> QED BY <2>1, <2>3, <2>5
<1>2. Before(missing, Total) = missing
  BY IdxFacts DEF Before
<1>3. assigned(Total)
  BY <1>1, IdxFacts
<1> QED BY <1>2, <1>3

\* No two rebuilt shards share a node.
LEMMA TargetsDistinct ==
    ASSUME NEW w, NEW missing \in SUBSET Idx, NEW t, NEW healthy, NEW used, NEW E,
           IsRepairAssignment(w, t, missing, healthy, used, E),
           NEW i \in missing, NEW j \in missing, i # j
    PROVE  t[i] # t[j]
<1>1. ASSUME NEW a \in missing, NEW b \in missing, a < b
      PROVE  t[b] # t[a]
  <2> DEFINE taken == {t[h] : h \in {g \in missing : g < b}}
  <2>1. t[b] \in RepairCandidates(w, b, taken, healthy, used, E)
    BY DEF IsRepairAssignment
  <2>2. t[a] \in taken
    BY <1>1
  <2> HIDE DEF taken
  <2> QED BY <2>1, <2>2, CandidatesAreFree
<1>2. i \in Nat /\ j \in Nat
  BY IdxFacts
<1> QED BY <1>1, <1>2

\* No HRW node of a missing shard holds a surviving one.
NoneTaken(w, missing, used, E) ==
    Cardinality(E) >= Total => \A i \in missing : hrw_intended_nodes(w, E)[i] \notin used

\* A rebuilt shard then stays away from the surviving ones, as long as there
\* are enough other healthy nodes.
LEMMA TargetsUnused ==
    ASSUME NEW w, NEW missing \in SUBSET Idx, NEW t, NEW healthy \in SUBSET Nodes, NEW used, NEW E,
           IsRepairAssignment(w, t, missing, healthy, used, E),
           Cardinality(missing) <= Cardinality(healthy \ used),
           NoneTaken(w, missing, used, E),
           NEW i \in missing
    PROVE  t[i] \notin used
<1> DEFINE taken == {t[j] : j \in Before(missing, i)}
<1>1. t[i] \in RepairCandidates(w, i, taken, healthy, used, E)
  BY DEF IsRepairAssignment, Before
<1>2. (healthy \ used) \ taken # {}
  <2>1. healthy \ used \in SUBSET Nodes
    OBVIOUS
  <2> QED BY <2>1, TargetsLeaveOne
<1> HIDE DEF taken
<1> QED BY <1>1, <1>2 DEF RepairCandidates, NoneTaken

\* The row after a repair.
Repaired(f, missing, t) == [i \in Idx |-> IF i \in missing THEN t[i] ELSE f[i]]

\* When repair() keeps the fault domains apart: the surviving shards are on
\* distinct nodes, none of them on the HRW node of a missing shard, and there
\* are enough healthy nodes besides.  MCRepairColocate has a run in which the
\* second condition fails.
THEOREM RepairKeepsNodesApart ==
    ASSUME NEW w, NEW f, NEW missing \in SUBSET Idx, NEW t, NEW healthy \in SUBSET Nodes, NEW E,
           IsRepairAssignment(w, t, missing, healthy, {f[i] : i \in Idx \ missing}, E),
           \A i, j \in Idx \ missing : i # j => f[i] # f[j],
           Cardinality(missing) <= Cardinality(healthy \ {f[i] : i \in Idx \ missing}),
           NoneTaken(w, missing, {f[i] : i \in Idx \ missing}, E)
    PROVE  \A i, j \in Idx : i # j => Repaired(f, missing, t)[i] # Repaired(f, missing, t)[j]
<1> DEFINE used == {f[i] : i \in Idx \ missing}
<1>1. \A i \in missing : t[i] \notin used
  BY TargetsUnused
<1>2. \A i, j \in missing : i # j => t[i] # t[j]
  BY TargetsDistinct
<1> QED BY <1>1, <1>2 DEF Repaired

\* In particular a row that is on its HRW nodes, as put() and a complete
\* rebalance leave it, and loses nodes while the membership stays, is after
\* the repair again one that survives the loss of any m nodes.
THEOREM RepairRestoresTolerance ==
    ASSUME NEW w \in Weights, NEW E \in SUBSET Nodes, Cardinality(E) >= Total,
           NEW missing \in SUBSET Idx, NEW healthy \in SUBSET E,
           NEW t \in [missing -> healthy],
           IsRepairAssignment(w, t, missing, healthy,
                              {hrw_intended_nodes(w, E)[i] : i \in Idx \ missing}, E),
           Cardinality(missing) <=
               Cardinality(healthy \ {hrw_intended_nodes(w, E)[i] : i \in Idx \ missing}),
           NEW lost \in SUBSET Nodes, Cardinality(lost) <= M
    PROVE  Cardinality({i \in Idx :
               Repaired(hrw_intended_nodes(w, E), missing, t)[i] \notin lost}) >= K
<1> DEFINE f == hrw_intended_nodes(w, E)
           new == Repaired(f, missing, t)
<1>1. f \in [Idx -> E] /\ IsHrwPlacement(w, f, E)
  BY HrwExists
<1>2. \A i, j \in Idx : i # j => f[i] # f[j]
  BY <1>1, HrwDistinct
<1>3. NoneTaken(w, missing, {f[i] : i \in Idx \ missing}, E)
  BY <1>2 DEF NoneTaken
<1>4. healthy \in SUBSET Nodes
  OBVIOUS
<1>5. \A i, j \in Idx : i # j => new[i] # new[j]
  <2> HIDE DEF f
  <2>1. IsRepairAssignment(w, t, missing, healthy, {f[i] : i \in Idx \ missing}, E)
    BY DEF f
  <2>2. Cardinality(missing) <= Cardinality(healthy \ {f[i] : i \in Idx \ missing})
    BY DEF f
  <2>3. \A i, j \in Idx \ missing : i # j => f[i] # f[j]
    BY <1>2
  <2>4. \A i, j \in Idx : i # j => Repaired(f, missing, t)[i] # Repaired(f, missing, t)[j]
    BY <1>3, <1>4, <2>1, <2>2, <2>3, RepairKeepsNodesApart
  <2> QED BY <2>4
<1>6. new \in [Idx -> Nodes]
  BY <1>1 DEF Repaired
<1> HIDE DEF new
<1> QED BY <1>5, <1>6, LossesLeaveK DEF new
=============================================================================
