--------------------------- MODULE IffEdit_proofs ---------------------------
(***************************************************************************)
(* What editing an IFF file guarantees for any file, any number of nodes   *)
(* and any edits: the tree stays a tree, the writer never copies stale     *)
(* bytes, and undoing and redoing lead back and forth along one history.   *)
(***************************************************************************)
EXTENDS IffEdit, Integers, SequenceTheorems, FiniteSetTheorems, WellFoundedInduction, TLAPS

-----------------------------------------------------------------------------
(***************************************************************************)
(* Recursion.  A function defined by recursion is a CHOOSE; it is what its *)
(* equation says once some function is shown to satisfy the equation.      *)
(***************************************************************************)
\* Induction over the numbers up to n, with the statement as a set.
LEMMA UpTo ==
  ASSUME NEW n \in Nat, NEW P \in SUBSET Nat, 0 \in P,
         \A k \in Nat : k < n /\ k \in P => k + 1 \in P
  PROVE  \A k \in 0..n : k \in P
<1> DEFINE bad == {k \in 0..n : k \notin P}
<1> SUFFICES ASSUME bad # {} PROVE FALSE
  OBVIOUS
<1>1. bad \subseteq Nat
  OBVIOUS
<1> HIDE DEF bad
<1>2. PICK x \in bad : \A y \in bad : <<y, x>> \notin OpToRel(<, Nat)
  BY <1>1, NatLessThanWellFounded, WFMin
<1>3. x \in 1..n /\ x \notin P
  BY DEF bad
<1>4. x - 1 \notin bad
  <2>1. x - 1 \in Nat /\ x \in Nat /\ x - 1 < x
    BY <1>3
  <2>2. <<x - 1, x>> \in OpToRel(<, Nat)
    BY <2>1 DEF OpToRel
  <2> QED BY <1>2, <2>2
<1>5. x - 1 \in P /\ x - 1 \in Nat /\ x - 1 < n /\ (x - 1) + 1 = x
  BY <1>3, <1>4 DEF bad
<1> QED BY <1>3, <1>5

LEMMA All ==
  ASSUME NEW P \in SUBSET Nat, 0 \in P, \A k \in P : k + 1 \in P
  PROVE  P = Nat
<1>1. ASSUME NEW n \in Nat PROVE n \in P
  <2>1. \A k \in 0..n : k \in P
    BY UpTo
  <2> QED BY <2>1
<1> QED BY <1>1

\* The first k steps from x.
Steps(g, S, x, step, k) == g \in [Nat -> S] /\ g[0] = x /\ \A i \in 0..k - 1 : g[i + 1] = step[g[i]]

LEMMA StepsAgree ==
  ASSUME NEW S, NEW x, NEW step, NEW k \in Nat, NEW m \in Nat,
         NEW g, Steps(g, S, x, step, k), NEW h, Steps(h, S, x, step, m)
  PROVE  \A i \in Nat : i <= k /\ i <= m => g[i] = h[i]
<1> DEFINE P == {i \in Nat : i <= k /\ i <= m => g[i] = h[i]}
<1>1. 0 \in P
  BY DEF Steps
<1>2. ASSUME NEW i \in P PROVE i + 1 \in P
  <2> SUFFICES ASSUME i + 1 <= k, i + 1 <= m PROVE g[i + 1] = h[i + 1]
    OBVIOUS
  <2>1. i \in 0..k - 1 /\ i \in 0..m - 1 /\ g[i] = h[i]
    OBVIOUS
  <2> QED BY <2>1 DEF Steps
<1> HIDE DEF P
<1>3. P \subseteq Nat
  BY DEF P
<1>4. P = Nat
  BY <1>1, <1>2, <1>3, All
<1> QED BY <1>4 DEF P

LEMMA StepsExist ==
  ASSUME NEW S, NEW x \in S, NEW step \in [S -> S], NEW k \in Nat
  PROVE  \E g : Steps(g, S, x, step, k)
<1> DEFINE P == {i \in Nat : \E g : Steps(g, S, x, step, i)}
<1>1. 0 \in P
  <2> DEFINE g == [i \in Nat |-> x]
  <2>1. Steps(g, S, x, step, 0)
    BY DEF Steps
  <2> QED BY <2>1
<1>2. ASSUME NEW i \in P PROVE i + 1 \in P
  <2>1. PICK g : Steps(g, S, x, step, i)
    OBVIOUS
  <2> DEFINE h == [g EXCEPT ![i + 1] = step[g[i]]]
  <2>2. i \in Nat /\ g \in [Nat -> S] /\ g[0] = x /\ \A j \in 0..i - 1 : g[j + 1] = step[g[j]]
    BY <2>1 DEF Steps
  <2>3. h \in [Nat -> S] /\ h[0] = x
    BY <2>2
  <2>4. ASSUME NEW j \in 0..(i + 1) - 1 PROVE h[j + 1] = step[h[j]]
    <3>1. CASE j = i
      BY <2>2, <3>1
    <3>2. CASE j \in 0..i - 1
      <4>1. j + 1 # i + 1 /\ j # i + 1 /\ j + 1 \in Nat /\ j \in Nat
        BY <2>2, <3>2
      <4> QED BY <2>2, <3>2, <4>1
    <3> QED BY <2>2, <3>1, <3>2
  <2>5. Steps(h, S, x, step, i + 1)
    BY <2>3, <2>4 DEF Steps
  <2> QED BY <2>2, <2>5
<1> HIDE DEF P
<1>3. P \subseteq Nat
  BY DEF P
<1>4. P = Nat
  BY <1>1, <1>2, <1>3, All
<1> QED BY <1>4 DEF P

\* A step repeated for ever.
LEMMA Iterates ==
  ASSUME NEW S, NEW x \in S, NEW step \in [S -> S]
  PROVE  \E f \in [Nat -> S] : f[0] = x /\ \A i \in Nat : f[i + 1] = step[f[i]]
<1> DEFINE g(k) == CHOOSE h : Steps(h, S, x, step, k)
           f == [i \in Nat |-> g(i)[i]]
<1>1. \A k \in Nat : Steps(g(k), S, x, step, k)
  BY StepsExist
<1> HIDE DEF g
<1>2. f \in [Nat -> S] /\ f[0] = x
  BY <1>1 DEF Steps
<1>3. ASSUME NEW i \in Nat PROVE f[i + 1] = step[f[i]]
  <2>1. i + 1 \in Nat /\ i \in 0..(i + 1) - 1 /\ i <= i /\ i <= i + 1
    OBVIOUS
  <2>2. Steps(g(i), S, x, step, i) /\ Steps(g(i + 1), S, x, step, i + 1)
    BY <1>1, <2>1
  <2>3. g(i)[i] = g(i + 1)[i]
    BY <2>1, <2>2, StepsAgree
  <2>4. g(i + 1)[i + 1] = step[g(i + 1)[i]]
    BY <2>1, <2>2 DEF Steps
  <2> QED BY <2>1, <2>3, <2>4
<1> QED BY <1>2, <1>3

-----------------------------------------------------------------------------
(***************************************************************************)
(* What can be reached.                                                    *)
(***************************************************************************)
\* C is what is reached from n by the links in next.
Closed(S, next) == \A m \in S : next[m] \subseteq S
Reached(C, n, next) ==
  /\ n \in C /\ C \subseteq Nodes /\ Closed(C, next)
  /\ \A S \in SUBSET Nodes : n \in S /\ Closed(S, next) => C \subseteq S

Grows(g, n, next) ==
  /\ g \in [Nat -> SUBSET Nodes] /\ g[0] = {n}
  /\ \A i \in Nat : g[i + 1] = g[i] \cup UNION {next[m] : m \in g[i]}

LEMMA NodesFinite == MaxNodes \in Nat /\ IsFiniteSet(Nodes) /\ Cardinality(Nodes) = MaxNodes
<1>1. MaxNodes \in Nat /\ 1 \in Int /\ MaxNodes \in Int
  BY IffAssumption
<1>2. IsFiniteSet(1..MaxNodes) /\ Cardinality(1..MaxNodes) = IF 1 > MaxNodes THEN 0 ELSE MaxNodes - 1 + 1
  BY <1>1, FS_Interval
<1> QED BY <1>1, <1>2 DEF Nodes

\* Nodes are finitely many: after MaxNodes rounds nothing new is reached.
LEMMA GrowsToReached ==
  ASSUME NEW n \in Nodes, NEW next \in [Nodes -> SUBSET Nodes], NEW g, Grows(g, n, next)
  PROVE  Reached(g[MaxNodes], n, next)
<1> DEFINE N == MaxNodes
<1>1. N \in Nat /\ IsFiniteSet(Nodes) /\ Cardinality(Nodes) = N
  BY NodesFinite
<1>2. \A i \in Nat : g[i] \subseteq Nodes /\ g[i] \subseteq g[i + 1] /\ g[i + 1] \subseteq Nodes
  BY DEF Grows
<1>3. ASSUME NEW j \in Nat, g[j + 1] = g[j] PROVE \A i \in Nat : i >= j => g[i] = g[j]
  <2> DEFINE P == {i \in Nat : i >= j => g[i] = g[j]}
  <2>1. 0 \in P
    <3>1. 0 >= j => j = 0
      OBVIOUS
    <3> QED BY <3>1
  <2>2. ASSUME NEW i \in P PROVE i + 1 \in P
    <3> SUFFICES ASSUME i + 1 >= j PROVE g[i + 1] = g[j]
      OBVIOUS
    <3>1. CASE i + 1 = j
      BY <3>1
    <3>2. CASE i + 1 # j
      <4>1. i \in Nat /\ i >= j /\ g[i] = g[j]
        BY <3>2
      <4>2. g[i + 1] = g[j + 1]
        <5>1. /\ g[i + 1] = g[i] \cup UNION {next[m] : m \in g[i]}
              /\ g[j + 1] = g[j] \cup UNION {next[m] : m \in g[j]}
          BY <4>1 DEF Grows
        <5> QED BY <4>1, <5>1
      <4> QED BY <1>3, <4>2
    <3> QED BY <3>1, <3>2
  <2> HIDE DEF P
  <2>3. P \subseteq Nat
    BY DEF P
  <2>4. P = Nat
    BY <2>1, <2>2, <2>3, All
  <2> QED BY <2>4 DEF P
<1>4. g[N + 1] = g[N]
  <2> SUFFICES ASSUME g[N + 1] # g[N] PROVE FALSE
    OBVIOUS
  <2> DEFINE P == {k \in Nat : k <= N + 1 => Cardinality(g[k]) >= k + 1}
  <2>0. \A k \in Nat : IsFiniteSet(g[k]) /\ Cardinality(g[k]) \in Nat /\ Cardinality(g[k]) <= N
    <3>1. ASSUME NEW k \in Nat PROVE IsFiniteSet(g[k]) /\ Cardinality(g[k]) \in Nat /\ Cardinality(g[k]) <= N
      <4>1. g[k] \subseteq Nodes
        BY <1>2
      <4>2. IsFiniteSet(g[k]) /\ Cardinality(g[k]) <= N
        BY <1>1, <4>1, FS_Subset
      <4> QED BY <4>2, FS_CardinalityType
    <3> QED BY <3>1
  <2>1. 0 \in P
    <3>1. g[0] = {n}
      BY DEF Grows
    <3>2. Cardinality({n}) = 1
      BY FS_Singleton
    <3> QED BY <3>1, <3>2
  <2>2. ASSUME NEW k \in P PROVE k + 1 \in P
    <3> SUFFICES ASSUME k + 1 <= N + 1 PROVE Cardinality(g[k + 1]) >= k + 1 + 1
      OBVIOUS
    <3>1. k \in Nat /\ k <= N + 1 /\ Cardinality(g[k]) >= k + 1
      BY <1>1
    <3>2. g[k + 1] # g[k]
      <4>1. SUFFICES ASSUME g[k + 1] = g[k] PROVE FALSE
        OBVIOUS
      <4>2. N + 1 \in Nat /\ N >= k /\ N + 1 >= k
        BY <1>1, <3>1
      <4>3. g[N] = g[k] /\ g[N + 1] = g[k]
        BY <1>1, <1>3, <3>1, <4>1, <4>2
      <4> QED BY <4>3
    <3>3. g[k] \subseteq g[k + 1] /\ IsFiniteSet(g[k + 1]) /\ k + 1 \in Nat
      BY <1>2, <2>0, <3>1
    <3>4. Cardinality(g[k]) < Cardinality(g[k + 1])
      <4>1. Cardinality(g[k]) <= Cardinality(g[k + 1]) /\ (Cardinality(g[k]) = Cardinality(g[k + 1]) => g[k] = g[k + 1])
        BY <3>3, FS_Subset
      <4>2. Cardinality(g[k]) \in Nat /\ Cardinality(g[k + 1]) \in Nat
        BY <2>0, <3>1, <3>3
      <4> QED BY <3>2, <4>1, <4>2
    <3>5. Cardinality(g[k]) \in Nat /\ Cardinality(g[k + 1]) \in Nat
      BY <2>0, <3>1, <3>3
    <3> QED BY <3>1, <3>4, <3>5
  <2> HIDE DEF P
  <2>3. P \subseteq Nat
    BY DEF P
  <2>4. P = Nat
    BY <2>1, <2>2, <2>3, All
  <2>5. Cardinality(g[N]) >= N + 1 /\ Cardinality(g[N]) <= N /\ Cardinality(g[N]) \in Nat
    <3>1. N \in P /\ N <= N + 1
      BY <1>1, <2>4
    <3> QED BY <1>1, <2>0, <3>1 DEF P
  <2> QED BY <1>1, <2>5
<1>5. n \in g[N]
  <2> DEFINE P == {i \in Nat : n \in g[i]}
  <2>1. 0 \in P /\ (\A k \in P : k + 1 \in P) /\ P \subseteq Nat
    BY <1>2 DEF Grows
  <2> HIDE DEF P
  <2>2. P = Nat
    BY <2>1, All
  <2> QED BY <1>1, <2>2 DEF P
<1>6. Closed(g[N], next)
  <2>1. g[N] = g[N] \cup UNION {next[m] : m \in g[N]}
    BY <1>1, <1>4 DEF Grows
  <2> QED BY <2>1 DEF Closed
<1>7. ASSUME NEW S \in SUBSET Nodes, n \in S, Closed(S, next) PROVE g[N] \subseteq S
  <2> DEFINE P == {i \in Nat : g[i] \subseteq S}
  <2>1. 0 \in P
    BY <1>7 DEF Grows
  <2>2. ASSUME NEW k \in P PROVE k + 1 \in P
    <3>1. k \in Nat /\ g[k] \subseteq S /\ g[k + 1] = g[k] \cup UNION {next[m] : m \in g[k]}
      BY DEF Grows
    <3>2. UNION {next[m] : m \in g[k]} \subseteq S
      BY <1>7, <3>1 DEF Closed
    <3> QED BY <3>1, <3>2
  <2> HIDE DEF P
  <2>3. P \subseteq Nat
    BY DEF P
  <2>4. P = Nat
    BY <2>1, <2>2, <2>3, All
  <2> QED BY <1>1, <2>4 DEF P
<1> QED BY <1>1, <1>2, <1>5, <1>6, <1>7 DEF Reached

LEMMA GrowsExists ==
  ASSUME NEW n \in Nodes, NEW next \in [Nodes -> SUBSET Nodes]
  PROVE  \E g : Grows(g, n, next)
<1> DEFINE S == SUBSET Nodes
           x == {n}
           step == [s \in S |-> s \cup UNION {next[m] : m \in s}]
<1>1. step \in [S -> S] /\ x \in S
  OBVIOUS
<1>2. \A s \in S : step[s] = s \cup UNION {next[m] : m \in s}
  OBVIOUS
<1> HIDE DEF step, S, x
<1>3. PICK f \in [Nat -> S] : f[0] = x /\ \A i \in Nat : f[i + 1] = step[f[i]]
  BY <1>1, Iterates
<1>4. Grows(f, n, next)
  BY <1>2, <1>3 DEF Grows, S, x
<1> QED BY <1>4

Above(d) == [m \in Nodes |-> {d.parent[m]} \ {Nowhere}]
Under(d) == [m \in Nodes |-> ToSet(d.children[m])]

Ups(g, d, n) ==
  g = [i \in Nat |-> IF i = 0 THEN {n}
                     ELSE LET below == g[i-1] IN below \cup ({d.parent[m] : m \in below} \ {Nowhere})]
Downs(g, d, n) ==
  g = [i \in Nat |-> IF i = 0 THEN {n}
                     ELSE LET above == g[i-1] IN above \cup UNION {ToSet(d.children[m]) : m \in above}]

LEMMA UpChoice ==
  ASSUME NEW d, NEW n
  PROVE  Up(d, n) = (CHOOSE g : Ups(g, d, n))[MaxNodes]
  BY DEF Up, Ups

LEMMA DownChoice ==
  ASSUME NEW d, NEW n
  PROVE  Down(d, n) = (CHOOSE g : Downs(g, d, n))[MaxNodes]
  BY DEF Down, Downs

\* The recursion of Up and Down is growth along parents and children.
LEMMA UpGrows ==
  ASSUME NEW d, d.parent \in [Nodes -> Nodes \cup {Nowhere}], NEW n \in Nodes
  PROVE  \A g : Grows(g, n, Above(d)) <=> Ups(g, d, n) /\ g \in [Nat -> SUBSET Nodes]
<1>1. ASSUME NEW g \in [Nat -> SUBSET Nodes], NEW i \in Nat
      PROVE  UNION {Above(d)[m] : m \in g[i]} = {d.parent[m] : m \in g[i]} \ {Nowhere}
  <2>1. \A m \in g[i] : Above(d)[m] = {d.parent[m]} \ {Nowhere}
    BY DEF Above
  <2> QED BY <2>1
<1>2. ASSUME NEW g, Grows(g, n, Above(d)) PROVE Ups(g, d, n)
  <2>1. g \in [Nat -> SUBSET Nodes] /\ g[0] = {n}
    BY <1>2 DEF Grows
  <2>2. ASSUME NEW i \in Nat, i # 0
        PROVE  g[i] = g[i-1] \cup ({d.parent[m] : m \in g[i-1]} \ {Nowhere})
    <3>1. i - 1 \in Nat /\ (i - 1) + 1 = i
      BY <2>2
    <3>2. g[i] = g[i-1] \cup UNION {Above(d)[m] : m \in g[i-1]}
      BY <1>2, <3>1 DEF Grows
    <3> QED BY <1>1, <2>1, <3>1, <3>2
  <2> QED BY <2>1, <2>2 DEF Ups
<1>3. ASSUME NEW g \in [Nat -> SUBSET Nodes], Ups(g, d, n) PROVE Grows(g, n, Above(d))
  <2>1. g[0] = {n}
    BY <1>3 DEF Ups
  <2>2. ASSUME NEW i \in Nat PROVE g[i + 1] = g[i] \cup UNION {Above(d)[m] : m \in g[i]}
    <3>1. i + 1 \in Nat /\ i + 1 # 0 /\ (i + 1) - 1 = i
      OBVIOUS
    <3>2. g[i + 1] = g[i] \cup ({d.parent[m] : m \in g[i]} \ {Nowhere})
      BY <1>3, <3>1 DEF Ups
    <3> QED BY <1>1, <3>2
  <2> QED BY <2>1, <2>2 DEF Grows
<1> QED BY <1>2, <1>3 DEF Grows

LEMMA DownGrows ==
  ASSUME NEW d, d.children \in [Nodes -> Seq(Nodes)], NEW n \in Nodes
  PROVE  \A g : Grows(g, n, Under(d)) <=> Downs(g, d, n) /\ g \in [Nat -> SUBSET Nodes]
<1>1. ASSUME NEW g \in [Nat -> SUBSET Nodes], NEW i \in Nat
      PROVE  UNION {Under(d)[m] : m \in g[i]} = UNION {ToSet(d.children[m]) : m \in g[i]}
  <2>1. \A m \in g[i] : Under(d)[m] = ToSet(d.children[m])
    BY DEF Under
  <2> QED BY <2>1
<1>2. ASSUME NEW g, Grows(g, n, Under(d)) PROVE Downs(g, d, n)
  <2>1. g \in [Nat -> SUBSET Nodes] /\ g[0] = {n}
    BY <1>2 DEF Grows
  <2>2. ASSUME NEW i \in Nat, i # 0
        PROVE  g[i] = g[i-1] \cup UNION {ToSet(d.children[m]) : m \in g[i-1]}
    <3>1. i - 1 \in Nat /\ (i - 1) + 1 = i
      BY <2>2
    <3>2. g[i] = g[i-1] \cup UNION {Under(d)[m] : m \in g[i-1]}
      BY <1>2, <3>1 DEF Grows
    <3> QED BY <1>1, <2>1, <3>1, <3>2
  <2> QED BY <2>1, <2>2 DEF Downs
<1>3. ASSUME NEW g \in [Nat -> SUBSET Nodes], Downs(g, d, n) PROVE Grows(g, n, Under(d))
  <2>1. g[0] = {n}
    BY <1>3 DEF Downs
  <2>2. ASSUME NEW i \in Nat PROVE g[i + 1] = g[i] \cup UNION {Under(d)[m] : m \in g[i]}
    <3>1. i + 1 \in Nat /\ i + 1 # 0 /\ (i + 1) - 1 = i
      OBVIOUS
    <3>2. g[i + 1] = g[i] \cup UNION {ToSet(d.children[m]) : m \in g[i]}
      BY <1>3, <3>1 DEF Downs
    <3> QED BY <1>1, <3>2
  <2> QED BY <2>1, <2>2 DEF Grows
<1> QED BY <1>2, <1>3 DEF Grows

\* Whatever satisfies the equation stays among the nodes.
LEMMA UpsTyped ==
  ASSUME NEW d, d.parent \in [Nodes -> Nodes \cup {Nowhere}], NEW n \in Nodes, NEW g, Ups(g, d, n)
  PROVE  g \in [Nat -> SUBSET Nodes]
<1> DEFINE P == {i \in Nat : g[i] \subseteq Nodes}
<1>1. 0 \in P
  BY DEF Ups
<1>2. ASSUME NEW i \in P PROVE i + 1 \in P
  <2>1. i \in Nat /\ i + 1 \in Nat /\ i + 1 # 0 /\ (i + 1) - 1 = i /\ g[i] \subseteq Nodes
    OBVIOUS
  <2>2. g[i + 1] = g[i] \cup ({d.parent[m] : m \in g[i]} \ {Nowhere})
    BY <2>1 DEF Ups
  <2> QED BY <2>1, <2>2
<1>3. P \subseteq Nat
  OBVIOUS
<1> HIDE DEF P
<1>4. P = Nat
  BY <1>1, <1>2, <1>3, All
<1>5. \A i \in Nat : g[i] \in SUBSET Nodes
  BY <1>4 DEF P
<1> QED BY <1>5 DEF Ups

LEMMA DownsTyped ==
  ASSUME NEW d, d.children \in [Nodes -> Seq(Nodes)], NEW n \in Nodes, NEW g, Downs(g, d, n)
  PROVE  g \in [Nat -> SUBSET Nodes]
<1> DEFINE P == {i \in Nat : g[i] \subseteq Nodes}
<1>0. \A m \in Nodes : ToSet(d.children[m]) \subseteq Nodes
  <2>1. ASSUME NEW m \in Nodes PROVE ToSet(d.children[m]) \subseteq Nodes
    <3>1. d.children[m] \in Seq(Nodes)
      OBVIOUS
    <3>2. DOMAIN d.children[m] = 1..Len(d.children[m])
      BY <3>1, LenProperties
    <3> QED BY <3>1, <3>2, ElementOfSeq DEF ToSet
  <2> QED BY <2>1
<1>1. 0 \in P
  BY DEF Downs
<1>2. ASSUME NEW i \in P PROVE i + 1 \in P
  <2>1. i \in Nat /\ i + 1 \in Nat /\ i + 1 # 0 /\ (i + 1) - 1 = i /\ g[i] \subseteq Nodes
    OBVIOUS
  <2>2. g[i + 1] = g[i] \cup UNION {ToSet(d.children[m]) : m \in g[i]}
    BY <2>1 DEF Downs
  <2> QED BY <1>0, <2>1, <2>2
<1>3. P \subseteq Nat
  OBVIOUS
<1> HIDE DEF P
<1>4. P = Nat
  BY <1>1, <1>2, <1>3, All
<1>5. \A i \in Nat : g[i] \in SUBSET Nodes
  BY <1>4 DEF P
<1> QED BY <1>5 DEF Downs

LEMMA UpFacts ==
  ASSUME NEW d, d.parent \in [Nodes -> Nodes \cup {Nowhere}], NEW n \in Nodes
  PROVE  Reached(Up(d, n), n, Above(d))
<1> DEFINE g == CHOOSE h : Ups(h, d, n)
<1>1. Above(d) \in [Nodes -> SUBSET Nodes]
  BY DEF Above, Nowhere
<1>2. Ups(g, d, n)
  <2>1. \E h : Grows(h, n, Above(d))
    BY <1>1, GrowsExists
  <2>2. \E h : Ups(h, d, n)
    BY <2>1, UpGrows
  <2> QED BY <2>2
<1> HIDE DEF g
<1>3. Grows(g, n, Above(d))
  BY <1>2, UpsTyped, UpGrows
<1>4. Reached(g[MaxNodes], n, Above(d))
  BY <1>1, <1>3, GrowsToReached
<1> QED BY <1>4, UpChoice DEF g

LEMMA DownFacts ==
  ASSUME NEW d, d.children \in [Nodes -> Seq(Nodes)], NEW n \in Nodes
  PROVE  Reached(Down(d, n), n, Under(d))
<1> DEFINE g == CHOOSE h : Downs(h, d, n)
<1>1. Under(d) \in [Nodes -> SUBSET Nodes]
  <2>1. ASSUME NEW m \in Nodes PROVE ToSet(d.children[m]) \subseteq Nodes
    <3>1. d.children[m] \in Seq(Nodes)
      OBVIOUS
    <3>2. DOMAIN d.children[m] = 1..Len(d.children[m])
      BY <3>1, LenProperties
    <3> QED BY <3>1, <3>2, ElementOfSeq DEF ToSet
  <2> QED BY <2>1 DEF Under
<1>2. Downs(g, d, n)
  <2>1. \E h : Grows(h, n, Under(d))
    BY <1>1, GrowsExists
  <2>2. \E h : Downs(h, d, n)
    BY <2>1, DownGrows
  <2> QED BY <2>2
<1> HIDE DEF g
<1>3. Grows(g, n, Under(d))
  BY <1>2, DownsTyped, DownGrows
<1>4. Reached(g[MaxNodes], n, Under(d))
  BY <1>1, <1>3, GrowsToReached
<1> QED BY <1>4, DownChoice DEF g

\* What is left when one element goes.
LEMMA RemoveOne ==
  ASSUME NEW S, NEW s \in Seq(S), NEW at \in 1..Len(s)
  PROVE  /\ RemoveAt(s, at) \in Seq(S) /\ Len(RemoveAt(s, at)) = Len(s) - 1
         /\ \A i \in 1..Len(s) - 1 : RemoveAt(s, at)[i] = IF i < at THEN s[i] ELSE s[i + 1]
<1> DEFINE n == Len(s)
           l == SubSeq(s, 1, at - 1)
           r == SubSeq(s, at + 1, n)
<1>1. n \in Nat /\ \A i \in 1..n : s[i] \in S
  BY LenProperties, ElementOfSeq
<1>2. n \in Int /\ at \in Int /\ 1 <= at /\ at <= n /\ n > 0
  <2> HIDE DEF n
  <2> QED BY <1>1 DEF n
<1>3. RemoveAt(s, at) = l \o r
  BY DEF RemoveAt
<1>4. l \in Seq(S) /\ Len(l) = at - 1 /\ \A i \in 1..at - 1 : l[i] = s[i]
  <2>1. 1 \in Int /\ at - 1 \in Int /\ \A i \in 1..at - 1 : s[i] \in S
    BY <1>1, <1>2
  <2>2. /\ l \in Seq(S) /\ Len(l) = IF 1 <= at - 1 THEN at - 1 - 1 + 1 ELSE 0
        /\ \A i \in 1..at - 1 - 1 + 1 : l[i] = s[1 + i - 1]
    BY <2>1, SubSeqProperties
  <2> HIDE DEF l
  <2> QED BY <1>1, <1>2, <2>2
<1>5. r \in Seq(S) /\ Len(r) = n - at /\ \A i \in 1..n - at : r[i] = s[at + i]
  <2>1. n \in Int /\ at + 1 \in Int /\ \A i \in at + 1..n : s[i] \in S
    BY <1>1, <1>2
  <2>2. /\ r \in Seq(S) /\ Len(r) = IF at + 1 <= n THEN n - (at + 1) + 1 ELSE 0
        /\ \A i \in 1..n - (at + 1) + 1 : r[i] = s[at + 1 + i - 1]
    BY <2>1, SubSeqProperties
  <2> HIDE DEF r, n
  <2>3. Len(r) = n - at
    <3>1. CASE at + 1 <= n
      BY <1>2, <2>2, <3>1
    <3>2. CASE ~(at + 1 <= n)
      <4>1. n = at
        BY <1>2, <3>2
      <4> QED BY <1>2, <2>2, <3>2, <4>1
    <3> QED BY <3>1, <3>2
  <2>4. ASSUME NEW i \in 1..n - at PROVE r[i] = s[at + i]
    <3>1. i \in 1..n - (at + 1) + 1 /\ at + 1 + i - 1 = at + i
      BY <1>2
    <3> QED BY <2>2, <3>1
  <2> QED BY <2>2, <2>3, <2>4
<1> HIDE DEF l, r, n
<1>6. /\ l \o r \in Seq(S) /\ Len(l \o r) = Len(l) + Len(r)
      /\ \A i \in 1..Len(l) + Len(r) : (l \o r)[i] = IF i <= Len(l) THEN l[i] ELSE r[i - Len(l)]
  BY <1>4, <1>5, ConcatProperties
<1>7. Len(l \o r) = n - 1
  BY <1>2, <1>4, <1>5, <1>6
<1>8. ASSUME NEW i \in 1..n - 1 PROVE (l \o r)[i] = IF i < at THEN s[i] ELSE s[i + 1]
  <2>1. i \in 1..Len(l) + Len(r) /\ i \in Int /\ Len(l) = at - 1
    BY <1>2, <1>4, <1>5
  <2>2. (l \o r)[i] = IF i <= at - 1 THEN l[i] ELSE r[i - (at - 1)]
    BY <1>6, <2>1
  <2>3. CASE i < at
    BY <1>2, <1>4, <2>1, <2>2, <2>3
  <2>4. CASE ~(i < at)
    <3>1. i - (at - 1) \in 1..n - at /\ at + (i - (at - 1)) = i + 1 /\ ~(i <= at - 1)
      BY <1>2, <2>1, <2>4
    <3> QED BY <1>5, <2>2, <2>4, <3>1
  <2> QED BY <2>3, <2>4
<1> QED BY <1>3, <1>6, <1>7, <1>8 DEF n


\* A sequence with an element more.
HasOneMore(t, S, s, at, e) ==
  /\ t \in Seq(S) /\ Len(t) = Len(s) + 1
  /\ \A i \in 1..(Len(s) + 1) : t[i] = IF i < at THEN s[i] ELSE IF i = at THEN e ELSE s[i - 1]

\* An element put in at a place: the ones from there on move up.
LEMMA InsertOne ==
  ASSUME NEW S, NEW s \in Seq(S), NEW at \in 1..(Len(s) + 1), NEW e \in S
  PROVE  HasOneMore(InsertAt(s, at, e), S, s, at, e)
<1> DEFINE n == Len(s)
           l == SubSeq(s, 1, at - 1)
           r == SubSeq(s, at, n)
           m == l \o <<e>>
<1>1. n \in Nat /\ \A i \in 1..n : s[i] \in S
  BY LenProperties, ElementOfSeq
<1>2. n \in Int /\ at \in Int /\ 1 <= at /\ at <= n + 1 /\ n >= 0
  <2> HIDE DEF n
  <2> QED BY <1>1 DEF n
<1>3. InsertAt(s, at, e) = m \o r
  BY DEF InsertAt
<1>4. l \in Seq(S) /\ Len(l) = at - 1 /\ \A i \in 1..at - 1 : l[i] = s[i]
  <2>1. 1 \in Int /\ at - 1 \in Int /\ \A i \in 1..at - 1 : s[i] \in S
    BY <1>1, <1>2
  <2>2. /\ l \in Seq(S) /\ Len(l) = IF 1 <= at - 1 THEN at - 1 - 1 + 1 ELSE 0
        /\ \A i \in 1..at - 1 - 1 + 1 : l[i] = s[1 + i - 1]
    BY <2>1, SubSeqProperties
  <2> HIDE DEF l
  <2> QED BY <1>1, <1>2, <2>2
<1>5. r \in Seq(S) /\ Len(r) = n - at + 1 /\ \A i \in 1..n - at + 1 : r[i] = s[at + i - 1]
  <2>1. n \in Int /\ at \in Int /\ \A i \in at..n : s[i] \in S
    BY <1>1, <1>2
  <2>2. /\ r \in Seq(S) /\ Len(r) = IF at <= n THEN n - at + 1 ELSE 0
        /\ \A i \in 1..n - at + 1 : r[i] = s[at + i - 1]
    BY <2>1, SubSeqProperties
  <2> HIDE DEF r, n
  <2>3. Len(r) = n - at + 1
    BY <1>2, <2>2
  <2> QED BY <2>2, <2>3
<1> HIDE DEF l, r, n
<1>6. <<e>> \in Seq(S) /\ Len(<<e>>) = 1 /\ <<e>>[1] = e
  OBVIOUS
<1>7. /\ m \in Seq(S) /\ Len(m) = at
      /\ \A i \in 1..at : m[i] = IF i < at THEN s[i] ELSE e
  <2>1. /\ m \in Seq(S) /\ Len(m) = Len(l) + Len(<<e>>)
        /\ \A i \in 1..Len(l) + Len(<<e>>) : m[i] = IF i <= Len(l) THEN l[i] ELSE <<e>>[i - Len(l)]
    BY <1>4, <1>6, ConcatProperties
  <2> HIDE DEF m
  <2>2. Len(l) + Len(<<e>>) = at
    BY <1>2, <1>4, <1>6
  <2>3. ASSUME NEW i \in 1..at PROVE m[i] = IF i < at THEN s[i] ELSE e
    <3>1. m[i] = IF i <= at - 1 THEN l[i] ELSE <<e>>[i - (at - 1)]
      BY <1>4, <2>1, <2>2
    <3>2. CASE i < at
      BY <1>2, <1>4, <3>1, <3>2
    <3>3. CASE ~(i < at)
      <4>1. i - (at - 1) = 1 /\ ~(i <= at - 1)
        BY <1>2, <3>3
      <4> QED BY <1>6, <3>1, <3>3, <4>1
    <3> QED BY <3>2, <3>3
  <2> QED BY <2>1, <2>2, <2>3
<1> HIDE DEF m
<1>8. /\ m \o r \in Seq(S) /\ Len(m \o r) = Len(m) + Len(r)
      /\ \A i \in 1..Len(m) + Len(r) : (m \o r)[i] = IF i <= Len(m) THEN m[i] ELSE r[i - Len(m)]
  BY <1>5, <1>7, ConcatProperties
<1>9. Len(m) + Len(r) = n + 1
  BY <1>2, <1>5, <1>7
<1>10. ASSUME NEW i \in 1..(n + 1)
       PROVE  (m \o r)[i] = IF i < at THEN s[i] ELSE IF i = at THEN e ELSE s[i - 1]
  <2>1. (m \o r)[i] = IF i <= at THEN m[i] ELSE r[i - at]
    BY <1>7, <1>8, <1>9
  <2>2. CASE i <= at
    BY <1>2, <1>7, <2>1, <2>2
  <2>3. CASE ~(i <= at)
    <3>1. i - at \in 1..n - at + 1 /\ at + (i - at) - 1 = i - 1
      BY <1>2, <2>3
    <3>2. r[i - at] = s[at + (i - at) - 1]
      BY <1>5, <3>1
    <3> QED BY <1>2, <2>1, <2>3, <3>1, <3>2
  <2> QED BY <2>2, <2>3
<1> QED BY <1>3, <1>8, <1>9, <1>10 DEF n, HasOneMore

\* A function on 1..n is a sequence of length n.
LEMMA FunctionIsSeq ==
  ASSUME NEW S, NEW n \in Nat, NEW f \in [1..n -> S]
  PROVE  f \in Seq(S) /\ Len(f) = n
<1>1. f \in Seq(S)
  BY SeqDef
<1> QED BY <1>1, LenProperties

\* Nothing occurs twice.
Once(s) == \A i, j \in DOMAIN s : s[i] = s[j] => i = j

\* A new element leaves a sequence with each of its elements once,
LEMMA InsertKeepsOnce ==
  ASSUME NEW S, NEW s \in Seq(S), NEW at \in 1..(Len(s) + 1), NEW e \in S
  PROVE  /\ ToSet(InsertAt(s, at, e)) = ToSet(s) \cup {e}
         /\ Once(s) /\ e \notin ToSet(s) => Once(InsertAt(s, at, e))
<1>0. HasOneMore(InsertAt(s, at, e), S, s, at, e)
  BY InsertOne
<1> DEFINE t == InsertAt(s, at, e)
<1>1. /\ t \in Seq(S) /\ Len(t) = Len(s) + 1
      /\ \A i \in 1..(Len(s) + 1) : t[i] = IF i < at THEN s[i] ELSE IF i = at THEN e ELSE s[i - 1]
  BY <1>0 DEF HasOneMore
<1> HIDE DEF t
<1>2. /\ Len(s) \in Nat /\ DOMAIN s = 1..Len(s) /\ DOMAIN t = 1..(Len(s) + 1)
      /\ at \in Nat /\ 1 <= at /\ at <= Len(s) + 1
  BY <1>1, LenProperties
<1>3. ASSUME NEW x \in ToSet(t) PROVE x \in ToSet(s) \cup {e}
  <2>1. PICK i \in 1..(Len(s) + 1) : x = t[i]
    BY <1>2 DEF ToSet
  <2>2. CASE i < at
    <3>1. i \in 1..Len(s) /\ x = s[i]
      BY <1>1, <1>2, <2>1, <2>2
    <3> QED BY <1>2, <3>1 DEF ToSet
  <2>3. CASE i = at
    BY <1>1, <1>2, <2>1, <2>3
  <2>4. CASE i > at
    <3>1. i - 1 \in 1..Len(s) /\ x = s[i - 1]
      BY <1>1, <1>2, <2>1, <2>4
    <3> QED BY <1>2, <3>1 DEF ToSet
  <2> QED BY <1>2, <2>2, <2>3, <2>4
<1>4. ASSUME NEW x \in ToSet(s) PROVE x \in ToSet(t)
  <2>1. PICK i \in 1..Len(s) : x = s[i]
    BY <1>2 DEF ToSet
  <2>2. CASE i < at
    <3>1. i \in 1..(Len(s) + 1) /\ x = t[i]
      BY <1>1, <1>2, <2>1, <2>2
    <3> QED BY <1>2, <3>1 DEF ToSet
  <2>3. CASE ~(i < at)
    <3>1. i + 1 \in 1..(Len(s) + 1) /\ ~(i + 1 < at) /\ i + 1 # at /\ i + 1 - 1 = i
      BY <1>2, <2>3
    <3>2. x = t[i + 1]
      BY <1>1, <2>1, <3>1
    <3> QED BY <1>2, <3>1, <3>2 DEF ToSet
  <2> QED BY <2>2, <2>3
<1>5. e \in ToSet(t)
  BY <1>1, <1>2 DEF ToSet
<1>6. ASSUME Once(s), e \notin ToSet(s), NEW i \in 1..(Len(s) + 1), NEW j \in 1..(Len(s) + 1), t[i] = t[j]
      PROVE  i = j
  <2>1. \A k \in 1..Len(s) : s[k] # e
    BY <1>2, <1>6 DEF ToSet
  <2>2. \A k, l \in 1..Len(s) : s[k] = s[l] => k = l
    BY <1>2, <1>6 DEF Once
  <2> DEFINE old(k) == IF k < at THEN k ELSE k - 1
  <2>3. ASSUME NEW k \in 1..(Len(s) + 1), k # at PROVE old(k) \in 1..Len(s) /\ t[k] = s[old(k)]
    BY <1>1, <1>2, <2>3
  <2>4. t[at] = e
    BY <1>1, <1>2
  <2>5. CASE i # at /\ j # at
    <3>1. s[old(i)] = s[old(j)] /\ old(i) \in 1..Len(s) /\ old(j) \in 1..Len(s)
      BY <1>6, <2>3, <2>5
    <3>2. old(i) = old(j)
      BY <2>2, <3>1
    <3> QED BY <1>2, <2>5, <3>2
  <2>6. CASE i = at \/ j = at
    BY <1>2, <1>6, <2>1, <2>3, <2>4, <2>6
  <2> QED BY <2>5, <2>6
<1> QED BY <1>2, <1>3, <1>4, <1>5, <1>6 DEF t, Once

\* one that goes leaves the others once and is gone,
LEMMA RemoveKeepsOnce ==
  ASSUME NEW S, NEW s \in Seq(S), NEW at \in 1..Len(s)
  PROVE  /\ ToSet(RemoveAt(s, at)) \subseteq ToSet(s)
         /\ Once(s) => Once(RemoveAt(s, at)) /\ s[at] \notin ToSet(RemoveAt(s, at))
<1> DEFINE t == RemoveAt(s, at)
<1>1. /\ t \in Seq(S) /\ Len(t) = Len(s) - 1
      /\ \A i \in 1..Len(s) - 1 : t[i] = IF i < at THEN s[i] ELSE s[i + 1]
  BY RemoveOne
<1> HIDE DEF t
<1>2. /\ Len(s) \in Nat /\ DOMAIN s = 1..Len(s) /\ DOMAIN t = 1..Len(s) - 1
      /\ at \in Nat /\ 1 <= at /\ at <= Len(s)
  BY <1>1, LenProperties
<1> DEFINE old(k) == IF k < at THEN k ELSE k + 1
<1>5. ASSUME NEW k \in 1..Len(s) - 1 PROVE old(k) \in 1..Len(s) /\ old(k) # at /\ t[k] = s[old(k)]
  BY <1>1, <1>2
<1>6. ASSUME NEW k \in 1..Len(s) - 1, NEW l \in 1..Len(s) - 1, old(k) = old(l) PROVE k = l
  BY <1>2, <1>6
<1> HIDE DEF old
<1>3. ToSet(t) \subseteq ToSet(s)
  BY <1>2, <1>5 DEF ToSet
<1>4. ASSUME Once(s) PROVE Once(t) /\ s[at] \notin ToSet(t)
  <2>1. ASSUME NEW i \in 1..Len(s) - 1, NEW j \in 1..Len(s) - 1, t[i] = t[j] PROVE i = j
    BY <1>2, <1>4, <1>5, <1>6, <2>1 DEF Once
  <2>2. ASSUME NEW i \in 1..Len(s) - 1 PROVE t[i] # s[at]
    BY <1>2, <1>4, <1>5 DEF Once
  <2> QED BY <1>2, <2>1, <2>2 DEF Once, ToSet
<1> QED BY <1>3, <1>4 DEF t

\* Two elements trade places.
Swapped(s, i, j) == [s EXCEPT ![i] = s[j], ![j] = s[i]]
LEMMA SwapFacts ==
  ASSUME NEW S, NEW s \in Seq(S), NEW i \in DOMAIN s, NEW j \in DOMAIN s
  PROVE  /\ Swapped(s, i, j) \in Seq(S) /\ DOMAIN Swapped(s, i, j) = DOMAIN s
         /\ ToSet(Swapped(s, i, j)) = ToSet(s) /\ (Once(s) => Once(Swapped(s, i, j)))
         /\ Swapped(Swapped(s, i, j), i, j) = s
         /\ Swapped(s, i, j)[j] = s[i] /\ Swapped(s, i, j)[i] = s[j]
         /\ Swapped(s, j, i) = Swapped(s, i, j)
<1> DEFINE t == Swapped(s, i, j)
           n == Len(s)
<1>1. n \in Nat /\ DOMAIN s = 1..n /\ s \in [1..n -> S]
  BY LenProperties
<1>2. /\ t \in [1..n -> S] /\ t[j] = s[i] /\ t[i] = s[j]
      /\ \A k \in 1..n : k # i /\ k # j => t[k] = s[k]
  BY <1>1 DEF Swapped
<1>3. t \in Seq(S) /\ DOMAIN t = 1..n
  <2> HIDE DEF n, t
  <2> QED BY <1>1, <1>2, FunctionIsSeq
<1>4. Swapped(t, i, j) = s
  <2>1. DOMAIN Swapped(t, i, j) = 1..n /\ \A k \in 1..n : Swapped(t, i, j)[k] = s[k]
    <3> HIDE DEF t, n
    <3>1. Swapped(t, i, j) = [t EXCEPT ![i] = t[j], ![j] = t[i]]
      BY DEF Swapped
    <3> HIDE DEF Swapped
    <3> QED BY <1>1, <1>2, <3>1
  <2> HIDE DEF t, n
  <2>2. Swapped(t, i, j) = [k \in 1..n |-> Swapped(t, i, j)[k]]
    BY <2>1 DEF Swapped
  <2>3. s = [k \in 1..n |-> s[k]]
    BY <1>1
  <2> QED BY <2>1, <2>2, <2>3
<1>5. Swapped(s, j, i) = t
  <2>1. Swapped(s, j, i) = [k \in 1..n |-> IF k = j THEN s[i] ELSE IF k = i THEN s[j] ELSE s[k]]
    BY <1>1 DEF Swapped
  <2>2. t = [k \in 1..n |-> IF k = j THEN s[i] ELSE IF k = i THEN s[j] ELSE s[k]]
    BY <1>1 DEF Swapped
  <2> QED BY <2>1, <2>2
<1> HIDE DEF t, n
<1>6. ToSet(t) = ToSet(s)
  BY <1>1, <1>2, <1>3 DEF ToSet
<1>7. Once(s) => Once(t)
  BY <1>1, <1>2, <1>3 DEF Once
<1> QED BY <1>1, <1>2, <1>3, <1>4, <1>5, <1>6, <1>7 DEF t

\* Taking out what was put in, and putting back what was taken out.
LEMMA OutAgain ==
  ASSUME NEW S, NEW s \in Seq(S)
  PROVE  /\ \A i \in 1..(Len(s) + 1), e \in S : RemoveAt(InsertAt(s, i, e), i) = s
         /\ \A i \in 1..Len(s) : InsertAt(RemoveAt(s, i), i, s[i]) = s
         /\ \A e \in S : RemoveAt(Append(s, e), Len(s) + 1) = s
<1> DEFINE n == Len(s)
<1>1. n \in Nat /\ DOMAIN s = 1..n
  BY LenProperties
<1> HIDE DEF n
<1>2. ASSUME NEW t \in Seq(S), Len(t) = n + 1, NEW i \in 1..n + 1,
             \A k \in 1..n : s[k] = IF k < i THEN t[k] ELSE t[k + 1]
      PROVE  RemoveAt(t, i) = s
  <2>1. i \in 1..Len(t) /\ Len(t) - 1 = n
    BY <1>1, <1>2
  <2>2. /\ RemoveAt(t, i) \in Seq(S) /\ Len(RemoveAt(t, i)) = Len(t) - 1
        /\ \A k \in 1..Len(t) - 1 : RemoveAt(t, i)[k] = IF k < i THEN t[k] ELSE t[k + 1]
    BY <2>1, RemoveOne
  <2> DEFINE r == RemoveAt(t, i)
  <2> HIDE DEF r
  <2>3. r \in Seq(S) /\ Len(r) = n /\ \A k \in 1..n : r[k] = s[k]
    BY <1>2, <2>1, <2>2 DEF r
  <2>4. r = s
    BY <2>3, SeqEqual DEF n
  <2> QED BY <2>4 DEF r
<1>3. ASSUME NEW i \in 1..(Len(s) + 1), NEW e \in S PROVE RemoveAt(InsertAt(s, i, e), i) = s
  <2> DEFINE t == InsertAt(s, i, e)
  <2>1. HasOneMore(t, S, s, i, e)
    BY InsertOne
  <2>2. /\ t \in Seq(S) /\ Len(t) = n + 1 /\ i \in 1..n + 1
        /\ \A k \in 1..n + 1 : t[k] = IF k < i THEN s[k] ELSE IF k = i THEN e ELSE s[k - 1]
    BY <2>1 DEF HasOneMore, n
  <2> HIDE DEF t
  <2>3. ASSUME NEW k \in 1..n PROVE s[k] = IF k < i THEN t[k] ELSE t[k + 1]
    <3>1. k \in 1..n + 1 /\ k + 1 \in 1..n + 1 /\ (k + 1) - 1 = k /\ (~(k < i) => ~(k + 1 < i) /\ k + 1 # i)
      BY <1>1, <2>2
    <3> QED BY <2>2, <3>1
  <2>4. RemoveAt(t, i) = s
    BY <1>2, <2>2, <2>3
  <2> QED BY <2>4 DEF t
<1>4. ASSUME NEW i \in 1..Len(s) PROVE InsertAt(RemoveAt(s, i), i, s[i]) = s
  <2> DEFINE t == RemoveAt(s, i)
             u == InsertAt(t, i, s[i])
  <2>1. /\ t \in Seq(S) /\ Len(t) = Len(s) - 1
        /\ \A k \in 1..Len(s) - 1 : t[k] = IF k < i THEN s[k] ELSE s[k + 1]
    BY RemoveOne
  <2> HIDE DEF t
  <2>2. i \in 1..(Len(t) + 1) /\ s[i] \in S
    <3>1. i \in 1..n
      BY DEF n
    <3>2. Len(t) + 1 = n
      BY <1>1, <2>1 DEF n
    <3> QED BY <3>1, <3>2, <1>1
  <2>3. HasOneMore(u, S, t, i, s[i])
    BY <2>1, <2>2, InsertOne
  <2> HIDE DEF u
  <2>4. /\ u \in Seq(S) /\ Len(u) = n
        /\ \A k \in 1..n : u[k] = IF k < i THEN t[k] ELSE IF k = i THEN s[i] ELSE t[k - 1]
    <3>1. Len(t) + 1 = n
      BY <1>1, <2>1 DEF n
    <3> QED BY <2>3, <3>1 DEF HasOneMore
  <2>5. ASSUME NEW k \in 1..n PROVE u[k] = s[k]
    <3>0. i \in 1..n
      BY DEF n
    <3>1. CASE k < i
      <4>1. k \in 1..Len(s) - 1
        BY <1>1, <3>0, <3>1 DEF n
      <4> QED BY <2>1, <2>4, <3>1, <4>1
    <3>2. CASE k = i
      BY <2>4, <3>2, <3>0
    <3>3. CASE k > i
      <4>1. k - 1 \in 1..Len(s) - 1 /\ ~(k - 1 < i) /\ (k - 1) + 1 = k
        BY <1>1, <3>0, <3>3 DEF n
      <4>2. t[k - 1] = s[k]
        BY <2>1, <4>1
      <4> QED BY <2>4, <3>3, <3>0, <4>2
    <3> QED BY <1>1, <3>0, <3>1, <3>2, <3>3
  <2>6. u = s
    BY <2>4, <2>5, SeqEqual DEF n
  <2> QED BY <2>6 DEF u, t
<1>5. ASSUME NEW e \in S PROVE RemoveAt(Append(s, e), Len(s) + 1) = s
  <2> DEFINE t == Append(s, e)
  <2>1. t \in Seq(S) /\ Len(t) = n + 1 /\ \A k \in 1..n : t[k] = s[k]
    BY AppendProperties DEF n
  <2>2. n + 1 \in 1..n + 1 /\ \A k \in 1..n : k < n + 1
    BY <1>1
  <2> HIDE DEF t
  <2>3. RemoveAt(t, n + 1) = s
    BY <1>2, <2>1, <2>2
  <2> QED BY <2>3 DEF t, n
<1> QED BY <1>3, <1>4, <1>5

-----------------------------------------------------------------------------
(***************************************************************************)
(* What a document looks like.  Image is a recursion over depths.          *)
(***************************************************************************)
Reads(r) ==
  r = [i \in Nat |-> [n \in Nodes |-> Drawn(Loading, n, i, r[i-1])]]
Images(g, r, d, slices) ==
  g = [i \in Nat |->
        [n \in Nodes |-> IF n \in slices THEN r[i][n] ELSE Drawn(d, n, i, g[i-1])]]

LEMMA ImageChoice ==
  ASSUME NEW d, NEW slices
  PROVE  Image(d, slices) = (CHOOSE g : Images(g, CHOOSE r : Reads(r), d, slices))[MaxNodes][Root]
  BY DEF Image, Images, Reads

\* One depth of the recursion, given the one below.
Layer(below, i, r, d, slices) ==
  [n \in Nodes |-> IF n \in slices THEN r[i][n] ELSE Drawn(d, n, i, below)]

Layers(g, k, r, d, slices) == \A i \in 0..k : g[i] = Layer(g[i - 1], i, r, d, slices)

LEMMA FirstLayer ==
  ASSUME NEW r, NEW d, NEW slices, NEW a, NEW b
  PROVE  Layer(a, 0, r, d, slices) = Layer(b, 0, r, d, slices)
  BY DEF Layer, Drawn

LEMMA LayersAgree ==
  ASSUME NEW r, NEW d, NEW slices, NEW k \in Nat, NEW m \in Nat,
         NEW g, Layers(g, k, r, d, slices), NEW h, Layers(h, m, r, d, slices)
  PROVE  \A i \in Nat : i <= k /\ i <= m => g[i] = h[i]
<1> DEFINE P == {i \in Nat : i <= k /\ i <= m => g[i] = h[i]}
<1>1. 0 \in P
  <2>1. 0 \in 0..k /\ 0 \in 0..m
    OBVIOUS
  <2>2. g[0] = Layer(g[0 - 1], 0, r, d, slices) /\ h[0] = Layer(h[0 - 1], 0, r, d, slices)
    BY <2>1 DEF Layers
  <2>3. g[0] = h[0]
    BY <2>2, FirstLayer
  <2> QED BY <2>3
<1>2. ASSUME NEW i \in P PROVE i + 1 \in P
  <2> SUFFICES ASSUME i + 1 <= k, i + 1 <= m PROVE g[i + 1] = h[i + 1]
    OBVIOUS
  <2>1. i + 1 \in 0..k /\ i + 1 \in 0..m /\ g[i] = h[i] /\ (i + 1) - 1 = i
    OBVIOUS
  <2>2. /\ g[i + 1] = Layer(g[(i + 1) - 1], i + 1, r, d, slices)
        /\ h[i + 1] = Layer(h[(i + 1) - 1], i + 1, r, d, slices)
    BY <2>1 DEF Layers
  <2> QED BY <2>1, <2>2
<1> HIDE DEF P
<1>3. P \subseteq Nat
  BY DEF P
<1>4. P = Nat
  BY <1>1, <1>2, <1>3, All
<1> QED BY <1>4 DEF P

LEMMA LayersExist ==
  ASSUME NEW r, NEW d, NEW slices, NEW k \in Nat
  PROVE  \E g : Layers(g, k, r, d, slices)
<1> DEFINE P == {i \in Nat : \E g : Layers(g, i, r, d, slices)}
<1>1. 0 \in P
  <2> DEFINE g == [i \in -1..0 |-> IF i = 0 THEN Layer(0, 0, r, d, slices) ELSE 0]
  <2>1. g[0] = Layer(0, 0, r, d, slices)
    OBVIOUS
  <2>2. ASSUME NEW i \in 0..0 PROVE g[i] = Layer(g[i - 1], i, r, d, slices)
    <3> HIDE DEF g
    <3>1. i = 0 /\ Layer(g[i - 1], 0, r, d, slices) = Layer(0, 0, r, d, slices)
      BY FirstLayer
    <3> QED BY <2>1, <3>1
  <2> HIDE DEF g
  <2>3. Layers(g, 0, r, d, slices)
    BY <2>2 DEF Layers
  <2> QED BY <2>3
<1>2. ASSUME NEW i \in P PROVE i + 1 \in P
  <2>1. PICK g : Layers(g, i, r, d, slices)
    OBVIOUS
  <2> DEFINE h == [j \in -1..i + 1 |-> IF j <= i THEN g[j] ELSE Layer(g[i], i + 1, r, d, slices)]
  <2>2. i \in Nat /\ h[i + 1] = Layer(g[i], i + 1, r, d, slices) /\ \A j \in -1..i : h[j] = g[j]
    OBVIOUS
  <2> HIDE DEF h
  <2>3. ASSUME NEW j \in 0..i + 1 PROVE h[j] = Layer(h[j - 1], j, r, d, slices)
    <3>1. CASE j = i + 1
      <4>1. (i + 1) - 1 = i /\ i \in -1..i
        BY <2>2
      <4> QED BY <2>2, <3>1, <4>1
    <3>2. CASE j \in 0..i
      <4>1. j - 1 \in -1..i /\ j \in -1..i
        BY <2>2, <3>2
      <4>2. g[j] = Layer(g[j - 1], j, r, d, slices)
        BY <2>1, <3>2 DEF Layers
      <4> QED BY <2>2, <4>1, <4>2
    <3> QED BY <2>2, <3>1, <3>2
  <2>4. Layers(h, i + 1, r, d, slices)
    BY <2>3 DEF Layers
  <2> QED BY <2>2, <2>4
<1> HIDE DEF P
<1>3. P \subseteq Nat
  BY DEF P
<1>4. P = Nat
  BY <1>1, <1>2, <1>3, All
<1> QED BY <1>4 DEF P

LEMMA ImageExists ==
  ASSUME NEW r, NEW d, NEW slices
  PROVE  \E g : Images(g, r, d, slices)
<1> DEFINE h(k) == CHOOSE g : Layers(g, k, r, d, slices)
           f == [i \in Nat |-> h(i)[i]]
<1>1. \A k \in Nat : Layers(h(k), k, r, d, slices)
  BY LayersExist
<1> HIDE DEF h
<1>2. f[0] = Layer(f[0 - 1], 0, r, d, slices)
  <2>1. 0 \in 0..0 /\ 0 \in Nat
    OBVIOUS
  <2>2. h(0)[0] = Layer(h(0)[0 - 1], 0, r, d, slices)
    BY <1>1, <2>1 DEF Layers
  <2>3. h(0)[0] = Layer(f[0 - 1], 0, r, d, slices)
    BY <2>2, FirstLayer
  <2> QED BY <2>1, <2>3
<1>3. ASSUME NEW i \in Nat, i # 0 PROVE f[i] = Layer(f[i - 1], i, r, d, slices)
  <2>1. i - 1 \in Nat /\ i \in 0..i /\ i - 1 <= i /\ i - 1 <= i - 1
    BY <1>3
  <2>2. Layers(h(i), i, r, d, slices) /\ Layers(h(i - 1), i - 1, r, d, slices)
    BY <1>1, <2>1
  <2>3. h(i)[i - 1] = h(i - 1)[i - 1]
    BY <2>1, <2>2, LayersAgree
  <2>4. h(i)[i] = Layer(h(i)[i - 1], i, r, d, slices)
    BY <2>1, <2>2 DEF Layers
  <2> QED BY <2>1, <2>3, <2>4
<1>4. f = [i \in Nat |-> f[i]]
  OBVIOUS
<1> HIDE DEF f
<1>5. f = [i \in Nat |-> Layer(f[i - 1], i, r, d, slices)]
  <2>1. \A i \in Nat : f[i] = Layer(f[i - 1], i, r, d, slices)
    BY <1>2, <1>3
  <2> QED BY <1>4, <2>1
<1>6. Images(f, r, d, slices)
  BY <1>5 DEF Images, Layer
<1> QED BY <1>6

LEMMA ReadsExist == \E r : Reads(r)
<1>1. PICK g : Images(g, 0, Loading, {})
  BY ImageExists
<1>2. g = [i \in Nat |-> [n \in Nodes |-> Drawn(Loading, n, i, g[i-1])]]
  BY <1>1 DEF Images
<1>3. Reads(g)
  BY <1>2 DEF Reads
<1> QED BY <1>3

AsRead == CHOOSE r : Reads(r)
Drawing(d, slices) == CHOOSE g : Images(g, AsRead, d, slices)

LEMMA ImageIs ==
  ASSUME NEW d, NEW slices
  PROVE  Image(d, slices) = Drawing(d, slices)[MaxNodes][Root]
  BY ImageChoice DEF Drawing, AsRead

LEMMA DrawingIs ==
  ASSUME NEW d, NEW slices, NEW i \in Nat, NEW n \in Nodes
  PROVE  /\ n \in slices => Drawing(d, slices)[i][n] = AsRead[i][n]
         /\ n \notin slices => Drawing(d, slices)[i][n] = Drawn(d, n, i, Drawing(d, slices)[i - 1])
<1> DEFINE g == Drawing(d, slices)
<1>1. Images(g, AsRead, d, slices)
  BY ImageExists DEF Drawing
<1> HIDE DEF g
<1>2. g[i][n] = IF n \in slices THEN AsRead[i][n] ELSE Drawn(d, n, i, g[i - 1])
  BY <1>1 DEF Images
<1> QED BY <1>2 DEF g

LEMMA AsReadIs ==
  ASSUME NEW i \in Nat, NEW n \in Nodes
  PROVE  AsRead[i][n] = Drawn(Loading, n, i, AsRead[i - 1])
<1>1. Reads(AsRead)
  BY ReadsExist DEF AsRead
<1> QED BY <1>1 DEF Reads

\* g draws the nodes of C as they are in d.
Draws(g, d, C) == \A i \in Nat : \A n \in C : g[i][n] = Drawn(d, n, i, g[i - 1])

\* The nodes of C look the same in d and in e, and what is below them is in C.
Alike(d, e, C) ==
  \A n \in C : /\ d.tag[n] = e.tag[n] /\ d.body[n] = e.body[n]
               /\ d.children[n] = e.children[n] /\ d.children[n] \in Seq(C)

LEMMA DrawnAlike ==
  ASSUME NEW C, NEW d, NEW e, Alike(d, e, C), NEW n \in C, NEW i, NEW a, NEW b,
         \A m \in C : a[m] = b[m]
  PROVE  Drawn(d, n, i, a) = Drawn(e, n, i, b)
<1> DEFINE s == d.children[n]
<1>1. s \in Seq(C) /\ e.children[n] = s
  BY DEF Alike
<1>2. \A k \in DOMAIN s : a[s[k]] = b[s[k]]
  <2> HIDE DEF s
  <2>1. \A k \in DOMAIN s : s[k] \in C
    BY <1>1
  <2> QED BY <2>1
<1>3. [k \in DOMAIN s |-> a[s[k]]] = [k \in DOMAIN s |-> b[s[k]]]
  <2> HIDE DEF s
  <2> QED BY <1>2
<1> QED BY <1>1, <1>3 DEF Drawn, Alike

LEMMA DrawsAlike ==
  ASSUME NEW C, NEW d, NEW e, Alike(d, e, C), NEW g, Draws(g, d, C), NEW h, Draws(h, e, C)
  PROVE  \A i \in Nat : \A n \in C : g[i][n] = h[i][n]
<1> DEFINE P == {i \in Nat : \A n \in C : g[i][n] = h[i][n]}
<1>1. 0 \in P
  <2> SUFFICES ASSUME NEW n \in C PROVE g[0][n] = h[0][n]
    OBVIOUS
  <2>1. g[0][n] = Drawn(d, n, 0, g[0 - 1]) /\ h[0][n] = Drawn(e, n, 0, h[0 - 1])
    BY DEF Draws
  <2> QED BY <2>1 DEF Drawn, Alike
<1>2. ASSUME NEW i \in P PROVE i + 1 \in P
  <2> SUFFICES ASSUME NEW n \in C PROVE g[i + 1][n] = h[i + 1][n]
    OBVIOUS
  <2>1. i \in Nat /\ (i + 1) - 1 = i /\ \A m \in C : g[i][m] = h[i][m]
    OBVIOUS
  <2>2. g[i + 1][n] = Drawn(d, n, i + 1, g[i]) /\ h[i + 1][n] = Drawn(e, n, i + 1, h[i])
    BY <2>1 DEF Draws
  <2>3. Drawn(d, n, i + 1, g[i]) = Drawn(e, n, i + 1, h[i])
    BY <2>1, DrawnAlike
  <2> QED BY <2>2, <2>3
<1> HIDE DEF P
<1>3. P \subseteq Nat
  BY DEF P
<1>4. P = Nat
  BY <1>1, <1>2, <1>3, All
<1> QED BY <1>4 DEF P

LEMMA DrawingDraws ==
  ASSUME NEW d
  PROVE  Draws(Drawing(d, {}), d, Nodes)
  BY DrawingIs DEF Draws

LEMMA AsReadDraws == Draws(AsRead, Loading, Nodes)
  BY AsReadIs DEF Draws

LEMMA DrawsFewer ==
  ASSUME NEW g, NEW d, Draws(g, d, Nodes), NEW C, C \subseteq Nodes
  PROVE  Draws(g, d, C)
  BY DEF Draws

\* Two documents that agree on a part that holds the root look the same.
LEMMA ViewAlike ==
  ASSUME NEW C, C \subseteq Nodes, Root \in C, NEW d, NEW e, Alike(d, e, C)
  PROVE  View(d) = View(e)
<1>1. Draws(Drawing(d, {}), d, C) /\ Draws(Drawing(e, {}), e, C)
  BY DrawingDraws, DrawsFewer
<1>2. MaxNodes \in Nat
  BY IffAssumption DEF IffAssumption
<1>3. Drawing(d, {})[MaxNodes][Root] = Drawing(e, {})[MaxNodes][Root]
  BY <1>1, <1>2, DrawsAlike
<1> QED BY <1>3, ImageIs DEF View

\* A node that still has its slice is as it was read, and so is what is below it.
Clean(d) ==
  /\ d.verbatim \subseteq Nodes
  /\ Alike(d, Loading, d.verbatim)

LEMMA CleanIsWritten ==
  ASSUME NEW d, Clean(d), d.children \in [Nodes -> Seq(Nodes)], 1 \in Nodes
  PROVE  Written(d) = View(d)
<1> DEFINE S == d.verbatim
           w == Drawing(d, S)
           v == Drawing(d, {})
<1>1. S \subseteq Nodes /\ Alike(d, Loading, S)
  BY DEF Clean
<1>2. Draws(v, d, S) /\ Draws(AsRead, Loading, S) /\ Draws(v, d, Nodes)
  BY <1>1, DrawingDraws, AsReadDraws, DrawsFewer
<1>3. \A i \in Nat : \A n \in S : v[i][n] = AsRead[i][n]
  <2> HIDE DEF S, v
  <2> QED BY <1>1, <1>2, DrawsAlike
<1>4. \A i \in Nat : \A n \in Nodes :
        /\ n \in S => w[i][n] = AsRead[i][n]
        /\ n \notin S => w[i][n] = Drawn(d, n, i, w[i - 1])
  BY DrawingIs
<1>5. Alike(d, d, Nodes)
  BY DEF Alike
<1> HIDE DEF S, w, v
<1> DEFINE P == {i \in Nat : \A n \in Nodes : w[i][n] = v[i][n]}
<1>6. 0 \in P
  <2> SUFFICES ASSUME NEW n \in Nodes, n \notin S PROVE w[0][n] = v[0][n]
    BY <1>3, <1>4
  <2>1. w[0][n] = Drawn(d, n, 0, w[0 - 1]) /\ v[0][n] = Drawn(d, n, 0, v[0 - 1])
    BY <1>2, <1>4 DEF Draws
  <2> QED BY <2>1 DEF Drawn
<1>7. ASSUME NEW i \in P PROVE i + 1 \in P
  <2>0. i \in Nat /\ i + 1 \in Nat /\ (i + 1) - 1 = i /\ \A m \in Nodes : w[i][m] = v[i][m]
    OBVIOUS
  <2> SUFFICES ASSUME NEW n \in Nodes, n \notin S PROVE w[i + 1][n] = v[i + 1][n]
    BY <1>3, <1>4, <2>0
  <2>1. w[i + 1][n] = Drawn(d, n, i + 1, w[i]) /\ v[i + 1][n] = Drawn(d, n, i + 1, v[i])
    BY <1>2, <1>4, <2>0 DEF Draws
  <2>2. Drawn(d, n, i + 1, w[i]) = Drawn(d, n, i + 1, v[i])
    BY <1>5, <2>0, DrawnAlike
  <2> QED BY <2>1, <2>2
<1> HIDE DEF P
<1>8. P \subseteq Nat
  BY DEF P
<1>9. P = Nat
  BY <1>6, <1>7, <1>8, All
<1>10. w[MaxNodes][Root] = v[MaxNodes][Root]
  BY <1>9, IffAssumption DEF P, IffAssumption, Root
<1> QED BY <1>10, ImageIs DEF View, Written, w, v, S

-----------------------------------------------------------------------------
(***************************************************************************)
(* Parents and children.                                                   *)
(***************************************************************************)
LEMMA RemoveExactly ==
  ASSUME NEW S, NEW s \in Seq(S), NEW i \in DOMAIN s, Once(s)
  PROVE  /\ RemoveAt(s, i) \in Seq(S) /\ Once(RemoveAt(s, i))
         /\ ToSet(RemoveAt(s, i)) = ToSet(s) \ {s[i]}
<1>1. i \in 1..Len(s) /\ s[i] \in S /\ Len(s) \in Nat
  BY LenProperties, ElementOfSeq
<1>2. RemoveAt(s, i) \in Seq(S) /\ Len(RemoveAt(s, i)) = Len(s) - 1
  BY <1>1, RemoveOne
<1>3. ToSet(RemoveAt(s, i)) \subseteq ToSet(s) /\ Once(RemoveAt(s, i)) /\ s[i] \notin ToSet(RemoveAt(s, i))
  BY <1>1, RemoveKeepsOnce
<1>4. InsertAt(RemoveAt(s, i), i, s[i]) = s
  BY <1>1, OutAgain
<1> DEFINE r == RemoveAt(s, i)
<1>5. r \in Seq(S) /\ i \in 1..(Len(r) + 1) /\ s[i] \in S
  BY <1>1, <1>2
<1>6. ToSet(InsertAt(r, i, s[i])) = ToSet(r) \cup {s[i]}
  <2> HIDE DEF r
  <2> QED BY <1>5, InsertKeepsOnce
<1>7. ToSet(s) = ToSet(r) \cup {s[i]}
  BY <1>4, <1>6
<1> HIDE DEF r
<1>8. ToSet(r) = ToSet(s) \ {s[i]}
  BY <1>3, <1>7 DEF r
<1> QED BY <1>2, <1>3, <1>8 DEF r

LEMMA AppendExactly ==
  ASSUME NEW S, NEW s \in Seq(S), NEW e \in S
  PROVE  /\ Append(s, e) \in Seq(S) /\ ToSet(Append(s, e)) = ToSet(s) \cup {e}
         /\ Once(s) /\ e \notin ToSet(s) => Once(Append(s, e))
<1> DEFINE n == Len(s)
           t == Append(s, e)
<1>1. /\ n \in Nat /\ DOMAIN s = 1..n /\ t \in Seq(S) /\ DOMAIN t = 1..n + 1
      /\ t[n + 1] = e /\ \A i \in 1..n : t[i] = s[i]
  BY AppendProperties, LenProperties
<1> HIDE DEF t, n
<1>2. ToSet(t) = ToSet(s) \cup {e}
  <2>1. ASSUME NEW x \in ToSet(t) PROVE x \in ToSet(s) \cup {e}
    <3>1. PICK i \in 1..n + 1 : t[i] = x
      BY <1>1 DEF ToSet
    <3>2. i = n + 1 \/ i \in 1..n
      BY <1>1
    <3> QED BY <1>1, <3>1, <3>2 DEF ToSet
  <2>2. ASSUME NEW x \in ToSet(s) PROVE x \in ToSet(t)
    <3>1. PICK i \in 1..n : s[i] = x
      BY <1>1 DEF ToSet
    <3>2. i \in 1..n + 1 /\ t[i] = x
      BY <1>1, <3>1
    <3> QED BY <1>1, <3>2 DEF ToSet
  <2>3. e \in ToSet(t)
    <3>1. n + 1 \in 1..n + 1
      BY <1>1
    <3> QED BY <1>1, <3>1 DEF ToSet
  <2> QED BY <2>1, <2>2, <2>3
<1>3. ASSUME Once(s), e \notin ToSet(s) PROVE Once(t)
  <2> SUFFICES ASSUME NEW i \in 1..n + 1, NEW j \in 1..n + 1, t[i] = t[j] PROVE i = j
    BY <1>1 DEF Once
  <2>1. \A k \in 1..n : s[k] # e
    BY <1>1, <1>3 DEF ToSet
  <2>2. (i = n + 1 \/ i \in 1..n) /\ (j = n + 1 \/ j \in 1..n)
    BY <1>1
  <2> QED BY <1>1, <1>3, <2>1, <2>2 DEF Once
<1> QED BY <1>1, <1>2, <1>3 DEF t

\* Parents and children agree and a node has one place.
Fits(ch, pa) ==
  /\ \A p, n \in Nodes : n \in ToSet(ch[p]) <=> pa[n] = p
  /\ \A p \in Nodes : Once(ch[p])

LEMMA FitsWithout ==
  ASSUME NEW ch \in [Nodes -> Seq(Nodes)], NEW pa \in [Nodes -> Nodes \cup {Nowhere}], Fits(ch, pa),
         NEW p \in Nodes, NEW n \in ToSet(ch[p]), n \in Nodes,
         NEW s, ToSet(s) = ToSet(ch[p]) \ {n}, Once(s)
  PROVE  Fits([ch EXCEPT ![p] = s], [pa EXCEPT ![n] = Nowhere])
<1> DEFINE c == [ch EXCEPT ![p] = s]
           q == [pa EXCEPT ![n] = Nowhere]
<1>1. Nowhere \notin Nodes
  BY DEF Nowhere, Nodes
<1>2. /\ c[p] = s /\ \A m \in Nodes : m # p => c[m] = ch[m]
      /\ q[n] = Nowhere /\ \A m \in Nodes : m # n => q[m] = pa[m]
      /\ pa[n] = p
  BY DEF Fits
<1> HIDE DEF c, q
<1>3. ASSUME NEW a \in Nodes, NEW m \in Nodes PROVE m \in ToSet(c[a]) <=> q[m] = a
  <2>1. m \in ToSet(ch[a]) <=> pa[m] = a
    BY DEF Fits
  <2>2. CASE m = n
    <3>1. CASE a = p
      BY <1>1, <1>2, <2>1, <2>2, <3>1
    <3>2. CASE a # p
      BY <1>1, <1>2, <2>1, <2>2, <3>2
    <3> QED BY <3>1, <3>2
  <2>3. CASE m # n
    <3>1. q[m] = pa[m]
      BY <1>2, <2>3
    <3>2. CASE a = p
      <4>1. c[a] = s
        BY <1>2, <3>2
      <4>2. m \in ToSet(s) <=> m \in ToSet(ch[a])
        BY <2>3, <3>2
      <4> QED BY <2>1, <3>1, <4>1, <4>2
    <3>3. CASE a # p
      BY <1>2, <2>1, <3>1, <3>3
    <3> QED BY <3>2, <3>3
  <2> QED BY <2>2, <2>3
<1>4. ASSUME NEW a \in Nodes PROVE Once(c[a])
  BY <1>2 DEF Fits
<1> QED BY <1>3, <1>4 DEF Fits, c, q

LEMMA FitsWith ==
  ASSUME NEW ch \in [Nodes -> Seq(Nodes)], NEW pa \in [Nodes -> Nodes \cup {Nowhere}], Fits(ch, pa),
         NEW p \in Nodes, NEW n \in Nodes, pa[n] = Nowhere,
         NEW s, ToSet(s) = ToSet(ch[p]) \cup {n}, Once(s)
  PROVE  Fits([ch EXCEPT ![p] = s], [pa EXCEPT ![n] = p])
<1> DEFINE c == [ch EXCEPT ![p] = s]
           q == [pa EXCEPT ![n] = p]
<1>1. Nowhere \notin Nodes
  BY DEF Nowhere, Nodes
<1>2. /\ c[p] = s /\ \A m \in Nodes : m # p => c[m] = ch[m]
      /\ q[n] = p /\ \A m \in Nodes : m # n => q[m] = pa[m]
  OBVIOUS
<1> HIDE DEF c, q
<1>3. ASSUME NEW a \in Nodes, NEW m \in Nodes PROVE m \in ToSet(c[a]) <=> q[m] = a
  <2>1. m \in ToSet(ch[a]) <=> pa[m] = a
    BY DEF Fits
  <2>2. CASE m = n
    <3>1. CASE a = p
      BY <1>1, <1>2, <2>1, <2>2, <3>1
    <3>2. CASE a # p
      BY <1>1, <1>2, <2>1, <2>2, <3>2
    <3> QED BY <3>1, <3>2
  <2>3. CASE m # n
    <3>1. q[m] = pa[m]
      BY <1>2, <2>3
    <3>2. CASE a = p
      <4>1. c[a] = s
        BY <1>2, <3>2
      <4>2. m \in ToSet(s) <=> m \in ToSet(ch[a])
        BY <2>3, <3>2
      <4> QED BY <2>1, <3>1, <4>1, <4>2
    <3>3. CASE a # p
      BY <1>2, <2>1, <3>1, <3>3
    <3> QED BY <3>2, <3>3
  <2> QED BY <2>2, <2>3
<1>4. ASSUME NEW a \in Nodes PROVE Once(c[a])
  BY <1>2 DEF Fits
<1> QED BY <1>3, <1>4 DEF Fits, c, q

LEMMA FitsSame ==
  ASSUME NEW ch \in [Nodes -> Seq(Nodes)], NEW pa, Fits(ch, pa),
         NEW p \in Nodes, NEW s, ToSet(s) = ToSet(ch[p]), Once(s)
  PROVE  Fits([ch EXCEPT ![p] = s], pa)
<1> DEFINE c == [ch EXCEPT ![p] = s]
<1>2. c[p] = s /\ \A m \in Nodes : m # p => c[m] = ch[m]
  OBVIOUS
<1> HIDE DEF c
<1> QED BY <1>2 DEF Fits, c

-----------------------------------------------------------------------------
(***************************************************************************)
(* Documents.                                                              *)
(***************************************************************************)
Documents ==
  [children : [Nodes -> Seq(Nodes)], parent : [Nodes -> Nodes \cup {Nowhere}],
   tag : [Nodes -> Labels], body : [Nodes -> Labels],
   containers : SUBSET Nodes, verbatim : SUBSET Nodes, fresh : 1..(MaxNodes + 1)]

\* A document as the code can have it: a tree, with nothing yet where the next objects
\* will be.
Sound(d) ==
  /\ d \in Documents
  /\ Fits(d.children, d.parent)
  /\ \A n \in Nodes : n >= d.fresh => d.children[n] = <<>> /\ d.parent[n] = Nowhere /\ n \notin d.verbatim

\* Same tree.
SameTree(d, e) ==
  /\ d.children = e.children /\ d.parent = e.parent /\ d.fresh = e.fresh
SameText(d, e) == d.tag = e.tag /\ d.body = e.body

LEMMA TouchFacts ==
  ASSUME NEW d \in Documents, NEW n \in Nodes
  PROVE  /\ Touch(d, n) \in Documents /\ SameTree(Touch(d, n), d) /\ SameText(Touch(d, n), d)
         /\ Touch(d, n).containers = d.containers
         /\ Touch(d, n).verbatim = d.verbatim \ Up(d, n)
  BY DEF Touch, Documents, SameTree, SameText

LEMMA TouchSound ==
  ASSUME NEW d, Sound(d), NEW n \in Nodes
  PROVE  Sound(Touch(d, n))
<1> DEFINE e == Touch(d, n)
<1>1. d \in Documents
  BY DEF Sound
<1>2. e \in Documents /\ SameTree(e, d) /\ e.verbatim \subseteq d.verbatim
  BY <1>1, TouchFacts
<1> HIDE DEF e
<1> QED BY <1>2 DEF Sound, SameTree, e

\* Only p may look different: what is below it has been rearranged.
CleanBut(d, p) ==
  \A n \in d.verbatim \ {p} :
     /\ d.tag[n] = Loading.tag[n] /\ d.body[n] = Loading.body[n]
     /\ d.children[n] = Loading.children[n]
     /\ \A i \in DOMAIN d.children[n] : d.children[n][i] \in d.verbatim

LEMMA CleanIs ==
  ASSUME NEW d \in Documents
  PROVE  Clean(d) <=>
           \A n \in d.verbatim :
             /\ d.tag[n] = Loading.tag[n] /\ d.body[n] = Loading.body[n]
             /\ d.children[n] = Loading.children[n]
             /\ \A i \in DOMAIN d.children[n] : d.children[n][i] \in d.verbatim
<1>1. d.verbatim \subseteq Nodes /\ \A n \in d.verbatim : d.children[n] \in Seq(Nodes)
  BY DEF Documents
<1>2. ASSUME NEW s \in Seq(Nodes), NEW V
      PROVE  s \in Seq(V) <=> \A i \in DOMAIN s : s[i] \in V
  <2>1. DOMAIN s = 1..Len(s) /\ Len(s) \in Nat
    BY LenProperties
  <2>2. ASSUME \A i \in DOMAIN s : s[i] \in V PROVE s \in Seq(V)
    <3>1. s \in [1..Len(s) -> V]
      BY <2>1, <2>2
    <3> QED BY <2>1, <3>1, FunctionIsSeq
  <2>3. ASSUME s \in Seq(V), NEW i \in DOMAIN s PROVE s[i] \in V
    BY <2>1, <2>3, ElementOfSeq
  <2> QED BY <2>2, <2>3
<1>3. ASSUME NEW n \in d.verbatim
      PROVE d.children[n] \in Seq(d.verbatim) <=> \A i \in DOMAIN d.children[n] : d.children[n][i] \in d.verbatim
  BY <1>1, <1>2
<1> QED BY <1>1, <1>3 DEF Clean, Alike

\* Forgetting the slices of p and of everything above it makes a document clean again.
LEMMA TouchCleans ==
  ASSUME NEW d, Sound(d), NEW p \in Nodes, CleanBut(d, p)
  PROVE  Clean(Touch(d, p))
<1> DEFINE e == Touch(d, p)
           U == Up(d, p)
<1>1. d \in Documents
  BY DEF Sound
<1>2. e \in Documents /\ SameTree(e, d) /\ SameText(e, d) /\ e.verbatim = d.verbatim \ U
  BY <1>1, TouchFacts
<1>3. p \in U /\ \A m \in U : m \in Nodes /\ (d.parent[m] # Nowhere => d.parent[m] \in U)
  <2>1. Reached(U, p, Above(d))
    BY <1>1, UpFacts DEF Documents
  <2>2. p \in U /\ U \subseteq Nodes /\ \A m \in U : Above(d)[m] \subseteq U
    BY <2>1 DEF Reached, Closed
  <2> HIDE DEF U
  <2> QED BY <2>2 DEF Above
<1> HIDE DEF e, U
<1>4. ASSUME NEW n \in e.verbatim, NEW i \in DOMAIN d.children[n]
      PROVE  d.children[n][i] \in e.verbatim
  <2>1. n \in d.verbatim \ {p} /\ n \in Nodes /\ n \notin U
    BY <1>1, <1>2, <1>3 DEF Documents
  <2>2. d.children[n] \in Seq(Nodes)
    BY <1>1, <2>1 DEF Documents
  <2>3. d.children[n][i] \in Nodes /\ d.children[n][i] \in ToSet(d.children[n])
    BY <2>2, LenProperties, ElementOfSeq DEF ToSet
  <2>4. d.parent[d.children[n][i]] = n
    BY <2>1, <2>3 DEF Sound, Fits
  <2>5. n # Nowhere
    BY <2>1 DEF Nowhere, Nodes
  <2>6. d.children[n][i] \notin U
    BY <1>3, <2>1, <2>4, <2>5
  <2> QED BY <1>2, <2>1, <2>6 DEF CleanBut
<1>5. \A n \in e.verbatim :
             /\ e.tag[n] = Loading.tag[n] /\ e.body[n] = Loading.body[n]
             /\ e.children[n] = Loading.children[n]
             /\ \A i \in DOMAIN e.children[n] : e.children[n][i] \in e.verbatim
  BY <1>2, <1>3, <1>4 DEF CleanBut, SameTree, SameText
<1> QED BY <1>2, <1>5, CleanIs DEF e

\* What an operation that touches p makes of d: e, without the slices that are stale.
Outcome(r, e, d) ==
  /\ Sound(r) /\ (Clean(d) => Clean(r))
  /\ SameTree(r, e) /\ SameText(r, e) /\ r.containers = e.containers

\* e differs from d in p and in nodes that were not read from the file.
NearlySame(d, e, p) ==
  /\ e.verbatim = d.verbatim
  /\ \A n \in d.verbatim \ {p} : e.tag[n] = d.tag[n] /\ e.body[n] = d.body[n] /\ e.children[n] = d.children[n]

LEMMA TouchOutcome ==
  ASSUME NEW d \in Documents, NEW e, Sound(e), NEW p \in Nodes, NearlySame(d, e, p)
  PROVE  Outcome(Touch(e, p), e, d)
<1>1. e \in Documents
  BY DEF Sound
<1>2. Sound(Touch(e, p))
  BY TouchSound
<1>3. ASSUME Clean(d) PROVE Clean(Touch(e, p))
  <2>1. \A n \in d.verbatim :
             /\ d.tag[n] = Loading.tag[n] /\ d.body[n] = Loading.body[n]
             /\ d.children[n] = Loading.children[n]
             /\ \A i \in DOMAIN d.children[n] : d.children[n][i] \in d.verbatim
    BY <1>3, CleanIs
  <2>2. CleanBut(e, p)
    BY <2>1 DEF CleanBut, NearlySame
  <2> QED BY <2>2, TouchCleans
<1> QED BY <1>1, <1>2, <1>3, TouchFacts DEF Outcome

LEMMA SameOutcome ==
  ASSUME NEW d, Sound(d)
  PROVE  Outcome(d, d, d)
  BY DEF Outcome, SameTree, SameText

LEMMA PayloadFacts ==
  ASSUME NEW d, Sound(d), NEW n \in Nodes, NEW label \in Labels
  PROVE  Outcome(SetPayload(d, n, label), [d EXCEPT !.body[n] = label], d)
<1> DEFINE e == [d EXCEPT !.body[n] = label]
<1>1. d \in Documents
  BY DEF Sound
<1>2. /\ e \in Documents /\ SameTree(d, e) /\ e.verbatim = d.verbatim /\ e.tag = d.tag
      /\ e.body = [d.body EXCEPT ![n] = label]
  BY <1>1 DEF Documents, SameTree
<1>3. SetPayload(d, n, label) = Touch(e, n)
  BY DEF SetPayload
<1> HIDE DEF e
<1>4. Sound(e)
  BY <1>2 DEF Sound, SameTree
<1>5. NearlySame(d, e, n)
  BY <1>1, <1>2 DEF NearlySame, SameTree, Documents
<1>6. Outcome(Touch(e, n), e, d)
  BY <1>1, <1>4, <1>5, TouchOutcome
<1> QED BY <1>3, <1>6 DEF e

LEMMA SubTypeFacts ==
  ASSUME NEW d, Sound(d), NEW n \in Nodes, NEW label \in Labels
  PROVE  Outcome(SetSubType(d, n, label), [d EXCEPT !.body[n] = label], d)
<1> DEFINE e == [d EXCEPT !.body[n] = label]
<1>1. CASE d.body[n] = label
  <2>1. d \in Documents
    BY DEF Sound
  <2>2. d.body \in [Nodes -> Labels]
    BY <2>1 DEF Documents
  <2>3. [d.body EXCEPT ![n] = label] = d.body
    BY <1>1, <2>2
  <2>4. e.body = [d.body EXCEPT ![n] = label] /\ e.tag = d.tag /\ SameTree(d, e) /\ e.containers = d.containers
    BY <2>1 DEF Documents, SameTree
  <2>5. SetSubType(d, n, label) = d
    BY <1>1 DEF SetSubType
  <2> HIDE DEF e
  <2>6. Outcome(d, e, d)
    BY <2>3, <2>4 DEF Outcome, SameText
  <2> QED BY <2>5, <2>6 DEF e
<1>2. CASE d.body[n] # label
  BY <1>2, PayloadFacts DEF SetSubType, SetPayload
<1> QED BY <1>1, <1>2

LEMMA TagFacts ==
  ASSUME NEW d, Sound(d), NEW n \in Nodes, NEW label \in Labels
  PROVE  Outcome(SetTag(d, n, label), [d EXCEPT !.tag[n] = label], d)
<1> DEFINE e == [d EXCEPT !.tag[n] = label]
<1>0. d \in Documents
  BY DEF Sound
<1>1. CASE d.tag[n] = label
  <2>2. d.tag \in [Nodes -> Labels]
    BY <1>0 DEF Documents
  <2>3. [d.tag EXCEPT ![n] = label] = d.tag
    BY <1>1, <2>2
  <2>4. e.tag = [d.tag EXCEPT ![n] = label] /\ e.body = d.body /\ SameTree(d, e) /\ e.containers = d.containers
    BY <1>0 DEF Documents, SameTree
  <2>5. SetTag(d, n, label) = d
    BY <1>1 DEF SetTag
  <2> HIDE DEF e
  <2>6. Outcome(d, e, d)
    BY <2>3, <2>4 DEF Outcome, SameText
  <2> QED BY <2>5, <2>6 DEF e
<1>2. CASE d.tag[n] # label
  <2>2. /\ e \in Documents /\ SameTree(d, e) /\ e.verbatim = d.verbatim /\ e.body = d.body
        /\ e.tag = [d.tag EXCEPT ![n] = label]
    BY <1>0 DEF Documents, SameTree
  <2>3. SetTag(d, n, label) = Touch(e, n)
    BY <1>2 DEF SetTag
  <2> HIDE DEF e
  <2>4. Sound(e)
    BY <2>2 DEF Sound, SameTree
  <2>5. NearlySame(d, e, n)
    BY <1>0, <2>2 DEF NearlySame, SameTree, Documents
  <2>6. Outcome(Touch(e, n), e, d)
    BY <1>0, <2>4, <2>5, TouchOutcome
  <2> QED BY <2>3, <2>6 DEF e
<1> QED BY <1>1, <1>2

-----------------------------------------------------------------------------
LEMMA IndexFacts ==
  ASSUME NEW d, Sound(d), NEW p \in Nodes, NEW n \in Nodes
  PROVE  /\ n \notin ToSet(d.children[p]) => IndexIn(d, p, n) = 0
         /\ n \in ToSet(d.children[p]) =>
              IndexIn(d, p, n) \in DOMAIN d.children[p] /\ d.children[p][IndexIn(d, p, n)] = n
         /\ \A i \in DOMAIN d.children[p] : d.children[p][i] = n => IndexIn(d, p, n) = i
<1>1. n \notin ToSet(d.children[p]) => IndexIn(d, p, n) = 0
  BY DEF IndexIn
<1>2. ASSUME n \in ToSet(d.children[p])
      PROVE  IndexIn(d, p, n) \in DOMAIN d.children[p] /\ d.children[p][IndexIn(d, p, n)] = n
  <2>1. \E i \in DOMAIN d.children[p] : d.children[p][i] = n
    BY <1>2 DEF ToSet
  <2> QED BY <1>2, <2>1 DEF IndexIn
<1>3. Once(d.children[p])
  BY DEF Sound, Fits
<1>4. ASSUME NEW i \in DOMAIN d.children[p], d.children[p][i] = n PROVE IndexIn(d, p, n) = i
  <2>1. n \in ToSet(d.children[p])
    BY <1>4 DEF ToSet
  <2> QED BY <1>2, <1>3, <1>4, <2>1 DEF Once
<1> QED BY <1>1, <1>2, <1>4

\* Documents with the children of p and the parent of n replaced.
Rehung(d, p, s, n, q) == [d EXCEPT !.children[p] = s, !.parent[n] = q]

LEMMA RehungFacts ==
  ASSUME NEW d, Sound(d), NEW p \in Nodes, p < d.fresh, NEW n \in Nodes, n < d.fresh,
         NEW s \in Seq(Nodes), NEW q \in Nodes \cup {Nowhere},
         Fits([d.children EXCEPT ![p] = s], [d.parent EXCEPT ![n] = q])
  PROVE  Outcome(Touch(Rehung(d, p, s, n, q), p), Rehung(d, p, s, n, q), d)
<1> DEFINE e == Rehung(d, p, s, n, q)
<1>1. d \in Documents
  BY DEF Sound
<1>2. /\ e \in Documents /\ SameText(d, e) /\ e.verbatim = d.verbatim /\ e.fresh = d.fresh
      /\ e.children = [d.children EXCEPT ![p] = s] /\ e.parent = [d.parent EXCEPT ![n] = q]
  BY <1>1 DEF Documents, SameText, Rehung
<1> HIDE DEF e
<1>3. \A m \in Nodes : m # p => e.children[m] = d.children[m]
  BY <1>1, <1>2 DEF Documents
<1>4. \A m \in Nodes : m # n => e.parent[m] = d.parent[m]
  BY <1>1, <1>2 DEF Documents
<1>5. \A m \in Nodes : m >= d.fresh => m # p /\ m # n
  BY <1>1 DEF Documents, Nodes
<1>6. Sound(e)
  BY <1>2, <1>3, <1>4, <1>5 DEF Sound
<1>7. NearlySame(d, e, p)
  BY <1>1, <1>2, <1>3 DEF NearlySame, SameText, Documents
<1>8. Outcome(Touch(e, p), e, d)
  BY <1>1, <1>6, <1>7, TouchOutcome
<1> QED BY <1>8 DEF e

\* A node that is somewhere is among the objects that exist, and so is its parent.
LEMMA PlacedFacts ==
  ASSUME NEW d, Sound(d), NEW p \in Nodes, NEW n \in Nodes, n \in ToSet(d.children[p])
  PROVE  p < d.fresh /\ n < d.fresh /\ d.parent[n] = p
<1>1. d.parent[n] = p /\ p # Nowhere
  BY DEF Sound, Fits, Nowhere, Nodes
<1>2. d.fresh \in Int /\ p \in Int /\ n \in Int
  BY DEF Sound, Documents, Nodes
<1>3. ~(n >= d.fresh)
  BY <1>1 DEF Sound
<1>4. ToSet(<<>>) = {}
  BY DEF ToSet
<1>5. ~(p >= d.fresh)
  BY <1>4 DEF Sound
<1> QED BY <1>1, <1>2, <1>3, <1>5

LEMMA DetachFacts ==
  ASSUME NEW d, Sound(d), NEW p \in Nodes, NEW n \in Nodes
  PROVE  /\ n \notin ToSet(d.children[p]) => Detach(d, p, n) = d
         /\ n \in ToSet(d.children[p]) =>
              LET e == Rehung(d, p, RemoveAt(d.children[p], IndexIn(d, p, n)), n, Nowhere)
              IN Outcome(Detach(d, p, n), e, d)
<1>1. n \notin ToSet(d.children[p]) => Detach(d, p, n) = d
  BY DEF Detach
<1>2. ASSUME n \in ToSet(d.children[p])
      PROVE  LET e == Rehung(d, p, RemoveAt(d.children[p], IndexIn(d, p, n)), n, Nowhere)
             IN Outcome(Detach(d, p, n), e, d)
  <2> DEFINE i == IndexIn(d, p, n)
             s == d.children[p]
             e == Rehung(d, p, RemoveAt(s, i), n, Nowhere)
  <2>1. i \in DOMAIN s /\ s[i] = n
    BY <1>2, IndexFacts
  <2>2. d \in Documents /\ s \in Seq(Nodes) /\ Once(s)
    BY DEF Sound, Documents, Fits
  <2>3. Detach(d, p, n) = Touch(e, p)
    BY <1>2 DEF Detach, Rehung
  <2> HIDE DEF i
  <2>4. RemoveAt(s, i) \in Seq(Nodes) /\ Once(RemoveAt(s, i)) /\ ToSet(RemoveAt(s, i)) = ToSet(s) \ {n}
    BY <2>1, <2>2, RemoveExactly
  <2>5. p < d.fresh /\ n < d.fresh
    BY <1>2, PlacedFacts
  <2> DEFINE t == RemoveAt(s, i)
  <2>6. Fits([d.children EXCEPT ![p] = t], [d.parent EXCEPT ![n] = Nowhere])
    <3> DEFINE ch == d.children
               pa == d.parent
    <3>1. ch \in [Nodes -> Seq(Nodes)] /\ pa \in [Nodes -> Nodes \cup {Nowhere}] /\ Fits(ch, pa)
      BY DEF Sound, Documents
    <3>2. n \in ToSet(ch[p]) /\ ToSet(t) = ToSet(ch[p]) \ {n} /\ Once(t)
      BY <1>2, <2>4
    <3> HIDE DEF ch, pa, t
    <3>3. Fits([ch EXCEPT ![p] = t], [pa EXCEPT ![n] = Nowhere])
      BY <3>1, <3>2, FitsWithout
    <3> QED BY <3>3 DEF ch, pa
  <2> HIDE DEF t, s
  <2>7. Outcome(Touch(Rehung(d, p, t, n, Nowhere), p), Rehung(d, p, t, n, Nowhere), d)
    BY <2>4, <2>5, <2>6, RehungFacts DEF t
  <2> QED BY <2>3, <2>7 DEF t, i, s
<1> QED BY <1>1, <1>2

LEMMA InsertFacts ==
  ASSUME NEW d, Sound(d), NEW p \in Nodes, p < d.fresh, NEW n \in Nodes, n < d.fresh,
         d.parent[n] = Nowhere, NEW i \in 1..(Len(d.children[p]) + 1)
  PROVE  Outcome(Insert(d, p, i, n), Rehung(d, p, InsertAt(d.children[p], i, n), n, p), d)
<1> DEFINE s == d.children[p]
           ch == d.children
           pa == d.parent
           t == InsertAt(s, i, n)
<1>1. ch \in [Nodes -> Seq(Nodes)] /\ pa \in [Nodes -> Nodes \cup {Nowhere}] /\ Fits(ch, pa) /\ pa[n] = Nowhere
  BY DEF Sound, Documents
<1>2. s \in Seq(Nodes) /\ Once(s) /\ n \notin ToSet(s)
  <2>1. pa[n] # p
    BY <1>1 DEF Nowhere, Nodes
  <2>2. n \in ToSet(ch[p]) <=> pa[n] = p
    BY <1>1 DEF Fits
  <2>3. Once(ch[p]) /\ ch[p] \in Seq(Nodes)
    BY <1>1 DEF Fits
  <2> QED BY <2>1, <2>2, <2>3
<1>3. Len(t) = Len(s) + 1 /\ t \in Seq(Nodes)
  <2> HIDE DEF s
  <2> QED BY <1>2, InsertOne DEF HasOneMore, s
<1>4. ToSet(t) = ToSet(s) \cup {n} /\ Once(t)
  <2> HIDE DEF s
  <2> QED BY <1>2, InsertKeepsOnce DEF s
<1>5. ch[p] = s
  OBVIOUS
<1>6. Insert(d, p, i, n) = Touch(Rehung(d, p, t, n, p), p)
  BY DEF Insert, Rehung
<1> HIDE DEF t, s, ch, pa
<1>7. Fits([ch EXCEPT ![p] = t], [pa EXCEPT ![n] = p])
  BY <1>1, <1>4, <1>5, FitsWith
<1>8. Outcome(Touch(Rehung(d, p, t, n, p), p), Rehung(d, p, t, n, p), d)
  BY <1>3, <1>7, RehungFacts DEF ch, pa
<1> QED BY <1>6, <1>8 DEF t, s

\* The children of p in another order.
Turned(d, p, i, j) == [d EXCEPT !.children[p] = Swapped(d.children[p], i, j)]

LEMMA SwapDone ==
  ASSUME NEW d, Sound(d), NEW p \in Nodes, NEW i \in DOMAIN d.children[p], NEW j \in DOMAIN d.children[p]
  PROVE  Outcome(Swap(d, p, i, j), Turned(d, p, i, j), d)
<1> DEFINE s == d.children[p]
           ch == d.children
           pa == d.parent
           t == Swapped(s, i, j)
           e == Turned(d, p, i, j)
<1>0. d \in Documents
  BY DEF Sound
<1>1. ch \in [Nodes -> Seq(Nodes)] /\ Fits(ch, pa)
  BY <1>0 DEF Sound, Documents
<1>2. s \in Seq(Nodes) /\ Once(s)
  BY <1>1 DEF Fits
<1>3. t \in Seq(Nodes) /\ ToSet(t) = ToSet(s) /\ Once(t)
  <2> HIDE DEF s
  <2> QED BY <1>2, SwapFacts DEF s
<1>4. Swap(d, p, i, j) = Touch(e, p)
  BY DEF Swap, Turned, Swapped
<1>5. e.children = [ch EXCEPT ![p] = t] /\ e.parent = d.parent /\ SameText(d, e) /\ e.verbatim = d.verbatim
      /\ e.fresh = d.fresh /\ e \in Documents
  BY <1>0, <1>3 DEF Turned, Documents, SameText
<1>6. ch[p] = s
  OBVIOUS
<1>7. p < d.fresh
  <2>1. s[i] \in Nodes /\ s[i] \in ToSet(s)
    <3> HIDE DEF s
    <3>1. DOMAIN s = 1..Len(s)
      BY <1>2, LenProperties
    <3>2. i \in DOMAIN s
      BY DEF s
    <3> QED BY <1>2, <3>1, <3>2, ElementOfSeq DEF ToSet
  <2> QED BY <2>1, PlacedFacts
<1> HIDE DEF t, s, e
<1>8. Fits([ch EXCEPT ![p] = t], pa)
  BY <1>1, <1>3, <1>6, FitsSame
<1>9. \A m \in Nodes : m # p => e.children[m] = d.children[m]
  BY <1>0, <1>5 DEF Documents
<1>10. \A m \in Nodes : m >= d.fresh => m # p
  BY <1>0, <1>7 DEF Documents, Nodes
<1>11. Sound(e)
  BY <1>5, <1>8, <1>9, <1>10 DEF Sound
<1>12. NearlySame(d, e, p)
  BY <1>0, <1>5, <1>9 DEF NearlySame, SameText, Documents
<1>13. Outcome(Touch(e, p), e, d)
  BY <1>0, <1>11, <1>12, TouchOutcome
<1> QED BY <1>4, <1>13 DEF e

\* r is d with a new last child m of p, and nothing else new but what is below it.
Grown(r, d, p, m) ==
  /\ Sound(r) /\ (Clean(d) => Clean(r))
  /\ m \in Nodes /\ d.fresh <= m /\ m < r.fresh
  /\ r.children[p] = Append(d.children[p], m)
  /\ \A n \in Nodes : n < d.fresh =>
       /\ n # p => r.children[n] = d.children[n]
       /\ r.parent[n] = d.parent[n] /\ r.tag[n] = d.tag[n] /\ r.body[n] = d.body[n]

\* Every node has a higher rank than its parent, so that nothing hangs below itself.
Ranked(d, rank) ==
  /\ rank \in [Nodes -> Nat]
  /\ \A n \in Nodes : d.parent[n] # Nowhere => rank[d.parent[n]] < rank[n]

\* Room to rank what is new without touching the ranks there are.
Rankable(r, d) ==
  \A rank : Ranked(d, rank) =>
    \E rank2 : Ranked(r, rank2) /\ \A n \in Nodes : n < d.fresh => rank2[n] = rank[n]

LEMMA EmptyOnce == ToSet(<<>>) = {} /\ Once(<<>>)
  BY DEF ToSet, Once

LEMMA AddNewGrows ==
  ASSUME NEW d, Sound(d), NEW p \in Nodes, p < d.fresh, d.fresh <= MaxNodes,
         NEW isContainer \in BOOLEAN, NEW label \in Labels
  PROVE  /\ Grown(AddNew(d, p, isContainer, label), d, p, d.fresh)
         /\ Rankable(AddNew(d, p, isContainer, label), d)
<1> DEFINE f == d.fresh
           ch == d.children
           pa == d.parent
           s == Append(ch[p], f)
           e == [d EXCEPT !.fresh = @ + 1,
                  !.children[p] = Append(@, d.fresh),
                  !.parent[d.fresh] = p,
                  !.tag[d.fresh] = label, !.body[d.fresh] = label,
                  !.containers = IF isContainer THEN @ \cup {d.fresh} ELSE @]
           r == AddNew(d, p, isContainer, label)
<1>0. d \in Documents /\ MaxNodes \in Nat /\ f \in Int
  BY NodesFinite DEF Sound, Documents
<1>1. f \in Nodes /\ f \in Nat /\ p # f /\ 1 <= f
  BY <1>0 DEF Documents, Nodes
<1>2. ch \in [Nodes -> Seq(Nodes)] /\ pa \in [Nodes -> Nodes \cup {Nowhere}] /\ Fits(ch, pa)
  BY <1>0 DEF Sound, Documents
<1>3. pa[f] = Nowhere /\ f \notin d.verbatim /\ ch[f] = <<>>
  BY <1>1 DEF Sound
<1>4. s \in Seq(Nodes) /\ ToSet(s) = ToSet(ch[p]) \cup {f} /\ Once(s)
  <2>1. ch[p] \in Seq(Nodes) /\ Once(ch[p])
    BY <1>2 DEF Fits
  <2>2. f \notin ToSet(ch[p])
    <3>1. pa[f] # p
      BY <1>3 DEF Nowhere, Nodes
    <3>2. f \in ToSet(ch[p]) <=> pa[f] = p
      BY <1>1, <1>2 DEF Fits
    <3> QED BY <3>1, <3>2
  <2> DEFINE q == ch[p]
  <2> HIDE DEF q, f
  <2>3. q \in Seq(Nodes) /\ f \in Nodes /\ Once(q) /\ f \notin ToSet(q)
    BY <1>1, <2>1, <2>2 DEF q
  <2>4. Append(q, f) \in Seq(Nodes) /\ ToSet(Append(q, f)) = ToSet(q) \cup {f} /\ Once(Append(q, f))
    BY <2>3, AppendExactly
  <2> QED BY <2>4 DEF q
<1>5. r = Touch(e, p)
  BY DEF AddNew
<1>6. /\ e.children = [ch EXCEPT ![p] = s] /\ e.parent = [pa EXCEPT ![f] = p]
      /\ e.tag = [d.tag EXCEPT ![f] = label] /\ e.body = [d.body EXCEPT ![f] = label]
      /\ e.verbatim = d.verbatim /\ e.fresh = f + 1
  BY <1>0 DEF Documents
<1>7. e \in Documents
  <2>1. (IF isContainer THEN d.containers \cup {f} ELSE d.containers) \subseteq Nodes
    BY <1>0, <1>1 DEF Documents
  <2>2. f + 1 \in 1..(MaxNodes + 1)
    BY <1>0, <1>1
  <2>3. [ch EXCEPT ![p] = s] \in [Nodes -> Seq(Nodes)] /\ [pa EXCEPT ![f] = p] \in [Nodes -> Nodes \cup {Nowhere}]
        /\ [d.tag EXCEPT ![f] = label] \in [Nodes -> Labels] /\ [d.body EXCEPT ![f] = label] \in [Nodes -> Labels]
        /\ d.verbatim \subseteq Nodes
    BY <1>0, <1>2, <1>4 DEF Documents
  <2> DEFINE c2 == [ch EXCEPT ![p] = s]
             p2 == [pa EXCEPT ![f] = p]
             t2 == [d.tag EXCEPT ![f] = label]
             b2 == [d.body EXCEPT ![f] = label]
             k2 == IF isContainer THEN d.containers \cup {f} ELSE d.containers
             f2 == f + 1
  <2>4. e = [d EXCEPT !.fresh = f2, !.children = c2, !.parent = p2, !.tag = t2, !.body = b2, !.containers = k2]
    BY <1>0 DEF Documents
  <2>5. /\ c2 \in [Nodes -> Seq(Nodes)] /\ p2 \in [Nodes -> Nodes \cup {Nowhere}]
        /\ t2 \in [Nodes -> Labels] /\ b2 \in [Nodes -> Labels] /\ k2 \in SUBSET Nodes
        /\ f2 \in 1..(MaxNodes + 1)
    BY <2>1, <2>2, <2>3
  <2> HIDE DEF e, s, f, c2, p2, t2, b2, k2, f2
  <2> QED BY <1>0, <2>4, <2>5 DEF Documents
<1> HIDE DEF e, r, s
<1>8. Fits([ch EXCEPT ![p] = s], [pa EXCEPT ![f] = p])
  <2> HIDE DEF ch, pa, f
  <2> QED BY <1>1, <1>2, <1>3, <1>4, FitsWith
<1>9. Sound(e)
  <2>1. ASSUME NEW n \in Nodes, n >= f + 1
        PROVE  e.children[n] = <<>> /\ e.parent[n] = Nowhere /\ n \notin e.verbatim
    <3>1. n # p /\ n # f /\ n >= d.fresh
      BY <1>0, <1>1, <2>1 DEF Nodes
    <3>2. e.children[n] = ch[n] /\ e.parent[n] = pa[n]
      BY <1>2, <1>6, <3>1
    <3> QED BY <1>6, <3>1, <3>2 DEF Sound
  <2> QED BY <1>6, <1>7, <1>8, <2>1 DEF Sound
<1>10. \A n \in Nodes : n < d.fresh =>
       /\ n # p => e.children[n] = d.children[n]
       /\ e.parent[n] = d.parent[n] /\ e.tag[n] = d.tag[n] /\ e.body[n] = d.body[n]
  <2> SUFFICES ASSUME NEW n \in Nodes, n < d.fresh
               PROVE  /\ n # p => e.children[n] = d.children[n]
                      /\ e.parent[n] = d.parent[n] /\ e.tag[n] = d.tag[n] /\ e.body[n] = d.body[n]
    OBVIOUS
  <2>1. n # f
    BY <1>1
  <2> QED BY <1>0, <1>6, <2>1 DEF Documents
<1>11. NearlySame(d, e, p)
  <2>1. \A n \in d.verbatim : n \in Nodes /\ n < d.fresh
    BY <1>0 DEF Sound, Documents, Nodes
  <2> QED BY <1>6, <1>10, <2>1 DEF NearlySame
<1>12. Outcome(r, e, d)
  BY <1>0, <1>5, <1>9, <1>11, TouchOutcome
<1>13. Grown(r, d, p, f)
  <2>1. r.children = e.children /\ r.parent = e.parent /\ r.fresh = f + 1 /\ r.tag = e.tag /\ r.body = e.body
    BY <1>6, <1>12 DEF Outcome, SameTree, SameText
  <2>2. e.children[p] = s
    BY <1>2, <1>6
  <2> QED BY <1>1, <1>10, <1>12, <2>1, <2>2 DEF Grown, Outcome, s
<1>14. Rankable(r, d)
  <2> SUFFICES ASSUME NEW rank, Ranked(d, rank)
               PROVE  \E rank2 : Ranked(r, rank2) /\ \A n \in Nodes : n < d.fresh => rank2[n] = rank[n]
    BY DEF Rankable
  <2> DEFINE rank2 == [rank EXCEPT ![f] = rank[p] + 1]
  <2>1. rank \in [Nodes -> Nat] /\ \A n \in Nodes : pa[n] # Nowhere => rank[pa[n]] < rank[n]
    BY DEF Ranked
  <2>2. rank2 \in [Nodes -> Nat] /\ rank2[f] = rank[p] + 1 /\ \A n \in Nodes : n # f => rank2[n] = rank[n]
    BY <1>1, <2>1
  <2> HIDE DEF rank2
  <2>3. r.parent[f] = p /\ \A n \in Nodes : n # f => r.parent[n] = pa[n]
    <3>1. r.parent = [pa EXCEPT ![f] = p]
      BY <1>6, <1>12 DEF Outcome, SameTree
    <3> QED BY <1>1, <1>2, <3>1
  <2>4. \A n \in Nodes : pa[n] # f
    <3>1. \A n \in Nodes : n \in ToSet(ch[f]) <=> pa[n] = f
      BY <1>1, <1>2 DEF Fits
    <3> QED BY <1>3, <3>1, EmptyOnce
  <2>5. ASSUME NEW n \in Nodes, r.parent[n] # Nowhere PROVE rank2[r.parent[n]] < rank2[n]
    <3>1. CASE n = f
      <4>1. rank[p] \in Nat /\ rank2[p] = rank[p]
        BY <1>1, <2>1, <2>2
      <4> QED BY <2>2, <2>3, <3>1, <4>1
    <3>2. CASE n # f
      <4>1. pa[n] \in Nodes /\ pa[n] # f
        BY <1>2, <2>3, <2>4, <2>5, <3>2
      <4> QED BY <2>1, <2>2, <2>3, <2>5, <3>2, <4>1
    <3> QED BY <3>1, <3>2
  <2>6. Ranked(r, rank2)
    BY <2>2, <2>5 DEF Ranked
  <2>7. \A n \in Nodes : n < d.fresh => rank2[n] = rank[n]
    BY <1>1, <2>2
  <2> QED BY <2>6, <2>7
<1> QED BY <1>13, <1>14 DEF r, f

-----------------------------------------------------------------------------
(***************************************************************************)
(* Duplicate.                                                              *)
(***************************************************************************)
\* A finite set as a sequence: each of its elements, once.
LEMMA SetInOrder ==
  ASSUME NEW S, IsFiniteSet(S)
  PROVE  /\ SetToSeq(S) \in Seq(S) /\ Len(SetToSeq(S)) = Cardinality(S) /\ Cardinality(S) \in Nat
         /\ \A x \in S : \E i \in 1..Cardinality(S) : SetToSeq(S)[i] = x
         /\ \A i, j \in 1..Cardinality(S) : SetToSeq(S)[i] = SetToSeq(S)[j] => i = j
<1> DEFINE n == Cardinality(S)
           f == SetToSeq(S)
<1>1. n \in Nat /\ ExistsBijection(1..n, S)
  BY FS_CardinalityType
<1>2. \E g \in [1..n -> S] : IsInjective(g)
  <2>1. PICK g \in Bijection(1..n, S) : TRUE
    BY <1>1 DEF ExistsBijection
  <2>2. g \in [1..n -> S] /\ \A a, b \in 1..n : g[a] = g[b] => a = b
    BY <2>1 DEF Bijection, Injection, IsInjective
  <2> QED BY <2>2 DEF IsInjective
<1>3. f \in [1..n -> S] /\ IsInjective(f)
  BY <1>2 DEF SetToSeq
<1> HIDE DEF f
<1>4. \A i, j \in 1..n : f[i] = f[j] => i = j
  BY <1>3 DEF IsInjective
<1>5. f \in Injection(1..n, S)
  BY <1>3, <1>4 DEF Injection, IsInjective
<1>6. Cardinality(1..n) = n /\ IsFiniteSet(1..n)
  <2>1. 1 \in Int /\ n \in Int
    BY <1>1
  <2>2. Cardinality(1..n) = IF 1 > n THEN 0 ELSE n - 1 + 1
    BY <2>1, FS_Interval
  <2>3. IsFiniteSet(1..n)
    BY <2>1, FS_Interval
  <2> HIDE DEF n
  <2> QED BY <1>1, <2>2, <2>3
<1>7. f \in Surjection(1..n, S)
  BY <1>5, <1>6, FS_Injection
<1>8. \A x \in S : \E i \in 1..n : f[i] = x
  BY <1>7 DEF Surjection
<1> HIDE DEF n
<1>9. f \in Seq(S) /\ Len(f) = n
  BY <1>1, <1>3, FunctionIsSeq
<1> QED BY <1>1, <1>4, <1>8, <1>9 DEF f, n

\* The parts of Duplicate: the new objects, what each is a copy of, and the copies.
Twins(d, n) == d.fresh..(d.fresh + Len(SetToSeq(Down(d, n))) - 1)
Source(d, n, m) == SetToSeq(Down(d, n))[m - d.fresh + 1]
Twin(d, n, m) == CHOOSE k \in Twins(d, n) : Source(d, n, k) = m
Copied(d, n) ==
  [d EXCEPT !.fresh = @ + Len(SetToSeq(Down(d, n))),
            !.children = [m \in Nodes |-> IF m \in Twins(d, n)
                     THEN [i \in DOMAIN @[Source(d, n, m)] |-> Twin(d, n, @[Source(d, n, m)][i])] ELSE @[m]],
            !.parent = [m \in Nodes |-> IF m \in Twins(d, n) \ {Twin(d, n, n)}
                     THEN Twin(d, n, @[Source(d, n, m)]) ELSE @[m]],
            !.tag = [m \in Nodes |-> IF m \in Twins(d, n) THEN @[Source(d, n, m)] ELSE @[m]],
            !.body = [m \in Nodes |-> IF m \in Twins(d, n) THEN @[Source(d, n, m)] ELSE @[m]],
            !.containers = @ \cup {m \in Twins(d, n) : Source(d, n, m) \in @}]
Hung(d, p, n) ==
  [Copied(d, n) EXCEPT !.children[p] = Append(@, Twin(d, n, n)), !.parent[Twin(d, n, n)] = p]

LEMMA DuplicateIs ==
  ASSUME NEW d, NEW p, NEW n
  PROVE  Duplicate(d, p, n) = Touch(Hung(d, p, n), p)
  BY DEF Duplicate, Hung, Copied, Twins, Source, Twin

\* Everything below n, n included.
LEMMA DownIs ==
  ASSUME NEW d, Sound(d), NEW n \in Nodes
  PROVE  /\ n \in Down(d, n) /\ Down(d, n) \subseteq Nodes
         /\ \A m \in Down(d, n) : \A x \in Nodes : d.parent[x] = m => x \in Down(d, n)
         /\ \A m \in Down(d, n) : d.children[m] \in Seq(Down(d, n))
         /\ \A S \in SUBSET Nodes :
              n \in S /\ (\A m \in S : \A x \in Nodes : d.parent[x] = m => x \in S) => Down(d, n) \subseteq S
<1> DEFINE D == Down(d, n)
<1>1. d.children \in [Nodes -> Seq(Nodes)] /\ Fits(d.children, d.parent)
  BY DEF Sound, Documents
<1>2. Reached(D, n, Under(d))
  BY <1>1, DownFacts
<1> HIDE DEF D
<1>3. n \in D /\ D \subseteq Nodes
  BY <1>2 DEF Reached
<1>4. \A m \in D : ToSet(d.children[m]) \subseteq D
  <2>1. \A m \in D : Under(d)[m] \subseteq D
    BY <1>2 DEF Reached, Closed
  <2> QED BY <1>3, <2>1 DEF Under
<1>5. \A m, x \in Nodes : x \in ToSet(d.children[m]) <=> d.parent[x] = m
  BY <1>1 DEF Fits
<1>6. ASSUME NEW m \in D PROVE d.children[m] \in Seq(D)
  <2> DEFINE s == d.children[m]
  <2>1. s \in Seq(Nodes) /\ ToSet(s) \subseteq D
    BY <1>1, <1>3, <1>4
  <2> HIDE DEF s
  <2>2. DOMAIN s = 1..Len(s) /\ Len(s) \in Nat
    BY <2>1, LenProperties
  <2>3. \A i \in 1..Len(s) : s[i] \in D
    BY <2>1, <2>2 DEF ToSet
  <2>4. s \in [1..Len(s) -> D]
    BY <2>1, <2>2, <2>3
  <2>5. s \in Seq(D)
    BY <2>2, <2>4, FunctionIsSeq
  <2> QED BY <2>5 DEF s
<1>7. ASSUME NEW S \in SUBSET Nodes, n \in S, \A m \in S : \A x \in Nodes : d.parent[x] = m => x \in S
      PROVE  D \subseteq S
  <2>1. ASSUME NEW m \in S PROVE ToSet(d.children[m]) \subseteq S
    <3>1. d.children[m] \in Seq(Nodes)
      BY <1>1
    <3>2. ToSet(d.children[m]) \subseteq Nodes
      BY <3>1, LenProperties, ElementOfSeq DEF ToSet
    <3> QED BY <1>5, <1>7, <3>2
  <2>2. Closed(S, Under(d))
    BY <2>1 DEF Closed, Under
  <2> QED BY <1>2, <1>7, <2>2 DEF Reached
<1>8. \A m \in D : \A x \in Nodes : d.parent[x] = m => x \in D
  BY <1>3, <1>4, <1>5
<1> QED BY <1>3, <1>6, <1>7, <1>8 DEF D

LEMMA DownRanks ==
  ASSUME NEW d, Sound(d), NEW n \in Nodes, NEW rank, Ranked(d, rank)
  PROVE  \A m \in Down(d, n) : rank[n] <= rank[m]
<1> DEFINE S == {m \in Nodes : rank[n] <= rank[m]}
<1>1. rank \in [Nodes -> Nat] /\ \A m \in Nodes : d.parent[m] # Nowhere => rank[d.parent[m]] < rank[m]
  BY DEF Ranked
<1>2. n \in S
  BY <1>1
<1>3. ASSUME NEW m \in S, NEW x \in Nodes, d.parent[x] = m PROVE x \in S
  <2>1. m \in Nodes /\ m # Nowhere /\ rank[n] <= rank[m]
    BY DEF Nodes, Nowhere
  <2>2. rank[m] < rank[x]
    BY <1>1, <1>3, <2>1
  <2> QED BY <1>1, <2>1, <2>2
<1>4. S \in SUBSET Nodes
  OBVIOUS
<1> HIDE DEF S
<1>5. Down(d, n) \subseteq S
  BY <1>2, <1>3, <1>4, DownIs
<1> QED BY <1>5 DEF S

LEMMA DownParents ==
  ASSUME NEW d, Sound(d), NEW n \in Nodes
  PROVE  \A m \in Down(d, n) : m = n \/ d.parent[m] \in Down(d, n)
<1> DEFINE D == Down(d, n)
           S == {m \in D : m = n \/ d.parent[m] \in D}
<1>1. n \in D /\ D \subseteq Nodes /\ \A m \in D : \A x \in Nodes : d.parent[x] = m => x \in D
  BY DownIs
<1> HIDE DEF D
<1>2. n \in S /\ S \in SUBSET Nodes
  BY <1>1
<1>3. ASSUME NEW m \in S, NEW x \in Nodes, d.parent[x] = m PROVE x \in S
  BY <1>1, <1>3
<1> HIDE DEF S
<1>4. D \subseteq S
  BY <1>2, <1>3, DownIs DEF D
<1> QED BY <1>4 DEF S, D

LEMMA TwinFacts ==
  ASSUME NEW d, Sound(d), NEW n \in Nodes, d.fresh + Cardinality(Down(d, n)) <= MaxNodes + 1
  PROVE  /\ Twins(d, n) \subseteq Nodes /\ Cardinality(Down(d, n)) \in Nat
         /\ Len(SetToSeq(Down(d, n))) = Cardinality(Down(d, n))
         /\ \A k \in Nodes : k \in Twins(d, n) <=> d.fresh <= k /\ k < d.fresh + Cardinality(Down(d, n))
         /\ \A k \in Twins(d, n) : Source(d, n, k) \in Down(d, n) /\ Twin(d, n, Source(d, n, k)) = k
         /\ \A m \in Down(d, n) : Twin(d, n, m) \in Twins(d, n) /\ Source(d, n, Twin(d, n, m)) = m
<1> DEFINE D == Down(d, n)
           q == SetToSeq(D)
           c == Cardinality(D)
           f == d.fresh
           T == Twins(d, n)
<1>1. D \subseteq Nodes /\ IsFiniteSet(D) /\ c \in Nat
  BY NodesFinite, DownIs, FS_Subset, FS_CardinalityType
<1>2. /\ q \in Seq(D) /\ Len(q) = c
      /\ \A x \in D : \E i \in 1..c : q[i] = x
      /\ \A i, j \in 1..c : q[i] = q[j] => i = j
  BY <1>1, SetInOrder
<1>3. f \in Nat /\ 1 <= f /\ MaxNodes \in Nat /\ f + c <= MaxNodes + 1
  BY NodesFinite DEF Sound, Documents
<1> HIDE DEF D, c, q
<1>4. T = f..(f + c - 1)
  BY <1>2 DEF Twins, q, D
<1> HIDE DEF T, f
<1>5. T \subseteq Nodes /\ \A k \in Nodes : k \in T <=> f <= k /\ k < f + c
  BY <1>1, <1>3, <1>4 DEF Nodes
<1>6. \A k : Source(d, n, k) = q[k - f + 1]
  BY DEF Source, q, D, f
<1>7. ASSUME NEW k \in T PROVE k - f + 1 \in 1..c /\ k \in Nat
  BY <1>1, <1>3, <1>4
<1>8. \A k \in T : Source(d, n, k) \in D
  <2> SUFFICES ASSUME NEW k \in T PROVE q[k - f + 1] \in D
    BY <1>6
  <2>1. k - f + 1 \in 1..Len(q)
    BY <1>2, <1>7
  <2> QED BY <1>2, <2>1, ElementOfSeq
<1>9. ASSUME NEW k \in T, NEW l \in T, Source(d, n, k) = Source(d, n, l) PROVE k = l
  <2>1. q[k - f + 1] = q[l - f + 1]
    BY <1>6, <1>9
  <2>2. k - f + 1 = l - f + 1
    BY <1>2, <1>7, <2>1
  <2> QED BY <1>3, <1>7, <2>2
<1>10. ASSUME NEW m \in D PROVE \E k \in T : Source(d, n, k) = m
  <2>1. PICK i \in 1..c : q[i] = m
    BY <1>2
  <2>2. f + i - 1 \in T /\ (f + i - 1) - f + 1 = i
    BY <1>1, <1>3, <1>4
  <2> QED BY <1>6, <2>1, <2>2
<1>11. ASSUME NEW m \in D PROVE Twin(d, n, m) \in T /\ Source(d, n, Twin(d, n, m)) = m
  BY <1>10 DEF Twin, T
<1>12. ASSUME NEW k \in T PROVE Twin(d, n, Source(d, n, k)) = k
  BY <1>8, <1>9, <1>11
<1> QED BY <1>1, <1>2, <1>5, <1>8, <1>11, <1>12 DEF D, T, f, c, q

Twinned(twin, s) == [i \in DOMAIN s |-> twin[s[i]]]

\* A copy T of the part D of a tree, hung below p: ch and pa become ch2 and pa2.
CopyOfPart(ch, pa, D, T, src, twin, n, p, ch2, pa2) ==
  /\ ch \in [Nodes -> Seq(Nodes)] /\ pa \in [Nodes -> Nodes \cup {Nowhere}] /\ Fits(ch, pa)
  /\ D \subseteq Nodes /\ T \subseteq Nodes /\ src \in [T -> D] /\ twin \in [D -> T]
  /\ (\A k \in T : twin[src[k]] = k) /\ (\A m \in D : src[twin[m]] = m)
  /\ n \in D /\ pa[n] \notin D /\ p \in Nodes \ T
  /\ \A m \in D : ch[m] \in Seq(D) /\ (m = n \/ pa[m] \in D)
  /\ \A k \in T : ch[k] = <<>> /\ pa[k] = Nowhere
  /\ \A k \in T : ch2[k] = Twinned(twin, ch[src[k]])
  /\ ch2[p] = Append(ch[p], twin[n])
  /\ \A m \in Nodes \ T : m # p => ch2[m] = ch[m]
  /\ pa2[twin[n]] = p
  /\ \A k \in T : k # twin[n] => pa2[k] = twin[pa[src[k]]]
  /\ \A m \in Nodes \ T : pa2[m] = pa[m]

\* The children of a copy.
LEMMA TwinSequence ==
  ASSUME NEW D, NEW T, NEW twin \in [D -> T], \A a, b \in D : twin[a] = twin[b] => a = b,
         NEW s \in Seq(D), Once(s)
  PROVE  /\ Twinned(twin, s) \in Seq(T) /\ Once(Twinned(twin, s))
         /\ \A m \in D : twin[m] \in ToSet(Twinned(twin, s)) <=> m \in ToSet(s)
<1> DEFINE t == Twinned(twin, s)
<1>0. t = [i \in DOMAIN s |-> twin[s[i]]]
  BY DEF Twinned
<1> HIDE DEF t
<1>1. DOMAIN s = 1..Len(s) /\ Len(s) \in Nat /\ \A i \in DOMAIN s : s[i] \in D
  BY LenProperties, ElementOfSeq
<1>2. t \in [1..Len(s) -> T]
  BY <1>0, <1>1
<1>3. t \in Seq(T) /\ DOMAIN t = DOMAIN s
  BY <1>1, <1>2, FunctionIsSeq
<1>4. ASSUME NEW i \in DOMAIN s, NEW j \in DOMAIN s, t[i] = t[j] PROVE i = j
  <2>1. twin[s[i]] = twin[s[j]]
    BY <1>0, <1>3, <1>4
  <2>2. s[i] = s[j]
    BY <1>1, <2>1
  <2> QED BY <2>2 DEF Once
<1>5. ASSUME NEW m \in D PROVE twin[m] \in ToSet(t) <=> m \in ToSet(s)
  <2>1. ASSUME m \in ToSet(s) PROVE twin[m] \in ToSet(t)
    <3>1. PICK i \in DOMAIN s : s[i] = m
      BY <2>1 DEF ToSet
    <3>2. t[i] = twin[m] /\ i \in DOMAIN t
      BY <1>0, <1>3, <3>1
    <3> QED BY <3>2 DEF ToSet
  <2>2. ASSUME twin[m] \in ToSet(t) PROVE m \in ToSet(s)
    <3>1. PICK i \in DOMAIN s : t[i] = twin[m]
      BY <1>3, <2>2 DEF ToSet
    <3>2. twin[s[i]] = twin[m] /\ s[i] \in D
      BY <1>0, <1>1, <3>1
    <3>3. s[i] = m
      BY <3>2
    <3> QED BY <3>3 DEF ToSet
  <2> QED BY <2>1, <2>2
<1> QED BY <1>3, <1>4, <1>5 DEF Once, t

LEMMA CopyTyped ==
  ASSUME NEW ch, NEW pa, NEW D, NEW T, NEW src, NEW twin, NEW n, NEW p, NEW ch2, NEW pa2,
         CopyOfPart(ch, pa, D, T, src, twin, n, p, ch2, pa2)
  PROVE  /\ \A m \in Nodes : ch2[m] \in Seq(Nodes) /\ Once(ch2[m]) /\ pa2[m] \in Nodes \cup {Nowhere}
         /\ \A k \in T : ch2[k] \in Seq(T) /\ \A m \in D : twin[m] \in ToSet(ch2[k]) <=> m \in ToSet(ch[src[k]])
         /\ ToSet(ch2[p]) = ToSet(ch[p]) \cup {twin[n]}
<1> USE DEF CopyOfPart
<1>1. ASSUME NEW k \in T
      PROVE  /\ ch2[k] \in Seq(T) /\ Once(ch2[k]) /\ ch2[k] \in Seq(Nodes)
             /\ \A m \in D : twin[m] \in ToSet(ch2[k]) <=> m \in ToSet(ch[src[k]])
  <2> DEFINE s == ch[src[k]]
             t == ch2[k]
  <2>1. src[k] \in D
    OBVIOUS
  <2>2. s \in Seq(D) /\ Once(s)
    BY <2>1 DEF Fits
  <2>3. t = Twinned(twin, s)
    OBVIOUS
  <2>4. twin \in [D -> T] /\ \A a, b \in D : twin[a] = twin[b] => a = b
    OBVIOUS
  <2>5. T \subseteq Nodes
    OBVIOUS
  <2> HIDE DEF s, t, CopyOfPart
  <2>6. t \in Seq(T) /\ Once(t) /\ \A m \in D : twin[m] \in ToSet(t) <=> m \in ToSet(s)
    BY <2>2, <2>3, <2>4, TwinSequence
  <2>7. t \in Seq(Nodes)
    <3>1. DOMAIN t = 1..Len(t) /\ Len(t) \in Nat /\ \A i \in 1..Len(t) : t[i] \in T
      BY <2>6, LenProperties, ElementOfSeq
    <3>2. t \in [1..Len(t) -> Nodes]
      BY <2>5, <2>6, <3>1, SeqDef
    <3> QED BY <3>1, <3>2, FunctionIsSeq
  <2> QED BY <2>6, <2>7 DEF s, t
<1>2. twin[n] \in T /\ twin[n] \in Nodes
  OBVIOUS
<1>3. ch2[p] \in Seq(Nodes) /\ ToSet(ch2[p]) = ToSet(ch[p]) \cup {twin[n]} /\ Once(ch2[p])
  <2>1. pa[twin[n]] = Nowhere
    BY <1>2
  <2>2. pa[twin[n]] # p
    BY <2>1 DEF Nowhere, Nodes
  <2>3. twin[n] \notin ToSet(ch[p])
    BY <1>2, <2>2 DEF Fits
  <2>4. ch[p] \in Seq(Nodes) /\ Once(ch[p]) /\ ch2[p] = Append(ch[p], twin[n])
    BY DEF Fits
  <2> HIDE DEF CopyOfPart
  <2> QED BY <1>2, <2>3, <2>4, AppendExactly
<1>4. ASSUME NEW m \in Nodes \ T, m # p PROVE ch2[m] \in Seq(Nodes) /\ Once(ch2[m])
  BY <1>4 DEF Fits
<1>5. ASSUME NEW k \in T PROVE pa2[k] \in Nodes \cup {Nowhere}
  <2>1. CASE k = twin[n]
    BY <2>1
  <2>2. CASE k # twin[n]
    <3>1. src[k] \in D /\ src[k] # n
      BY <2>2
    <3>2. pa[src[k]] \in D
      BY <3>1
    <3> QED BY <2>2, <3>2
  <2> QED BY <2>1, <2>2
<1>6. \A m \in Nodes \ T : pa2[m] \in Nodes \cup {Nowhere}
  OBVIOUS
<1> QED BY <1>1, <1>3, <1>4, <1>5, <1>6

LEMMA FitsCopied ==
  ASSUME NEW ch, NEW pa, NEW D, NEW T, NEW src, NEW twin, NEW n, NEW p, NEW ch2, NEW pa2,
         CopyOfPart(ch, pa, D, T, src, twin, n, p, ch2, pa2)
  PROVE  Fits(ch2, pa2)
<1>0. Nowhere \notin Nodes /\ \A a, m \in Nodes : m \in ToSet(ch[a]) <=> pa[m] = a
  BY DEF Nowhere, Nodes, Fits, CopyOfPart
<1>a. /\ \A m \in Nodes : ch2[m] \in Seq(Nodes) /\ Once(ch2[m]) /\ pa2[m] \in Nodes \cup {Nowhere}
      /\ \A k \in T : ch2[k] \in Seq(T) /\ \A m \in D : twin[m] \in ToSet(ch2[k]) <=> m \in ToSet(ch[src[k]])
      /\ ToSet(ch2[p]) = ToSet(ch[p]) \cup {twin[n]}
  BY CopyTyped
<1>1. /\ \A k \in T : ch2[k] \in Seq(T) /\ \A m \in D : twin[m] \in ToSet(ch2[k]) <=> m \in ToSet(ch[src[k]])
      /\ ToSet(ch2[p]) = ToSet(ch[p]) \cup {twin[n]}
      /\ \A m \in Nodes : Once(ch2[m])
  BY <1>a
<1> USE DEF CopyOfPart
<1>2. \A k \in T : ToSet(ch2[k]) \subseteq T
  <2> SUFFICES ASSUME NEW k \in T PROVE ToSet(ch2[k]) \subseteq T
    OBVIOUS
  <2> DEFINE t == ch2[k]
  <2>1. t \in Seq(T)
    BY <1>1
  <2> HIDE DEF t, CopyOfPart
  <2>2. ToSet(t) \subseteq T
    BY <2>1, LenProperties, ElementOfSeq DEF ToSet
  <2> QED BY <2>2 DEF t
<1>3. \A k \in T : k # twin[n] => pa[src[k]] \in D /\ pa2[k] \in T
  <2> SUFFICES ASSUME NEW k \in T, k # twin[n] PROVE pa[src[k]] \in D /\ pa2[k] \in T
    OBVIOUS
  <2>1. src[k] \in D /\ src[k] # n
    OBVIOUS
  <2>2. pa[src[k]] \in D
    BY <2>1
  <2> QED BY <2>2
<1>4. ASSUME NEW a \in T, NEW m \in Nodes PROVE m \in ToSet(ch2[a]) <=> pa2[m] = a
  <2>1. CASE m \in T /\ m # twin[n]
    <3> DEFINE y == src[m]
    <3>1. y \in D /\ y \in Nodes /\ twin[y] = m /\ pa[y] \in D /\ src[a] \in D /\ src[a] \in Nodes
      BY <1>3, <2>1
    <3>2. m \in ToSet(ch2[a]) <=> y \in ToSet(ch[src[a]])
      BY <1>1, <3>1
    <3>3. m \in ToSet(ch2[a]) <=> pa[y] = src[a]
      BY <1>0, <3>1, <3>2
    <3>4. pa2[m] = twin[pa[y]]
      BY <2>1
    <3>5. twin[pa[y]] = a <=> pa[y] = src[a]
      BY <3>1
    <3> QED BY <3>3, <3>4, <3>5
  <2>2. CASE m = twin[n]
    <3>1. src[a] \in D /\ src[a] \in Nodes /\ n \in Nodes
      OBVIOUS
    <3>2. n \notin ToSet(ch[src[a]])
      BY <1>0, <3>1
    <3>3. m \notin ToSet(ch2[a])
      BY <1>1, <2>2, <3>2
    <3>4. pa2[m] = p /\ p # a
      BY <2>2
    <3> QED BY <3>3, <3>4
  <2>3. CASE m \notin T
    <3>1. m \notin ToSet(ch2[a])
      BY <1>2, <2>3
    <3>2. pa2[m] = pa[m] /\ ch[a] = <<>> /\ a \in Nodes
      BY <2>3
    <3>3. m \notin ToSet(ch[a])
      BY <3>2, EmptyOnce
    <3> QED BY <1>0, <3>1, <3>2, <3>3
  <2> QED BY <2>1, <2>2, <2>3
<1>5. ASSUME NEW m \in Nodes PROVE m \in ToSet(ch2[p]) <=> pa2[m] = p
  <2>1. CASE m \in T /\ m # twin[n]
    <3>1. pa2[m] # p
      BY <1>3, <2>1
    <3>2. pa[m] = Nowhere
      BY <2>1
    <3>3. m \notin ToSet(ch[p])
      BY <1>0, <3>2
    <3> QED BY <1>1, <2>1, <3>1, <3>3
  <2>2. CASE m = twin[n]
    BY <1>1, <2>2
  <2>3. CASE m \notin T
    <3>1. m # twin[n] /\ pa2[m] = pa[m]
      BY <2>3
    <3> QED BY <1>0, <1>1, <3>1
  <2> QED BY <2>1, <2>2, <2>3
<1>6. ASSUME NEW a \in Nodes \ T, a # p, NEW m \in Nodes PROVE m \in ToSet(ch2[a]) <=> pa2[m] = a
  <2>1. m \in ToSet(ch2[a]) <=> pa[m] = a
    BY <1>0, <1>6
  <2>2. CASE m \in T /\ m # twin[n]
    <3>1. pa2[m] # a /\ pa[m] = Nowhere
      BY <1>3, <2>2
    <3> QED BY <1>0, <2>1, <3>1
  <2>3. CASE m = twin[n]
    <3>1. m \in T /\ pa2[m] = p
      BY <2>3
    <3>2. pa[m] = Nowhere
      BY <3>1
    <3> QED BY <1>0, <1>6, <2>1, <3>1, <3>2
  <2>4. CASE m \notin T
    BY <2>1, <2>4
  <2> QED BY <2>2, <2>3, <2>4
<1>7. \A a, m \in Nodes : m \in ToSet(ch2[a]) <=> pa2[m] = a
  <2> SUFFICES ASSUME NEW a \in Nodes, NEW m \in Nodes PROVE m \in ToSet(ch2[a]) <=> pa2[m] = a
    OBVIOUS
  <2> HIDE DEF CopyOfPart
  <2>1. CASE a \in T
    BY <1>4, <2>1
  <2>2. CASE a = p
    BY <1>5, <2>2
  <2>3. CASE a \in Nodes \ T /\ a # p
    BY <1>6, <2>3
  <2> QED BY <2>1, <2>2, <2>3
<1> QED BY <1>1, <1>7 DEF Fits

\* The parts of the document that Duplicate makes, before it is touched.
LEMMA HungParts ==
  ASSUME NEW d, Sound(d), NEW p \in Nodes, NEW n \in Nodes, n \in ToSet(d.children[p]),
         NEW rank, Ranked(d, rank), d.fresh + Cardinality(Down(d, n)) <= MaxNodes + 1
  PROVE  LET D == Down(d, n)
             T == Twins(d, n)
             src == [k \in T |-> Source(d, n, k)]
             twin == [m \in D |-> Twin(d, n, m)]
             e == Hung(d, p, n)
         IN /\ CopyOfPart(d.children, d.parent, D, T, src, twin, n, p, e.children, e.parent)
            /\ e.fresh = d.fresh + Cardinality(D) /\ e.verbatim = d.verbatim
            /\ e \in Documents
            /\ \A m \in Nodes \ T : e.tag[m] = d.tag[m] /\ e.body[m] = d.body[m]
<1> DEFINE D == Down(d, n)
           T == Twins(d, n)
           src == [k \in T |-> Source(d, n, k)]
           twin == [m \in D |-> Twin(d, n, m)]
           e == Hung(d, p, n)
           ch == d.children
           pa == d.parent
           f == d.fresh
           c == Cardinality(D)
<1>1. /\ d \in Documents /\ ch \in [Nodes -> Seq(Nodes)] /\ pa \in [Nodes -> Nodes \cup {Nowhere}] /\ Fits(ch, pa)
      /\ d.tag \in [Nodes -> Labels] /\ d.body \in [Nodes -> Labels]
      /\ d.containers \subseteq Nodes /\ d.verbatim \subseteq Nodes /\ f \in Nat /\ 1 <= f
  BY DEF Sound, Documents
<1>2. p < f /\ n < f /\ pa[n] = p
  BY PlacedFacts
<1>3. n \in D /\ D \subseteq Nodes /\ \A m \in D : ch[m] \in Seq(D)
  BY DownIs
<1>4. \A m \in D : m = n \/ pa[m] \in D
  BY DownParents
<1>5. p \notin D
  <2>1. \A m \in D : rank[n] <= rank[m]
    BY DownRanks
  <2>2. rank[p] < rank[n] /\ rank[p] \in Nat /\ rank[n] \in Nat
    BY <1>2 DEF Ranked, Nowhere, Nodes
  <2> QED BY <2>1, <2>2
<1>6. /\ T \subseteq Nodes /\ c \in Nat /\ Len(SetToSeq(D)) = c
      /\ \A k \in Nodes : k \in T <=> f <= k /\ k < f + c
      /\ \A k \in T : Source(d, n, k) \in D /\ Twin(d, n, Source(d, n, k)) = k
      /\ \A m \in D : Twin(d, n, m) \in T /\ Source(d, n, Twin(d, n, m)) = m
  BY TwinFacts
<1>7. /\ src \in [T -> D] /\ twin \in [D -> T]
      /\ (\A k \in T : twin[src[k]] = k) /\ (\A m \in D : src[twin[m]] = m)
      /\ (\A k \in T : src[k] = Source(d, n, k)) /\ (\A m \in D : twin[m] = Twin(d, n, m))
  BY <1>6
<1>8. p \in Nodes \ T /\ \A k \in T : k \in Nodes /\ f <= k /\ ch[k] = <<>> /\ pa[k] = Nowhere /\ k \notin d.verbatim
  <2>1. \A k \in T : k \in Nodes /\ f <= k
    BY <1>6
  <2>2. \A k \in T : k >= f
    BY <1>1, <2>1 DEF Nodes
  <2>3. p \notin T
    BY <1>1, <1>2, <2>1 DEF Nodes
  <2> QED BY <2>1, <2>2, <2>3 DEF Sound
<1> DEFINE t == Twin(d, n, n)
           c1 == [m \in Nodes |-> IF m \in T
                     THEN [i \in DOMAIN ch[Source(d, n, m)] |-> Twin(d, n, ch[Source(d, n, m)][i])] ELSE ch[m]]
           p1 == [m \in Nodes |-> IF m \in T \ {t} THEN Twin(d, n, pa[Source(d, n, m)]) ELSE pa[m]]
           t1 == [m \in Nodes |-> IF m \in T THEN d.tag[Source(d, n, m)] ELSE d.tag[m]]
           b1 == [m \in Nodes |-> IF m \in T THEN d.body[Source(d, n, m)] ELSE d.body[m]]
           k1 == d.containers \cup {m \in T : Source(d, n, m) \in d.containers}
           f1 == f + Len(SetToSeq(D))
           c2 == [c1 EXCEPT ![p] = Append(@, t)]
           p2 == [p1 EXCEPT ![t] = p]
<1>9. e = [d EXCEPT !.fresh = f1, !.children = c2, !.parent = p2, !.tag = t1, !.body = b1, !.containers = k1]
  <2> DEFINE d1 == [d EXCEPT !.fresh = f1, !.children = c1, !.parent = p1, !.tag = t1, !.body = b1, !.containers = k1]
  <2>1. Copied(d, n) = d1
    BY DEF Copied
  <2>2. e = [d1 EXCEPT !.children[p] = Append(@, t), !.parent[t] = p]
    BY <2>1 DEF Hung
  <2> HIDE DEF c1, p1, t1, b1, k1, f1, t, e
  <2> QED BY <1>1, <2>2 DEF Documents
<1>10. t \in T /\ twin[n] = t
  BY <1>3, <1>6, <1>7
<1>11. \A k \in T : c1[k] = Twinned(twin, ch[src[k]])
  <2> SUFFICES ASSUME NEW k \in T PROVE c1[k] = Twinned(twin, ch[src[k]])
    OBVIOUS
  <2> DEFINE s == ch[Source(d, n, k)]
  <2>1. s \in Seq(D)
    BY <1>3, <1>6
  <2>2. c1[k] = [i \in DOMAIN s |-> Twin(d, n, s[i])]
    BY <1>6
  <2>3. \A i \in DOMAIN s : s[i] \in D
    <3> HIDE DEF s
    <3> QED BY <2>1, LenProperties, ElementOfSeq
  <2>4. \A i \in DOMAIN s : Twin(d, n, s[i]) = twin[s[i]]
    BY <1>7, <2>3
  <2>5. src[k] = Source(d, n, k)
    BY <1>7
  <2> HIDE DEF c1, s, twin
  <2>6. c1[k] = Twinned(twin, s)
    BY <2>2, <2>4 DEF Twinned
  <2> QED BY <2>5, <2>6 DEF s
<1>12. \A m \in Nodes : m \notin T => c1[m] = ch[m] /\ p1[m] = pa[m] /\ t1[m] = d.tag[m] /\ b1[m] = d.body[m]
  OBVIOUS
<1>13. \A k \in T : k # t => p1[k] = twin[pa[src[k]]]
  <2> SUFFICES ASSUME NEW k \in T, k # t PROVE p1[k] = twin[pa[src[k]]]
    OBVIOUS
  <2>1. src[k] = Source(d, n, k) /\ src[k] \in D
    BY <1>7
  <2>2. src[k] # n
    BY <1>7, <1>10
  <2>3. pa[src[k]] \in D
    BY <1>4, <2>1, <2>2
  <2>4. p1[k] = Twin(d, n, pa[Source(d, n, k)])
    BY <1>6
  <2> QED BY <1>7, <2>1, <2>3, <2>4
<1>14. c2[p] = Append(ch[p], t) /\ \A m \in Nodes : m # p => c2[m] = c1[m]
  <2>1. c1[p] = ch[p]
    BY <1>8, <1>12
  <2> HIDE DEF c1, t
  <2>2. c1 = [m \in Nodes |-> c1[m]]
    BY DEF c1
  <2> QED BY <2>1, <2>2
<1>15. p2[t] = p /\ \A m \in Nodes : m # t => p2[m] = p1[m]
  <2> DEFINE g(m) == IF m \in T \ {t} THEN Twin(d, n, pa[Source(d, n, m)]) ELSE pa[m]
  <2>1. p1 = [m \in Nodes |-> g(m)] /\ t \in Nodes
    BY <1>6, <1>10
  <2> HIDE DEF g, p1, t
  <2> QED BY <2>1
<1>16. e.children = c2 /\ e.parent = p2 /\ e.tag = t1 /\ e.body = b1 /\ e.fresh = f1 /\ e.verbatim = d.verbatim
       /\ e.containers = k1
  <2> HIDE DEF c2, p2, t1, b1, f1, k1, e
  <2> QED BY <1>1, <1>9 DEF Documents
<1>17. CopyOfPart(ch, pa, D, T, src, twin, n, p, e.children, e.parent)
  <2>1. pa[n] \notin D
    BY <1>2, <1>5
  <2>2. \A k \in T : e.children[k] = Twinned(twin, ch[src[k]])
    <3> HIDE DEF c1, c2, e, src, twin, T
    <3> QED BY <1>6, <1>8, <1>11, <1>14, <1>16
  <2>3. \A m \in Nodes \ T : m # p => e.children[m] = ch[m]
    <3> HIDE DEF c1, c2, e, src, twin, T
    <3> QED BY <1>12, <1>14, <1>16
  <2>4. e.parent[twin[n]] = p /\ \A k \in T : k # twin[n] => e.parent[k] = twin[pa[src[k]]]
    <3> HIDE DEF p1, p2, e, src, twin, T, t
    <3> QED BY <1>6, <1>10, <1>13, <1>15, <1>16
  <2>5. \A m \in Nodes \ T : e.parent[m] = pa[m]
    <3> HIDE DEF p1, p2, e, src, twin, T, t
    <3> QED BY <1>10, <1>12, <1>15, <1>16
  <2>6. e.children[p] = Append(ch[p], twin[n])
    <3> HIDE DEF c1, c2, e, src, twin, T, t
    <3> QED BY <1>10, <1>14, <1>16
  <2> HIDE DEF src, twin, e, T, D, ch, pa
  <2> QED BY <1>1, <1>3, <1>4, <1>6, <1>7, <1>8, <2>1, <2>2, <2>3, <2>4, <2>5, <2>6 DEF CopyOfPart
<1>18. e \in Documents
  <2>1. \A m \in Nodes : e.children[m] \in Seq(Nodes) /\ e.parent[m] \in Nodes \cup {Nowhere}
    <3> HIDE DEF src, twin, e, T, D, ch, pa
    <3> QED BY <1>17, CopyTyped
  <2>2. c2 \in [Nodes -> Seq(Nodes)] /\ p2 \in [Nodes -> Nodes \cup {Nowhere}]
    <3>1. c2 = [m \in Nodes |-> c2[m]] /\ p2 = [m \in Nodes |-> p2[m]]
      OBVIOUS
    <3> HIDE DEF c2, p2, e
    <3> QED BY <1>16, <2>1, <3>1
  <2>3. t1 \in [Nodes -> Labels] /\ b1 \in [Nodes -> Labels]
    <3>1. \A m \in Nodes : (IF m \in T THEN d.tag[Source(d, n, m)] ELSE d.tag[m]) \in Labels
      BY <1>1, <1>3, <1>6
    <3>2. \A m \in Nodes : (IF m \in T THEN d.body[Source(d, n, m)] ELSE d.body[m]) \in Labels
      BY <1>1, <1>3, <1>6
    <3> QED BY <3>1, <3>2
  <2>4. k1 \in SUBSET Nodes
    BY <1>1, <1>6
  <2>5. f1 \in 1..(MaxNodes + 1)
    BY <1>1, <1>6, NodesFinite
  <2> HIDE DEF c2, p2, t1, b1, f1, k1, e
  <2> QED BY <1>1, <1>9, <2>2, <2>3, <2>4, <2>5 DEF Documents
<1>19. \A m \in Nodes \ T : e.tag[m] = d.tag[m] /\ e.body[m] = d.body[m]
  BY <1>12, <1>16
<1>20. e.fresh = f + c
  BY <1>6, <1>16
<1> QED BY <1>16, <1>17, <1>18, <1>19, <1>20

\* Ranks for a copy: above those of the node it hangs below.
LEMMA CopyRanked ==
  ASSUME NEW ch, NEW pa, NEW D, NEW T, NEW src, NEW twin, NEW n, NEW p, NEW ch2, NEW pa2,
         CopyOfPart(ch, pa, D, T, src, twin, n, p, ch2, pa2),
         NEW rank \in [Nodes -> Nat], \A m \in Nodes : pa[m] # Nowhere => rank[pa[m]] < rank[m]
  PROVE  \E rank2 \in [Nodes -> Nat] :
           /\ \A m \in Nodes : pa2[m] # Nowhere => rank2[pa2[m]] < rank2[m]
           /\ \A m \in Nodes \ T : rank2[m] = rank[m]
<1> DEFINE r2 == [m \in Nodes |-> IF m \in T THEN rank[p] + 1 + rank[src[m]] ELSE rank[m]]
<1> USE DEF CopyOfPart
<1>1. rank[p] \in Nat /\ \A k \in T : src[k] \in D /\ src[k] \in Nodes /\ rank[src[k]] \in Nat
  OBVIOUS
<1>2. /\ r2 \in [Nodes -> Nat] /\ \A m \in Nodes \ T : r2[m] = rank[m]
      /\ \A k \in T : r2[k] = rank[p] + 1 + rank[src[k]]
  BY <1>1
<1> HIDE DEF r2
<1>3. ASSUME NEW m \in Nodes, pa2[m] # Nowhere PROVE r2[pa2[m]] < r2[m]
  <2>1. CASE m = twin[n]
    <3>1. pa2[m] = p /\ m \in T /\ r2[p] = rank[p] /\ r2[m] = rank[p] + 1 + rank[src[m]]
      BY <1>2, <2>1
    <3> QED BY <1>1, <3>1
  <2>2. CASE m \in T /\ m # twin[n]
    <3> DEFINE y == src[m]
    <3>1. y \in D /\ y # n /\ pa[y] \in D /\ pa[y] \in Nodes
      BY <2>2
    <3>2. pa2[m] = twin[pa[y]] /\ twin[pa[y]] \in T /\ src[twin[pa[y]]] = pa[y]
      BY <2>2, <3>1
    <3>3. rank[pa[y]] < rank[y]
      <4>1. D \subseteq Nodes
        OBVIOUS
      <4>2. \A q \in Nodes : q # Nowhere
        BY DEF Nodes, Nowhere
      <4>3. y \in Nodes /\ pa[y] # Nowhere
        <5> HIDE DEF y, CopyOfPart
        <5> QED BY <3>1, <4>1, <4>2
      <4> HIDE DEF y, CopyOfPart
      <4> QED BY <4>3
    <3>4. r2[pa2[m]] = rank[p] + 1 + rank[pa[y]] /\ r2[m] = rank[p] + 1 + rank[y]
      BY <1>2, <2>2, <3>2
    <3>5. rank[pa[y]] \in Nat /\ rank[y] \in Nat
      BY <3>1
    <3> QED BY <1>1, <3>3, <3>4, <3>5
  <2>3. CASE m \notin T
    <3>1. pa2[m] = pa[m] /\ pa[m] \in Nodes /\ rank[pa[m]] < rank[m]
      BY <1>3, <2>3
    <3>2. pa[m] \notin T
      <4>1. ASSUME pa[m] \in T PROVE FALSE
        <5>1. ch[pa[m]] = <<>>
          BY <4>1
        <5>2. m \in ToSet(ch[pa[m]])
          BY <3>1 DEF Fits
        <5> QED BY <5>1, <5>2, EmptyOnce
      <4> QED BY <4>1
    <3> QED BY <1>2, <2>3, <3>1, <3>2
  <2> QED BY <2>1, <2>2, <2>3
<1> QED BY <1>2, <1>3

LEMMA DuplicateGrows ==
  ASSUME NEW d, Sound(d), NEW p \in Nodes, NEW n \in Nodes, n \in ToSet(d.children[p]),
         NEW rank, Ranked(d, rank), d.fresh + Cardinality(Down(d, n)) <= MaxNodes + 1
  PROVE  /\ \E m : Grown(Duplicate(d, p, n), d, p, m)
         /\ \E rank2 : Ranked(Duplicate(d, p, n), rank2) /\ \A m \in Nodes : m < d.fresh => rank2[m] = rank[m]
<1> DEFINE D == Down(d, n)
           T == Twins(d, n)
           src == [k \in T |-> Source(d, n, k)]
           twin == [m \in D |-> Twin(d, n, m)]
           e == Hung(d, p, n)
           r == Duplicate(d, p, n)
           c == Cardinality(D)
<1>1. /\ CopyOfPart(d.children, d.parent, D, T, src, twin, n, p, e.children, e.parent)
      /\ e.fresh = d.fresh + c /\ e.verbatim = d.verbatim /\ e \in Documents
      /\ \A m \in Nodes \ T : e.tag[m] = d.tag[m] /\ e.body[m] = d.body[m]
  BY HungParts
<1>2. /\ T \subseteq Nodes /\ c \in Nat
      /\ \A k \in Nodes : k \in T <=> d.fresh <= k /\ k < d.fresh + c
  BY TwinFacts
<1>3. r = Touch(e, p)
  BY DuplicateIs
<1>4. p < d.fresh /\ d \in Documents /\ d.fresh \in Nat
  <2>1. p < d.fresh
    BY PlacedFacts
  <2>2. d \in Documents /\ d.fresh \in Nat
    BY DEF Sound, Documents
  <2> QED BY <2>1, <2>2
<1> HIDE DEF D, T, src, twin, e, r, c
<1>5. Fits(e.children, e.parent)
  BY <1>1, FitsCopied
<1>6. \A m \in Nodes : m \notin T =>
        /\ m # p => e.children[m] = d.children[m]
        /\ m # twin[n] /\ e.parent[m] = d.parent[m]
  BY <1>1 DEF CopyOfPart
<1>7. Sound(e)
  <2>1. ASSUME NEW m \in Nodes, m >= e.fresh
        PROVE  e.children[m] = <<>> /\ e.parent[m] = Nowhere /\ m \notin e.verbatim
    <3>1. m >= d.fresh /\ m \notin T /\ m # p
      BY <1>1, <1>2, <1>4, <2>1 DEF Nodes
    <3> QED BY <1>1, <1>6, <3>1 DEF Sound
  <2> QED BY <1>1, <1>5, <2>1 DEF Sound
<1>8. \A m \in Nodes : m < d.fresh => m \notin T
  BY <1>2, <1>4 DEF Nodes
<1>9. NearlySame(d, e, p)
  <2>1. \A m \in d.verbatim : m \in Nodes /\ m < d.fresh
    BY <1>4 DEF Sound, Documents, Nodes
  <2> QED BY <1>1, <1>6, <1>8, <2>1 DEF NearlySame
<1>10. Outcome(r, e, d)
  BY <1>3, <1>4, <1>7, <1>9, TouchOutcome
<1>11. Grown(r, d, p, twin[n])
  <2>1. r.children = e.children /\ r.parent = e.parent /\ r.fresh = d.fresh + c /\ r.tag = e.tag /\ r.body = e.body
    BY <1>1, <1>10 DEF Outcome, SameTree, SameText
  <2>2. e.children[p] = Append(d.children[p], twin[n]) /\ twin[n] \in T
    BY <1>1 DEF CopyOfPart
  <2> QED BY <1>1, <1>2, <1>6, <1>8, <1>10, <2>1, <2>2 DEF Grown, Outcome
<1>12. \E rank2 : Ranked(r, rank2) /\ \A m \in Nodes : m < d.fresh => rank2[m] = rank[m]
  <2> DEFINE pa2 == e.parent
             pa == d.parent
  <2>1. rank \in [Nodes -> Nat] /\ \A m \in Nodes : pa[m] # Nowhere => rank[pa[m]] < rank[m]
    BY DEF Ranked
  <2>2. PICK rank2 \in [Nodes -> Nat] :
           /\ \A m \in Nodes : pa2[m] # Nowhere => rank2[pa2[m]] < rank2[m]
           /\ \A m \in Nodes \ T : rank2[m] = rank[m]
    <3> DEFINE ch == d.children
               ch2 == e.children
    <3>1. CopyOfPart(ch, pa, D, T, src, twin, n, p, ch2, pa2)
      BY <1>1
    <3> HIDE DEF pa, pa2, ch, ch2
    <3> QED BY <2>1, <3>1, CopyRanked
  <2>3. r.parent = pa2
    BY <1>10 DEF Outcome, SameTree
  <2> QED BY <1>8, <2>2, <2>3 DEF Ranked
<1> QED BY <1>11, <1>12 DEF r

-----------------------------------------------------------------------------
\* Moves.
LEMMA ReorderFacts ==
  ASSUME NEW d, Sound(d), NEW p \in Nodes, NEW n \in Nodes, NEW up \in BOOLEAN
  PROVE  LET i == IndexIn(d, p, n)
             j == IF up THEN i - 1 ELSE i + 1
         IN /\ i = 0 \/ j \notin DOMAIN d.children[p] => Reorder(d, p, n, up) = d
            /\ i # 0 /\ j \in DOMAIN d.children[p] =>
                 /\ i \in DOMAIN d.children[p] /\ d.children[p][i] = n
                 /\ Outcome(Reorder(d, p, n, up), Turned(d, p, i, j), d)
<1> DEFINE i == IndexIn(d, p, n)
           j == IF up THEN i - 1 ELSE i + 1
<1>1. i = 0 \/ j \notin DOMAIN d.children[p] => Reorder(d, p, n, up) = d
  BY DEF Reorder
<1>2. ASSUME i # 0, j \in DOMAIN d.children[p]
      PROVE  /\ i \in DOMAIN d.children[p] /\ d.children[p][i] = n
             /\ Outcome(Reorder(d, p, n, up), Turned(d, p, i, j), d)
  <2>1. i \in DOMAIN d.children[p] /\ d.children[p][i] = n
    BY <1>2, IndexFacts
  <2>2. Reorder(d, p, n, up) = Swap(d, p, i, j)
    BY <1>2 DEF Reorder
  <2> HIDE DEF i, j
  <2>3. Outcome(Swap(d, p, i, j), Turned(d, p, i, j), d)
    BY <1>2, <2>1, SwapDone
  <2> QED BY <2>1, <2>2, <2>3
<1> QED BY <1>1, <1>2

-----------------------------------------------------------------------------
(***************************************************************************)
(* The file as read.                                                       *)
(***************************************************************************)
LEMMA LoadedFacts ==
  /\ MaxNodes \in Nat /\ Len(LoadedChildren) \in Nat /\ 1 <= Len(LoadedChildren) /\ Len(LoadedChildren) <= MaxNodes
  /\ DOMAIN LoadedChildren = 1..Len(LoadedChildren)
  /\ \A n \in DOMAIN LoadedChildren : LoadedChildren[n] \in Seq(DOMAIN LoadedChildren)
  /\ DOMAIN LoadedChildren \subseteq Nodes
  /\ \A n \in DOMAIN LoadedChildren : \A x \in ToSet(LoadedChildren[n]) : x \in DOMAIN LoadedChildren /\ n < x
  /\ \A p, q \in DOMAIN LoadedChildren :
       \A x : x \in ToSet(LoadedChildren[p]) /\ x \in ToSet(LoadedChildren[q]) => p = q
  /\ \A p \in DOMAIN LoadedChildren : Once(LoadedChildren[p])
<1> DEFINE L == LoadedChildren
           l == Len(L)
<1>1. L \in Seq(Seq(1..l)) /\ MaxNodes \in Nat /\ l <= MaxNodes /\ 1 \in DOMAIN L
  BY IffAssumption DEF IffAssumption
<1>2. /\ \A p \in DOMAIN L : \A i \in DOMAIN L[p] : p < L[p][i]
      /\ \A p, q \in DOMAIN L : \A i \in DOMAIN L[p] : \A j \in DOMAIN L[q] : L[p][i] = L[q][j] => p = q /\ i = j
  BY IffAssumption DEF IffAssumption
<1> HIDE DEF L
<1>3. l \in Nat /\ DOMAIN L = 1..l /\ \A n \in DOMAIN L : L[n] \in Seq(1..l)
  BY <1>1, LenProperties, ElementOfSeq
<1>4. 1 <= l
  BY <1>1, <1>3
<1>5. ASSUME NEW n \in DOMAIN L, NEW x \in ToSet(L[n]) PROVE x \in DOMAIN L /\ n < x
  <2>1. PICK i \in DOMAIN L[n] : L[n][i] = x
    BY <1>5 DEF ToSet
  <2> DEFINE s == L[n]
  <2>2. s \in Seq(1..l) /\ i \in DOMAIN s
    BY <1>3
  <2> HIDE DEF s, l
  <2>3. s[i] \in 1..l
    BY <2>2, LenProperties, ElementOfSeq
  <2> QED BY <1>2, <1>3, <2>1, <2>3 DEF s
<1>6. ASSUME NEW p \in DOMAIN L, NEW q \in DOMAIN L, NEW x, x \in ToSet(L[p]), x \in ToSet(L[q]) PROVE p = q
  <2>1. PICK i \in DOMAIN L[p] : L[p][i] = x
    BY <1>6 DEF ToSet
  <2>2. PICK j \in DOMAIN L[q] : L[q][j] = x
    BY <1>6 DEF ToSet
  <2> QED BY <1>2, <2>1, <2>2
<1>7. ASSUME NEW p \in DOMAIN L PROVE Once(L[p])
  BY <1>2 DEF Once
<1>8. DOMAIN L \subseteq Nodes
  BY <1>1, <1>3 DEF Nodes
<1> HIDE DEF l
<1>9. \A n \in DOMAIN L : L[n] \in Seq(DOMAIN L)
  BY <1>3
<1> QED BY <1>1, <1>3, <1>4, <1>5, <1>6, <1>7, <1>8, <1>9 DEF L, l

LEMMA SeqWider ==
  ASSUME NEW S, NEW T, S \subseteq T, NEW s \in Seq(S)
  PROVE  s \in Seq(T)
<1>1. Len(s) \in Nat /\ DOMAIN s = 1..Len(s) /\ \A i \in 1..Len(s) : s[i] \in T
  BY LenProperties, ElementOfSeq
<1>2. s = [i \in 1..Len(s) |-> s[i]]
  BY SeqDef
<1>3. s \in [1..Len(s) -> T]
  BY <1>1, <1>2
<1> QED BY <1>1, <1>3, FunctionIsSeq

LEMMA LoadingSound ==
  /\ Sound(Loading) /\ Clean(Loading) /\ Ranked(Loading, [n \in Nodes |-> n])
  /\ Root \in Nodes /\ Root < Loading.fresh
<1> DEFINE L == LoadedChildren
           D == DOMAIN L
           l == Len(L)
           d == Loading
           At(n) == CHOOSE p \in D : n \in ToSet(L[p])
           Above1(n) == IF \E p \in D : n \in ToSet(L[p]) THEN At(n) ELSE Nowhere
<1>1. /\ MaxNodes \in Nat /\ l \in Nat /\ 1 <= l /\ l <= MaxNodes
      /\ D = 1..l /\ D \subseteq Nodes
      /\ \A n \in D : L[n] \in Seq(D) /\ Once(L[n]) /\ \A x \in ToSet(L[n]) : x \in D /\ n < x
      /\ \A p, q \in D : \A x : x \in ToSet(L[p]) /\ x \in ToSet(L[q]) => p = q
  BY LoadedFacts
<1>2. /\ d.children = [n \in Nodes |-> IF n \in D THEN L[n] ELSE <<>>]
      /\ d.parent = [n \in Nodes |-> Above1(n)]
      /\ d.tag = [n \in Nodes |-> Plain] /\ d.body = [n \in Nodes |-> Plain]
      /\ d.containers = LoadedContainers /\ d.verbatim = D /\ d.fresh = l + 1
      /\ d = [children |-> d.children, parent |-> d.parent, tag |-> d.tag, body |-> d.body,
              containers |-> d.containers, verbatim |-> d.verbatim, fresh |-> d.fresh]
  BY DEF Loading, Loaded
<1>3. \A n \in Nodes : \A p \in D : n \in ToSet(L[p]) => Above1(n) = p
  <2> SUFFICES ASSUME NEW n \in Nodes, NEW p \in D, n \in ToSet(L[p]) PROVE Above1(n) = p
    OBVIOUS
  <2>1. At(n) \in D /\ n \in ToSet(L[At(n)])
    OBVIOUS
  <2> HIDE DEF At, D, L
  <2> QED BY <1>1, <2>1
<1>4. \A n \in Nodes : Above1(n) = Nowhere \/ (Above1(n) \in D /\ n \in ToSet(L[Above1(n)]))
  <2> HIDE DEF L, D
  <2> QED OBVIOUS
<1> HIDE DEF L, D, l, d, Above1
<1>5. \A n \in Nodes : d.children[n] \in Seq(Nodes) /\ Once(d.children[n])
  <2> SUFFICES ASSUME NEW n \in Nodes PROVE d.children[n] \in Seq(Nodes) /\ Once(d.children[n])
    OBVIOUS
  <2>1. CASE n \in D
    <3> DEFINE s == L[n]
    <3>1. s \in Seq(D) /\ Once(s) /\ d.children[n] = s
      BY <1>1, <1>2, <2>1
    <3> HIDE DEF s
    <3>2. s \in Seq(Nodes)
      BY <1>1, <3>1, SeqWider
    <3> QED BY <3>1, <3>2
  <2>2. CASE n \notin D
    BY <1>2, <2>2, EmptyOnce
  <2> QED BY <2>1, <2>2
<1>6. d.parent \in [Nodes -> Nodes \cup {Nowhere}]
  BY <1>1, <1>2, <1>4
<1>7. d \in Documents
  <2>1. Plain \in Labels /\ LoadedContainers \subseteq Nodes
    BY <1>1, IffAssumption DEF IffAssumption, D, L
  <2>2. d.children \in [Nodes -> Seq(Nodes)]
    BY <1>2, <1>5
  <2>3. d.tag \in [Nodes -> Labels] /\ d.body \in [Nodes -> Labels]
    BY <1>2, <2>1
  <2>4. d.fresh \in 1..(MaxNodes + 1)
    BY <1>1, <1>2
  <2> QED BY <1>1, <1>2, <1>6, <2>1, <2>2, <2>3, <2>4 DEF Documents
<1>8. \A p, n \in Nodes : n \in ToSet(d.children[p]) <=> d.parent[n] = p
  <2> SUFFICES ASSUME NEW p \in Nodes, NEW n \in Nodes
               PROVE  n \in ToSet(d.children[p]) <=> Above1(n) = p
    BY <1>2
  <2>1. CASE p \in D
    <3>1. d.children[p] = L[p] /\ p # Nowhere
      BY <1>2, <2>1 DEF Nodes, Nowhere
    <3> QED BY <1>3, <1>4, <2>1, <3>1
  <2>2. CASE p \notin D
    <3>1. d.children[p] = <<>> /\ p # Nowhere
      BY <1>2, <2>2 DEF Nodes, Nowhere
    <3> QED BY <1>4, <2>2, <3>1, EmptyOnce
  <2> QED BY <2>1, <2>2
<1>9. \A n \in Nodes : n >= d.fresh => d.children[n] = <<>> /\ d.parent[n] = Nowhere /\ n \notin d.verbatim
  <2> SUFFICES ASSUME NEW n \in Nodes, n >= d.fresh
               PROVE  d.children[n] = <<>> /\ d.parent[n] = Nowhere /\ n \notin d.verbatim
    OBVIOUS
  <2>1. n \notin D
    BY <1>1, <1>2 DEF Nodes
  <2>2. Above1(n) = Nowhere
    BY <1>1, <1>4, <2>1
  <2> QED BY <1>2, <2>1, <2>2
<1>10. Sound(d)
  BY <1>5, <1>7, <1>8, <1>9 DEF Sound, Fits
<1>11. Clean(d)
  <2>1. \A n \in D : d.children[n] \in Seq(D)
    BY <1>1, <1>2
  <2> QED BY <1>1, <1>2, <2>1 DEF Clean, Alike, d
<1>12. Ranked(d, [n \in Nodes |-> n])
  <2>1. [n \in Nodes |-> n] \in [Nodes -> Nat]
    BY <1>1 DEF Nodes
  <2>2. ASSUME NEW n \in Nodes, d.parent[n] # Nowhere PROVE d.parent[n] \in Nodes /\ d.parent[n] < n
    <3>1. d.parent[n] = Above1(n)
      BY <1>2
    <3> QED BY <1>1, <1>4, <2>2, <3>1
  <2> QED BY <2>1, <2>2 DEF Ranked
<1>13. Root \in Nodes /\ Root < d.fresh
  BY <1>1, <1>2 DEF Root, Nodes
<1> QED BY <1>10, <1>11, <1>12, <1>13 DEF d

-----------------------------------------------------------------------------
(***************************************************************************)
(* The commands keep the tree sound.                                       *)
(***************************************************************************)
Texts == {"edit", "sub", "tag"}
Moves == {"up", "down"}
Makers == {"addLeaf", "addForm", "copy"}
Kinds == {"edit", "sub", "tag", "addLeaf", "addForm", "copy", "remove", "up", "down"}

CommandRecords ==
  [op : Kinds, node : Nodes \cup {Nowhere}, parent : Nodes \cup {Nowhere}, label : Labels,
   old : Labels \cup {Unset}, made : Nodes \cup {Nowhere}, index : Nat]

\* A command that can be run: the nodes it names are there.
Runs(c, rank, f) ==
  /\ c \in CommandRecords
  /\ c.op \in Texts \cup Moves \cup {"copy", "remove"} => c.node \in Nodes /\ c.node < f
  /\ c.op \in Makers \cup {"remove"} => c.parent \in Nodes /\ c.parent < f
  /\ c.op = "remove" => rank[c.parent] < rank[c.node]

\* What a command remembers once it has run.
Ran(c, f) ==
  /\ c.op \in Texts => c.old \in Labels
  /\ c.op \in Makers => c.made \in Nodes /\ c.made < f

\* From d to r the tree stays sound and what has its slice clean, and no node that is
\* there changes its rank.
Progress(r, d, rank) ==
  /\ Sound(r) /\ (Clean(d) => Clean(r)) /\ d.fresh <= r.fresh
  /\ \E rank2 : Ranked(r, rank2) /\ \A n \in Nodes : n < d.fresh => rank2[n] = rank[n]

LEMMA StillRuns ==
  ASSUME NEW c, NEW rank, NEW f \in Nat, Runs(c, rank, f), NEW rank2, NEW f2 \in Nat, f <= f2,
         \A n \in Nodes : n < f => rank2[n] = rank[n]
  PROVE  Runs(c, rank2, f2)
<1>1. c.op \in Texts \cup Moves \cup {"copy", "remove"} => c.node \in Nodes /\ c.node < f2
  BY DEF Runs, Nodes
<1>2. c.op \in Makers \cup {"remove"} => c.parent \in Nodes /\ c.parent < f2
  BY DEF Runs, Nodes
<1>3. c.op = "remove" => rank2[c.parent] < rank2[c.node]
  BY DEF Runs
<1> QED BY <1>1, <1>2, <1>3 DEF Runs

LEMMA StillRan ==
  ASSUME NEW c, NEW f \in Nat, Ran(c, f), NEW f2 \in Nat, f <= f2
  PROVE  Ran(c, f2)
  BY DEF Ran, Nodes

\* With parents and the number of objects unchanged there is progress.
LEMMA SameTreeProgress ==
  ASSUME NEW d, Sound(d), NEW rank, Ranked(d, rank), NEW e, NEW r, Outcome(r, e, d), SameTree(e, d)
  PROVE  Progress(r, d, rank)
<1>1. Sound(r) /\ (Clean(d) => Clean(r)) /\ r.parent = d.parent /\ r.fresh = d.fresh
  BY DEF Outcome, SameTree
<1>2. d.fresh \in Nat
  BY DEF Sound, Documents
<1>3. Ranked(r, rank)
  BY <1>1 DEF Ranked
<1> QED BY <1>1, <1>2, <1>3 DEF Progress

LEMMA SameProgress ==
  ASSUME NEW d, Sound(d), NEW rank, Ranked(d, rank)
  PROVE  Progress(d, d, rank)
  BY SameOutcome, SameTreeProgress DEF SameTree

LEMMA TextProgress ==
  ASSUME NEW d, Sound(d), NEW rank, Ranked(d, rank), NEW n \in Nodes, NEW label \in Labels
  PROVE  /\ Progress(SetPayload(d, n, label), d, rank)
         /\ Progress(SetSubType(d, n, label), d, rank)
         /\ Progress(SetTag(d, n, label), d, rank)
<1> DEFINE e == [d EXCEPT !.body[n] = label]
           t == [d EXCEPT !.tag[n] = label]
<1>1. d \in Documents
  BY DEF Sound
<1>2. SameTree(e, d) /\ SameTree(t, d)
  BY <1>1 DEF Documents, SameTree
<1>3. Outcome(SetPayload(d, n, label), e, d) /\ Outcome(SetSubType(d, n, label), e, d) /\ Outcome(SetTag(d, n, label), t, d)
  BY PayloadFacts, SubTypeFacts, TagFacts
<1> HIDE DEF e, t
<1> QED BY <1>2, <1>3, SameTreeProgress

LEMMA DetachProgress ==
  ASSUME NEW d, Sound(d), NEW rank, Ranked(d, rank), NEW p \in Nodes, NEW n \in Nodes
  PROVE  Progress(Detach(d, p, n), d, rank)
<1> DEFINE e == Rehung(d, p, RemoveAt(d.children[p], IndexIn(d, p, n)), n, Nowhere)
           r == Detach(d, p, n)
<1>1. CASE n \notin ToSet(d.children[p])
  <2>1. r = d
    BY <1>1, DetachFacts
  <2> QED BY <2>1, SameProgress
<1>2. CASE n \in ToSet(d.children[p])
  <2>1. Outcome(r, e, d)
    BY <1>2, DetachFacts
  <2>2. d \in Documents /\ d.fresh \in Nat
    BY DEF Sound, Documents
  <2>3. e.fresh = d.fresh /\ e.parent = [d.parent EXCEPT ![n] = Nowhere]
    BY <2>2 DEF Rehung, Documents
  <2> HIDE DEF e, r
  <2>4. Sound(r) /\ (Clean(d) => Clean(r)) /\ r.fresh = d.fresh /\ r.parent = [d.parent EXCEPT ![n] = Nowhere]
    BY <2>1, <2>3 DEF Outcome, SameTree
  <2>5. d.parent \in [Nodes -> Nodes \cup {Nowhere}]
    BY <2>2 DEF Documents
  <2>6. \A m \in Nodes : r.parent[m] # Nowhere => r.parent[m] = d.parent[m]
    BY <2>4, <2>5
  <2>7. Ranked(r, rank)
    BY <2>6 DEF Ranked
  <2>8. Progress(r, d, rank)
    BY <2>2, <2>4, <2>7 DEF Progress
  <2> QED BY <2>8 DEF r
<1> QED BY <1>1, <1>2

LEMMA InsertProgress ==
  ASSUME NEW d, Sound(d), NEW rank, Ranked(d, rank), NEW p \in Nodes, p < d.fresh, NEW n \in Nodes, n < d.fresh,
         d.parent[n] = Nowhere, NEW i \in 1..(Len(d.children[p]) + 1), rank[p] < rank[n]
  PROVE  Progress(Insert(d, p, i, n), d, rank)
<1> DEFINE e == Rehung(d, p, InsertAt(d.children[p], i, n), n, p)
           r == Insert(d, p, i, n)
<1>1. Outcome(r, e, d)
  BY InsertFacts
<1>2. d \in Documents /\ d.fresh \in Nat
  BY DEF Sound, Documents
<1>3. e.fresh = d.fresh /\ e.parent = [d.parent EXCEPT ![n] = p]
  BY <1>2 DEF Rehung, Documents
<1> HIDE DEF e, r
<1>4. Sound(r) /\ (Clean(d) => Clean(r)) /\ r.fresh = d.fresh /\ r.parent = [d.parent EXCEPT ![n] = p]
  BY <1>1, <1>3 DEF Outcome, SameTree
<1>5. d.parent \in [Nodes -> Nodes \cup {Nowhere}]
  BY <1>2 DEF Documents
<1>6. \A m \in Nodes : m # n => r.parent[m] = d.parent[m]
  BY <1>4, <1>5
<1>7. r.parent[n] = p
  BY <1>4, <1>5
<1>8. Ranked(r, rank)
  BY <1>6, <1>7 DEF Ranked
<1>9. Progress(r, d, rank)
  BY <1>2, <1>4, <1>8 DEF Progress
<1> QED BY <1>9 DEF r

LEMMA ReorderProgress ==
  ASSUME NEW d, Sound(d), NEW rank, Ranked(d, rank), NEW p \in Nodes, NEW n \in Nodes, NEW up \in BOOLEAN
  PROVE  Progress(Reorder(d, p, n, up), d, rank)
<1> DEFINE i == IndexIn(d, p, n)
           j == IF up THEN i - 1 ELSE i + 1
           r == Reorder(d, p, n, up)
<1>1. /\ i = 0 \/ j \notin DOMAIN d.children[p] => r = d
      /\ i # 0 /\ j \in DOMAIN d.children[p] => Outcome(r, Turned(d, p, i, j), d)
  BY ReorderFacts
<1> HIDE DEF i, j, r
<1>2. CASE r = d
  BY <1>2, SameProgress DEF r
<1>3. CASE Outcome(r, Turned(d, p, i, j), d)
  <2> DEFINE e == Turned(d, p, i, j)
  <2>1. d \in Documents /\ d.fresh \in Nat
    BY DEF Sound, Documents
  <2>2. e.fresh = d.fresh /\ e.parent = d.parent
    BY <2>1 DEF Turned, Documents
  <2> HIDE DEF e
  <2>3. Sound(r) /\ (Clean(d) => Clean(r)) /\ r.fresh = d.fresh /\ r.parent = d.parent
    BY <1>3, <2>2 DEF Outcome, SameTree, e
  <2>4. Ranked(r, rank)
    BY <2>3 DEF Ranked
  <2>5. Progress(r, d, rank)
    BY <2>1, <2>3, <2>4 DEF Progress
  <2> QED BY <2>5 DEF r
<1> QED BY <1>1, <1>2, <1>3

LEMMA GrownProgress ==
  ASSUME NEW d, Sound(d), NEW rank, Ranked(d, rank), NEW r, NEW p, NEW m, Grown(r, d, p, m),
         \E rank2 : Ranked(r, rank2) /\ \A n \in Nodes : n < d.fresh => rank2[n] = rank[n]
  PROVE  Progress(r, d, rank) /\ m \in Nodes /\ m < r.fresh
<1>1. d.fresh \in Nat /\ r.fresh \in Nat /\ m \in Nat
  BY DEF Sound, Documents, Grown, Nodes
<1>2. d.fresh <= r.fresh
  BY <1>1 DEF Grown
<1> QED BY <1>2 DEF Grown, Progress

Fit(d, c) == d.fresh + (IF c.op = "copy" THEN Cardinality(Down(d, c.node)) ELSE 1) <= MaxNodes + 1

\* Both ways a command ends.
Advances(r, d, c, rank) ==
  /\ r.ok \in BOOLEAN
  /\ ~r.ok => r = Throws(d, c)
  /\ r.ok => /\ Progress(r.doc, d, rank)
             /\ Runs(r.cmd, rank, d.fresh) /\ Ran(r.cmd, r.doc.fresh)
             /\ r.cmd.op = c.op

LEMMA LastNew ==
  ASSUME NEW d, Sound(d), NEW p \in Nodes, NEW r, NEW m, Grown(r, d, p, m)
  PROVE  Last1(r, p) = m
<1>1. d.children[p] \in Seq(Nodes) /\ m \in Nodes /\ r.children[p] = Append(d.children[p], m)
  BY DEF Sound, Documents, Grown
<1> DEFINE s == d.children[p]
<1> HIDE DEF s
<1>2. Len(Append(s, m)) = Len(s) + 1 /\ Append(s, m)[Len(s) + 1] = m
  BY <1>1, AppendProperties DEF s
<1> QED BY <1>1, <1>2 DEF Last1, Last, s

LEMMA DoText ==
  ASSUME NEW d, Sound(d), NEW rank, Ranked(d, rank), NEW c, Runs(c, rank, d.fresh), c.op \in Texts
  PROVE  Advances(Do(d, c), d, c, rank)
<1>1. c \in CommandRecords /\ c.node \in Nodes /\ c.label \in Labels
  BY DEF Runs, CommandRecords
<1>2. d \in Documents /\ d.body[c.node] \in Labels /\ d.tag[c.node] \in Labels
  BY <1>1 DEF Sound, Documents
<1>3. ASSUME NEW value \in Labels
      PROVE  /\ Remembering(c, value) \in CommandRecords /\ Remembering(c, value).old \in Labels
             /\ Remembering(c, value).op = c.op /\ Remembering(c, value).node = c.node
             /\ Remembering(c, value).parent = c.parent
  BY <1>1 DEF Remembering, CommandRecords
<1>4. ASSUME NEW value \in Labels
      PROVE  Runs(Remembering(c, value), rank, d.fresh) /\ Ran(Remembering(c, value), d.fresh)
  <2> DEFINE e == Remembering(c, value)
  <2>1. e \in CommandRecords /\ e.old \in Labels /\ e.op = c.op /\ e.node = c.node /\ e.parent = c.parent
    BY <1>3
  <2> HIDE DEF e
  <2>2. Runs(e, rank, d.fresh)
    BY <2>1 DEF Runs, Texts, Makers, Moves
  <2>3. Ran(e, d.fresh)
    BY <2>1 DEF Ran, Texts, Makers
  <2> QED BY <2>2, <2>3 DEF e
<1>5. ASSUME NEW e, Progress(e, d, rank), NEW value \in Labels
      PROVE  Advances(Ok(e, Remembering(c, value)), d, c, rank)
  <2>1. Ran(Remembering(c, value), e.fresh)
    <3>1. d.fresh \in Nat /\ e.fresh \in Nat /\ d.fresh <= e.fresh
      BY <1>2, <1>5 DEF Progress, Sound, Documents
    <3> QED BY <1>4, <3>1, StillRan
  <2> QED BY <1>3, <1>4, <1>5, <2>1 DEF Advances, Ok
<1>6. CASE c.op = "edit"
  <2>1. Do(d, c) = Ok(SetPayload(d, c.node, c.label), Remembering(c, d.body[c.node]))
    BY <1>6 DEF Do
  <2> QED BY <1>1, <1>2, <1>5, <2>1, TextProgress
<1>7. CASE c.op = "sub"
  <2>1. Do(d, c) = Ok(SetSubType(d, c.node, c.label), Remembering(c, d.body[c.node]))
    BY <1>7 DEF Do
  <2> QED BY <1>1, <1>2, <1>5, <2>1, TextProgress
<1>8. CASE c.op = "tag"
  <2>1. Do(d, c) = Ok(SetTag(d, c.node, c.label), Remembering(c, d.tag[c.node]))
    BY <1>8 DEF Do
  <2> QED BY <1>1, <1>2, <1>5, <2>1, TextProgress
<1> QED BY <1>6, <1>7, <1>8 DEF Texts

\* The new object is remembered.
LEMMA MakerRemembers ==
  ASSUME NEW d, Sound(d), NEW rank, NEW c, Runs(c, rank, d.fresh), c.op \in Makers,
         NEW e, Progress(e, d, rank), NEW m \in Nodes, m < e.fresh
  PROVE  Advances(Ok(e, [c EXCEPT !.made = m]), d, c, rank)
<1> DEFINE b == [c EXCEPT !.made = m]
<1>1. c \in CommandRecords
  BY DEF Runs
<1>2. b \in CommandRecords /\ b.op = c.op /\ b.node = c.node /\ b.parent = c.parent /\ b.made = m
  BY <1>1 DEF CommandRecords
<1> HIDE DEF b
<1>3. Runs(b, rank, d.fresh)
  BY <1>2 DEF Runs, Texts, Makers, Moves
<1>4. Ran(b, e.fresh)
  BY <1>2 DEF Ran, Texts, Makers
<1>5. Ok(e, b).doc = e /\ Ok(e, b).cmd = b /\ Ok(e, b).ok = TRUE
  BY DEF Ok
<1>6. Advances(Ok(e, b), d, c, rank)
  BY <1>2, <1>3, <1>4, <1>5 DEF Advances
<1> QED BY <1>6 DEF b

MakesOne(e, m, d, c, rank) ==
  /\ Do(d, c) = Ok(e, [c EXCEPT !.made = m])
  /\ Grown(e, d, c.parent, m) /\ Progress(e, d, rank) /\ m \in Nodes /\ m < e.fresh

LEMMA MakerGrows ==
  ASSUME NEW d, Sound(d), NEW rank, Ranked(d, rank), NEW c, Runs(c, rank, d.fresh), c.op \in Makers, Fit(d, c)
  PROVE  Do(d, c) = Throws(d, c) \/ \E e, m : MakesOne(e, m, d, c, rank)
<1>1. c \in CommandRecords /\ c.parent \in Nodes /\ c.parent < d.fresh /\ c.label \in Labels
  BY DEF Runs, CommandRecords
<1>2. CASE c.op \in {"addLeaf", "addForm"}
  <2> DEFINE r == AddNew(d, c.parent, c.op = "addForm", c.label)
  <2>1. d.fresh <= MaxNodes
    <3>1. d.fresh + 1 <= MaxNodes + 1
      BY <1>2 DEF Fit
    <3>2. d.fresh \in Nat /\ MaxNodes \in Nat
      BY NodesFinite DEF Sound, Documents
    <3> QED BY <3>1, <3>2
  <2>2. (c.op = "addForm") \in BOOLEAN
    OBVIOUS
  <2>3. Grown(r, d, c.parent, d.fresh) /\ Rankable(r, d)
    <3> DEFINE b == c.op = "addForm"
    <3> HIDE DEF b
    <3>1. b \in BOOLEAN
      BY <2>2 DEF b
    <3>2. Grown(AddNew(d, c.parent, b, c.label), d, c.parent, d.fresh) /\ Rankable(AddNew(d, c.parent, b, c.label), d)
      BY <1>1, <2>1, <3>1, AddNewGrows
    <3> QED BY <3>2 DEF b
  <2>4. Do(d, c) = Ok(r, [c EXCEPT !.made = Last1(r, c.parent)])
    BY <1>2 DEF Do
  <2> HIDE DEF r
  <2>5. Last1(r, c.parent) = d.fresh
    BY <1>1, <2>3, LastNew
  <2>6. Progress(r, d, rank) /\ d.fresh \in Nodes /\ d.fresh < r.fresh
    <3>1. \E rank2 : Ranked(r, rank2) /\ \A n \in Nodes : n < d.fresh => rank2[n] = rank[n]
      BY <2>3 DEF Rankable
    <3> DEFINE f == d.fresh
    <3>2. Grown(r, d, c.parent, f)
      BY <2>3
    <3> HIDE DEF f
    <3>3. f \in Nodes /\ f < r.fresh
      BY <3>2 DEF Grown
    <3>4. Progress(r, d, rank)
      BY <3>1, <3>2, GrownProgress
    <3> QED BY <3>3, <3>4 DEF f
  <2> QED BY <2>3, <2>4, <2>5, <2>6 DEF MakesOne
<1>3. CASE c.op = "copy"
  <2>1. CASE c.node \notin ToSet(d.children[c.parent])
    <3>1. Do(d, c) = Throws(d, c)
      BY <1>3, <2>1 DEF Do
    <3> QED BY <3>1
  <2>2. CASE c.node \in ToSet(d.children[c.parent])
    <3> DEFINE r == Duplicate(d, c.parent, c.node)
    <3>1. Do(d, c) = Ok(r, [c EXCEPT !.made = Last1(r, c.parent)])
      BY <1>3, <2>2 DEF Do
    <3>2. c.node \in Nodes /\ d.fresh + Cardinality(Down(d, c.node)) <= MaxNodes + 1
      BY <1>3 DEF Runs, Fit
    <3>3. /\ \E m : Grown(r, d, c.parent, m)
          /\ \E rank2 : Ranked(r, rank2) /\ \A m \in Nodes : m < d.fresh => rank2[m] = rank[m]
      BY <1>1, <2>2, <3>2, DuplicateGrows
    <3> HIDE DEF r
    <3>4. PICK m : Grown(r, d, c.parent, m)
      BY <3>3
    <3>5. Last1(r, c.parent) = m
      BY <1>1, <3>4, LastNew
    <3>6. Progress(r, d, rank) /\ m \in Nodes /\ m < r.fresh
      BY <3>3, <3>4, GrownProgress
    <3> QED BY <3>1, <3>4, <3>5, <3>6 DEF MakesOne
  <2> QED BY <2>1, <2>2
<1> QED BY <1>2, <1>3 DEF Makers

LEMMA DoMaker ==
  ASSUME NEW d, Sound(d), NEW rank, Ranked(d, rank), NEW c, Runs(c, rank, d.fresh), c.op \in Makers, Fit(d, c)
  PROVE  Advances(Do(d, c), d, c, rank)
<1>1. CASE Do(d, c) = Throws(d, c)
  BY <1>1 DEF Advances, Throws
<1>2. CASE \E e, m : MakesOne(e, m, d, c, rank)
  BY <1>2, MakerRemembers DEF MakesOne
<1> QED BY <1>1, <1>2, MakerGrows

LEMMA SameCommand ==
  ASSUME NEW d, Sound(d), NEW rank, NEW c, NEW b, Runs(b, rank, d.fresh), b.op = c.op, b.op \notin Texts \cup Makers,
         NEW e, Progress(e, d, rank)
  PROVE  Advances(Ok(e, b), d, c, rank)
<1>1. Ran(b, e.fresh)
  BY DEF Ran
<1> QED BY <1>1 DEF Advances, Ok

LEMMA DoRemove ==
  ASSUME NEW d, Sound(d), NEW rank, Ranked(d, rank), NEW c, Runs(c, rank, d.fresh), c.op = "remove"
  PROVE  Advances(Do(d, c), d, c, rank)
<1>1. c \in CommandRecords /\ c.parent \in Nodes /\ c.node \in Nodes
  BY DEF Runs
<1> DEFINE i == IndexIn(d, c.parent, c.node)
           b == [c EXCEPT !.index = i]
<1>2. i \in Nat
  <2>1. d.children[c.parent] \in Seq(Nodes)
    BY <1>1 DEF Sound, Documents
  <2>2. DOMAIN d.children[c.parent] \subseteq Nat
    BY <2>1, LenProperties
  <2> QED BY <1>1, <2>2, IndexFacts
<1>3. Do(d, c) = Ok(Detach(d, c.parent, c.node), b)
  BY DEF Do
<1> HIDE DEF i
<1>4. b \in CommandRecords /\ b.op = c.op /\ b.node = c.node /\ b.parent = c.parent
  BY <1>1, <1>2 DEF CommandRecords
<1> HIDE DEF b
<1>5. Runs(b, rank, d.fresh)
  BY <1>4 DEF Runs, Texts, Makers, Moves
<1>6. Progress(Detach(d, c.parent, c.node), d, rank)
  BY <1>1, DetachProgress
<1>7. b.op \notin Texts \cup Makers
  BY <1>4 DEF Texts, Makers
<1> QED BY <1>3, <1>4, <1>5, <1>6, <1>7, SameCommand

LEMMA DoMove ==
  ASSUME NEW d, Sound(d), NEW rank, Ranked(d, rank), NEW c, Runs(c, rank, d.fresh), c.op \in Moves
  PROVE  /\ Advances(Do(d, c), d, c, rank)
         /\ Advances(UndoOp(d, c), d, c, rank)
<1>1. c \in CommandRecords /\ c.node \in Nodes
  BY DEF Runs
<1>2. CASE d.parent[c.node] = Nowhere
  <2>1. Do(d, c) = Throws(d, c) /\ UndoOp(d, c) = Throws(d, c)
    BY <1>2 DEF Do, UndoOp, Moves
  <2> QED BY <2>1 DEF Advances, Throws
<1>3. CASE d.parent[c.node] # Nowhere
  <2> DEFINE p == d.parent[c.node]
             up == c.op = "up"
             down == c.op = "down"
  <2>1. p \in Nodes
    BY <1>1, <1>3 DEF Sound, Documents
  <2>2. Do(d, c) = Ok(Reorder(d, p, c.node, up), c) /\ UndoOp(d, c) = Ok(Reorder(d, p, c.node, down), c)
    BY <1>3 DEF Do, UndoOp, Moves
  <2>3. up \in BOOLEAN /\ down \in BOOLEAN
    OBVIOUS
  <2> HIDE DEF p, up, down
  <2>4. Progress(Reorder(d, p, c.node, up), d, rank) /\ Progress(Reorder(d, p, c.node, down), d, rank)
    BY <1>1, <2>1, <2>3, ReorderProgress
  <2>5. c.op \notin Texts \cup Makers
    BY DEF Texts, Makers, Moves
  <2> QED BY <2>2, <2>4, <2>5, SameCommand
<1> QED BY <1>2, <1>3

LEMMA DoAdvances ==
  ASSUME NEW d, Sound(d), NEW rank, Ranked(d, rank), NEW c, Runs(c, rank, d.fresh), Fit(d, c)
  PROVE  Advances(Do(d, c), d, c, rank)
<1>1. c.op \in Texts \/ c.op \in Makers \/ c.op = "remove" \/ c.op \in Moves
  BY DEF Runs, CommandRecords, Kinds, Texts, Makers, Moves
<1> QED BY <1>1, DoText, DoMaker, DoRemove, DoMove

LEMMA UndoAdvances ==
  ASSUME NEW d, Sound(d), NEW rank, Ranked(d, rank), NEW c, Runs(c, rank, d.fresh), Ran(c, d.fresh)
  PROVE  Advances(UndoOp(d, c), d, c, rank)
<1>0. d.fresh \in Nat
  BY DEF Sound, Documents
<1>1. CASE c.op \in Texts
  <2>1. c.node \in Nodes /\ c.old \in Labels
    BY <1>1 DEF Runs, Ran
  <2>2. /\ Progress(SetPayload(d, c.node, c.old), d, rank)
        /\ Progress(SetSubType(d, c.node, c.old), d, rank)
        /\ Progress(SetTag(d, c.node, c.old), d, rank)
    BY <2>1, TextProgress
  <2>3. \/ UndoOp(d, c) = Ok(SetPayload(d, c.node, c.old), c)
        \/ UndoOp(d, c) = Ok(SetSubType(d, c.node, c.old), c)
        \/ UndoOp(d, c) = Ok(SetTag(d, c.node, c.old), c)
    BY <1>1 DEF UndoOp, Texts
  <2>4. ASSUME NEW e, Progress(e, d, rank) PROVE Advances(Ok(e, c), d, c, rank)
    <3>1. Ran(c, e.fresh)
      <4>1. e.fresh \in Nat /\ d.fresh <= e.fresh
        BY <2>4 DEF Progress, Sound, Documents
      <4> QED BY <1>0, <4>1, StillRan
    <3> QED BY <2>4, <3>1 DEF Advances, Ok
  <2> QED BY <2>2, <2>3, <2>4
<1>2. CASE c.op \in Makers
  <2>1. c.parent \in Nodes /\ c.made \in Nodes
    BY <1>2 DEF Runs, Ran
  <2>2. Progress(Detach(d, c.parent, c.made), d, rank)
    BY <2>1, DetachProgress
  <2>3. UndoOp(d, c) = Ok(Detach(d, c.parent, c.made), c)
    BY <1>2 DEF UndoOp, Makers
  <2>4. Ran(c, Detach(d, c.parent, c.made).fresh)
    <3> DEFINE e == Detach(d, c.parent, c.made)
    <3>1. e.fresh \in Nat /\ d.fresh <= e.fresh
      BY <2>2 DEF Progress, Sound, Documents
    <3> HIDE DEF e
    <3>2. Ran(c, e.fresh)
      BY <1>0, <3>1, StillRan
    <3> QED BY <3>2 DEF e
  <2> QED BY <2>2, <2>3, <2>4 DEF Advances, Ok
<1>3. CASE c.op = "remove"
  <2>1. CASE d.parent[c.node] # Nowhere \/ c.index \notin 1..(Len(d.children[c.parent]) + 1)
    <3>1. UndoOp(d, c) = Throws(d, c)
      BY <1>3, <2>1 DEF UndoOp
    <3> QED BY <3>1 DEF Advances, Throws
  <2>2. CASE ~(d.parent[c.node] # Nowhere \/ c.index \notin 1..(Len(d.children[c.parent]) + 1))
    <3>1. UndoOp(d, c) = Ok(Insert(d, c.parent, c.index, c.node), c)
      BY <1>3, <2>2 DEF UndoOp
    <3>2. /\ c.parent \in Nodes /\ c.parent < d.fresh /\ c.node \in Nodes /\ c.node < d.fresh
          /\ rank[c.parent] < rank[c.node]
      BY <1>3 DEF Runs
    <3>3. Progress(Insert(d, c.parent, c.index, c.node), d, rank)
      BY <2>2, <3>2, InsertProgress
    <3>4. c.op \notin Texts \cup Makers
      BY <1>3 DEF Texts, Makers
    <3> QED BY <3>1, <3>3, <3>4, SameCommand
  <2> QED BY <2>1, <2>2
<1>4. CASE c.op \in Moves
  BY <1>4, DoMove
<1>5. c.op \in Texts \/ c.op \in Makers \/ c.op = "remove" \/ c.op \in Moves
  BY DEF Runs, CommandRecords, Kinds, Texts, Makers, Moves
<1> QED BY <1>1, <1>2, <1>3, <1>4, <1>5

-----------------------------------------------------------------------------
(***************************************************************************)
(* The stacks.                                                             *)
(***************************************************************************)
Ready(s, rank, f) ==
  s \in Seq(CommandRecords) /\ \A i \in DOMAIN s : Runs(s[i], rank, f) /\ Ran(s[i], f)

LEMMA ReadyAppend ==
  ASSUME NEW rank, NEW f, NEW s, Ready(s, rank, f), NEW c, Runs(c, rank, f), Ran(c, f)
  PROVE  Ready(Append(s, c), rank, f) /\ Len(Append(s, c)) = Len(s) + 1 /\ Len(s) \in Nat
<1>1. s \in Seq(CommandRecords) /\ c \in CommandRecords
  BY DEF Ready, Runs
<1> DEFINE t == Append(s, c)
<1>2. /\ t \in Seq(CommandRecords) /\ Len(t) = Len(s) + 1 /\ t[Len(s) + 1] = c /\ Len(s) \in Nat
      /\ \A i \in 1..Len(s) : t[i] = s[i] /\ DOMAIN s = 1..Len(s) /\ DOMAIN t = 1..Len(s) + 1
  BY <1>1, AppendProperties, LenProperties
<1>3. DOMAIN t = 1..Len(s) + 1 /\ DOMAIN s = 1..Len(s)
  BY <1>1, <1>2, LenProperties
<1> HIDE DEF t
<1>4. \A i \in DOMAIN t : i = Len(s) + 1 \/ i \in DOMAIN s
  BY <1>2, <1>3
<1>5. \A i \in DOMAIN t : Runs(t[i], rank, f) /\ Ran(t[i], f)
  BY <1>2, <1>3, <1>4 DEF Ready
<1> QED BY <1>2, <1>5 DEF Ready, t

LEMMA ReadyFront ==
  ASSUME NEW rank, NEW f, NEW s, Ready(s, rank, f), s # <<>>
  PROVE  /\ Ready(Front(s), rank, f) /\ Len(Front(s)) = Len(s) - 1 /\ Len(s) \in Nat /\ Len(s) >= 1
         /\ Runs(Last(s), rank, f) /\ Ran(Last(s), f)
<1>1. s \in Seq(CommandRecords)
  BY DEF Ready
<1>2. Len(s) \in Nat /\ DOMAIN s = 1..Len(s) /\ Len(s) # 0
  BY <1>1, LenProperties, EmptySeq
<1>3. Len(s) >= 1
  BY <1>2
<1>4. Last(s) = s[Len(s)] /\ Len(s) \in DOMAIN s
  BY <1>2, <1>3 DEF Last
<1> DEFINE t == SubSeq(s, 1, Len(s) - 1)
<1>5. Front(s) = t
  BY DEF Front
<1>6. t \in Seq(CommandRecords) /\ Len(t) = Len(s) - 1 /\ \A i \in 1..Len(s) - 1 : t[i] = s[i]
  <2>1. 1 \in 1..(Len(s) + 1) /\ Len(s) - 1 \in 0..Len(s) /\ 1 <= (Len(s) - 1) + 1
    BY <1>2, <1>3
  <2>2. \A i \in 1..Len(s) : s[i] \in CommandRecords
    BY <1>1, ElementOfSeq
  <2>3. t = [i \in 1..Len(s) - 1 |-> s[i]]
    BY <1>1, <1>2, <1>3
  <2>4. t \in [1..Len(s) - 1 -> CommandRecords]
    <3>1. \A i \in 1..Len(s) - 1 : i \in 1..Len(s)
      BY <1>2
    <3>2. \A i \in 1..Len(s) - 1 : s[i] \in CommandRecords
      BY <2>2, <3>1
    <3> HIDE DEF t, CommandRecords
    <3> QED BY <2>3, <3>2
  <2>5. Len(s) - 1 \in Nat
    BY <1>2, <1>3
  <2> HIDE DEF t
  <2>6. t \in Seq(CommandRecords) /\ Len(t) = Len(s) - 1
    BY <2>4, <2>5, FunctionIsSeq
  <2> QED BY <2>3, <2>6
<1> HIDE DEF t
<1>7. \A i \in DOMAIN t : t[i] = s[i] /\ i \in DOMAIN s
  <2>1. DOMAIN t = 1..Len(s) - 1
    BY <1>6, LenProperties
  <2> QED BY <1>2, <1>6, <2>1
<1> QED BY <1>2, <1>3, <1>4, <1>5, <1>6, <1>7 DEF Ready

LEMMA ReadyLater ==
  ASSUME NEW s, NEW rank, NEW f \in Nat, Ready(s, rank, f), NEW rank2, NEW f2 \in Nat, f <= f2,
         \A n \in Nodes : n < f => rank2[n] = rank[n]
  PROVE  Ready(s, rank2, f2)
<1>1. ASSUME NEW i \in DOMAIN s PROVE Runs(s[i], rank2, f2) /\ Ran(s[i], f2)
  BY StillRuns, StillRan DEF Ready
<1> QED BY <1>1 DEF Ready

LEMMA NothingReady ==
  ASSUME NEW rank, NEW f
  PROVE  Ready(<<>>, rank, f) /\ Len(<<>>) = 0
  BY DEF Ready

-----------------------------------------------------------------------------
(***************************************************************************)
(* What the user may ask for.                                              *)
(***************************************************************************)
LEMMA AskedFacts ==
  ASSUME Sound(doc), Root < doc.fresh, NEW rank, Ranked(doc, rank), NEW c \in Asked
  PROVE  /\ Runs(c, rank, doc.fresh)
         /\ c.op \in {"copy", "remove", "up", "down"} =>
              /\ c.parent = doc.parent[c.node] /\ c.parent \in Nodes
              /\ c.node \in ToSet(doc.children[c.parent])
         /\ c.op \in Texts \cup Moves \cup {"copy", "remove"} => c.node \in Down(doc, Root)
         /\ c.op \in Makers \cup {"remove"} => c.parent \in Down(doc, Root)
<1> DEFINE D == Down(doc, Root)
<1>1. Root \in Nodes /\ Plain \in Labels
  BY LoadingSound, IffAssumption DEF IffAssumption
<1>2. /\ Root \in D /\ D \subseteq Nodes
      /\ \A m \in D : m = Root \/ doc.parent[m] \in D
  BY <1>1, DownIs, DownParents
<1>3. \A m \in D : m # Root => /\ doc.parent[m] \in D /\ doc.parent[m] \in Nodes
                               /\ m \in ToSet(doc.children[doc.parent[m]])
                               /\ m < doc.fresh /\ doc.parent[m] < doc.fresh
                               /\ rank[doc.parent[m]] < rank[m]
  <2> SUFFICES ASSUME NEW m \in D, m # Root
               PROVE  /\ doc.parent[m] \in D /\ doc.parent[m] \in Nodes
                      /\ m \in ToSet(doc.children[doc.parent[m]])
                      /\ m < doc.fresh /\ doc.parent[m] < doc.fresh
                      /\ rank[doc.parent[m]] < rank[m]
    OBVIOUS
  <2>1. m \in Nodes /\ doc.parent[m] \in D /\ doc.parent[m] \in Nodes
    BY <1>2
  <2>2. m \in ToSet(doc.children[doc.parent[m]])
    BY <2>1 DEF Sound, Fits
  <2>3. m < doc.fresh /\ doc.parent[m] < doc.fresh
    BY <2>1, <2>2, PlacedFacts
  <2>4. doc.parent[m] # Nowhere
    BY <2>1 DEF Nodes, Nowhere
  <2>5. rank[doc.parent[m]] < rank[m]
    BY <2>1, <2>4 DEF Ranked
  <2> QED BY <2>1, <2>2, <2>3, <2>5
<1>4. \A m \in D : m < doc.fresh
  BY <1>3
<1> HIDE DEF D
<1>5. Below = D \ {Root}
  BY DEF Below, D
<1> USE DEF Command, CommandRecords, Kinds, Texts, Moves, Makers
<1>6. CASE \E n \in Down(doc, Root), x \in Labels : c = Command("edit", n, Nowhere, x) \/ c = Command("tag", n, Nowhere, x)
                                          \/ c = Command("sub", n, Nowhere, x)
  <2>1. PICK n \in D, x \in Labels : c = Command("edit", n, Nowhere, x) \/ c = Command("tag", n, Nowhere, x)
                                          \/ c = Command("sub", n, Nowhere, x)
    BY <1>6 DEF D
  <2>2. /\ c.op \in Texts /\ c.node = n /\ c \in CommandRecords /\ n \in D /\ n \in Nodes /\ n < doc.fresh
    BY <1>2, <1>4, <2>1
  <2> HIDE DEF Command, CommandRecords, Kinds
  <2> QED BY <2>2 DEF Runs, D
<1>7. CASE \E op \in {"addLeaf", "addForm"}, p \in Down(doc, Root) : c = Command(op, Nowhere, p, Plain)
  <2>1. PICK op \in {"addLeaf", "addForm"}, p \in D : c = Command(op, Nowhere, p, Plain)
    BY <1>7 DEF D
  <2>2. /\ c.op \in {"addLeaf", "addForm"} /\ c.parent = p /\ c \in CommandRecords
        /\ p \in D /\ p \in Nodes /\ p < doc.fresh
    BY <1>1, <1>2, <1>4, <2>1
  <2> HIDE DEF Command, CommandRecords, Kinds
  <2> QED BY <2>2 DEF Runs, D
<1>8. CASE \E op \in {"remove", "copy", "up", "down"}, n \in Below : c = Command(op, n, doc.parent[n], Plain)
  <2>1. PICK op \in {"remove", "copy", "up", "down"}, n \in Below : c = Command(op, n, doc.parent[n], Plain)
    BY <1>8
  <2>2. n \in D /\ n # Root /\ n \in Nodes
    BY <1>2, <1>5
  <2>3. /\ doc.parent[n] \in D /\ doc.parent[n] \in Nodes
        /\ n \in ToSet(doc.children[doc.parent[n]])
        /\ n < doc.fresh /\ doc.parent[n] < doc.fresh
        /\ rank[doc.parent[n]] < rank[n]
    BY <1>3, <2>2
  <2>4. c.op = op /\ c.node = n /\ c.parent = doc.parent[n] /\ c \in CommandRecords
    BY <1>1, <2>1, <2>2, <2>3
  <2> HIDE DEF Command, CommandRecords, Kinds
  <2> QED BY <2>2, <2>3, <2>4 DEF Runs, D
<1>9. \/ \E n \in Down(doc, Root), x \in Labels : c = Command("edit", n, Nowhere, x) \/ c = Command("tag", n, Nowhere, x)
                                          \/ c = Command("sub", n, Nowhere, x)
      \/ \E op \in {"addLeaf", "addForm"}, p \in Down(doc, Root) : c = Command(op, Nowhere, p, Plain)
      \/ \E op \in {"remove", "copy", "up", "down"}, n \in Below : c = Command(op, n, doc.parent[n], Plain)
  <2> HIDE DEF Command, CommandRecords, Kinds
  <2> QED BY DEF Asked, Below
<1> QED BY <1>6, <1>7, <1>8, <1>9

LEMMA AskedGoesThrough ==
  ASSUME Sound(doc), Root < doc.fresh, NEW rank, Ranked(doc, rank), NEW c \in Asked
  PROVE  Do(doc, c).ok
<1>1. /\ Runs(c, rank, doc.fresh)
      /\ c.op \in {"copy", "remove", "up", "down"} =>
              /\ c.parent = doc.parent[c.node] /\ c.parent \in Nodes
              /\ c.node \in ToSet(doc.children[c.parent])
  BY AskedFacts
<1>2. Nowhere \notin Nodes
  BY DEF Nodes, Nowhere
<1>3. \A e, b : Ok(e, b).ok
  BY DEF Ok
<1>4. CASE c.op \in Texts
  BY <1>3, <1>4 DEF Do, Texts
<1>5. CASE c.op \in {"addLeaf", "addForm"}
  BY <1>3, <1>5 DEF Do
<1>6. CASE c.op = "copy"
  BY <1>1, <1>3, <1>6 DEF Do
<1>7. CASE c.op = "remove"
  BY <1>3, <1>7 DEF Do
<1>8. CASE c.op \in Moves
  BY <1>1, <1>2, <1>3, <1>8 DEF Do, Moves
<1> QED BY <1>1, <1>4, <1>5, <1>6, <1>7, <1>8 DEF Runs, CommandRecords, Kinds, Texts, Moves

-----------------------------------------------------------------------------
(***************************************************************************)
(* The inductive invariant.                                                *)
(***************************************************************************)
Counters ==
  /\ applies \in 0..MaxApplies /\ net \in Nat
  /\ Len(undoStack) <= net /\ net + Len(redoStack) <= applies
  /\ edgeMoves \in BOOLEAN /\ recreated \in BOOLEAN

Orderly(rank) ==
  /\ Sound(doc) /\ Clean(doc) /\ Root < doc.fresh
  /\ Ranked(doc, rank) /\ Ready(undoStack, rank, doc.fresh) /\ Ready(redoStack, rank, doc.fresh)

TreeInv == Counters /\ \E rank : Orderly(rank)

LEMMA TreeInvInit == Init => TreeInv
<1> SUFFICES ASSUME Init PROVE TreeInv
  OBVIOUS
<1>1. Counters
  <2>1. Len(<<>>) = 0 /\ MaxApplies \in Nat
    BY IffAssumption DEF IffAssumption
  <2>2. undoStack = <<>> /\ redoStack = <<>> /\ net = 0 /\ applies = 0
    BY DEF Init
  <2>3. Len(undoStack) = 0 /\ Len(redoStack) = 0
    BY <2>1, <2>2
  <2>4. edgeMoves \in BOOLEAN /\ recreated \in BOOLEAN
    BY DEF Init
  <2> QED BY <2>1, <2>2, <2>3, <2>4 DEF Counters
<1>2. Orderly([n \in Nodes |-> n])
  BY LoadingSound, NothingReady DEF Init, Orderly
<1> QED BY <1>1, <1>2 DEF TreeInv

\* After progress the documents and the stacks are in order under new ranks.
LEMMA OrderlyLater ==
  ASSUME NEW d, NEW rank, Sound(d), Clean(d), Root < d.fresh,
         NEW r, Progress(r, d, rank)
  PROVE  /\ Sound(r) /\ Clean(r) /\ Root < r.fresh
         /\ \E rank2 :
              /\ Ranked(r, rank2)
              /\ \A s : Ready(s, rank, d.fresh) => Ready(s, rank2, r.fresh)
              /\ \A c : Runs(c, rank, d.fresh) => Runs(c, rank2, r.fresh)
<1>1. Sound(r) /\ Clean(r) /\ d.fresh <= r.fresh
  BY DEF Progress
<1>2. d.fresh \in Nat /\ r.fresh \in Nat /\ Root \in Nat
  BY <1>1 DEF Sound, Documents, Root
<1>3. PICK rank2 : Ranked(r, rank2) /\ \A n \in Nodes : n < d.fresh => rank2[n] = rank[n]
  BY DEF Progress
<1>4. \A s : Ready(s, rank, d.fresh) => Ready(s, rank2, r.fresh)
  <2> DEFINE f == d.fresh
             f2 == r.fresh
  <2> HIDE DEF f, f2
  <2>1. f \in Nat /\ f2 \in Nat /\ f <= f2 /\ \A n \in Nodes : n < f => rank2[n] = rank[n]
    BY <1>1, <1>2, <1>3 DEF f, f2
  <2>2. \A s : Ready(s, rank, f) => Ready(s, rank2, f2)
    BY <2>1, ReadyLater
  <2> QED BY <2>2 DEF f, f2
<1>5. \A c : Runs(c, rank, d.fresh) => Runs(c, rank2, r.fresh)
  <2> DEFINE f == d.fresh
             f2 == r.fresh
  <2> HIDE DEF f, f2
  <2>1. f \in Nat /\ f2 \in Nat /\ f <= f2 /\ \A n \in Nodes : n < f => rank2[n] = rank[n]
    BY <1>1, <1>2, <1>3 DEF f, f2
  <2>2. \A c : Runs(c, rank, f) => Runs(c, rank2, f2)
    BY <2>1, StillRuns
  <2> QED BY <2>2 DEF f, f2
<1>6. Root < r.fresh
  BY <1>1, <1>2
<1> QED BY <1>1, <1>3, <1>4, <1>5, <1>6

LEMMA ApplyKeepsTree ==
  ASSUME TreeInv, NEW c \in Asked, Apply(c)
  PROVE  TreeInv'
<1>1. PICK rank : Orderly(rank)
  BY DEF TreeInv
<1> DEFINE r == Do(doc, c)
<1>2. Runs(c, rank, doc.fresh) /\ r.ok /\ Fit(doc, c)
  BY <1>1, AskedFacts, AskedGoesThrough DEF Orderly, Apply, Room, Fit
<1>3. Advances(r, doc, c, rank)
  BY <1>1, <1>2, DoAdvances DEF Orderly
<1> HIDE DEF r
<1>4. Progress(r.doc, doc, rank) /\ Runs(r.cmd, rank, doc.fresh) /\ Ran(r.cmd, r.doc.fresh)
  BY <1>2, <1>3 DEF Advances
<1>5. doc' = r.doc /\ undoStack' = Append(undoStack, r.cmd) /\ redoStack' = <<>>
  BY DEF Apply, r
<1>6. Sound(r.doc) /\ Clean(r.doc) /\ Root < r.doc.fresh
  BY <1>1, <1>4, OrderlyLater DEF Orderly
<1>7. PICK rank2 :
        /\ Ranked(r.doc, rank2)
        /\ \A s : Ready(s, rank, doc.fresh) => Ready(s, rank2, r.doc.fresh)
        /\ \A b : Runs(b, rank, doc.fresh) => Runs(b, rank2, r.doc.fresh)
  BY <1>1, <1>4, OrderlyLater DEF Orderly
<1>8. Ready(undoStack, rank2, r.doc.fresh) /\ Runs(r.cmd, rank2, r.doc.fresh)
  BY <1>1, <1>4, <1>7 DEF Orderly
<1>9. Ready(Append(undoStack, r.cmd), rank2, r.doc.fresh) /\ Len(Append(undoStack, r.cmd)) = Len(undoStack) + 1
      /\ Len(undoStack) \in Nat
  BY <1>4, <1>8, ReadyAppend
<1>10. Ready(<<>>, rank2, r.doc.fresh) /\ Len(<<>>) = 0
  BY NothingReady
<1>11. \E q : Orderly(q)'
  <2>1. Orderly(rank2)'
    BY <1>5, <1>6, <1>7, <1>9, <1>10 DEF Orderly
  <2> QED BY <2>1
<1>12. Counters'
  <2>1. /\ applies \in 0..MaxApplies /\ net \in Nat /\ Len(undoStack) <= net /\ net + Len(redoStack) <= applies
        /\ edgeMoves \in BOOLEAN /\ recreated \in BOOLEAN /\ MaxApplies \in Nat
    BY IffAssumption DEF TreeInv, Counters, IffAssumption
  <2>2. /\ applies < MaxApplies /\ net' = net + 1 /\ applies' = applies + 1 /\ recreated' = recreated
        /\ edgeMoves' \in BOOLEAN
    BY DEF Apply
  <2>3. Len(redoStack) \in Nat
    BY <1>1, LenProperties DEF Orderly, Ready
  <2>4. Len(undoStack') = Len(undoStack) + 1 /\ Len(redoStack') = 0
    BY <1>5, <1>9, <1>10
  <2> QED BY <1>9, <2>1, <2>2, <2>3, <2>4 DEF Counters
<1> QED BY <1>11, <1>12 DEF TreeInv

LEMMA UndoKeepsTree ==
  ASSUME TreeInv, Undo
  PROVE  TreeInv'
<1>1. PICK rank : Orderly(rank)
  BY DEF TreeInv
<1> DEFINE c == Last(undoStack)
           r == UndoOp(doc, c)
<1>2. undoStack # <<>> /\ undoStack' = Front(undoStack)
  BY DEF Undo
<1>3. /\ Ready(Front(undoStack), rank, doc.fresh) /\ Len(Front(undoStack)) = Len(undoStack) - 1
      /\ Len(undoStack) \in Nat /\ Len(undoStack) >= 1
      /\ Runs(c, rank, doc.fresh) /\ Ran(c, doc.fresh)
  BY <1>1, <1>2, ReadyFront DEF Orderly
<1>4. Advances(r, doc, c, rank)
  BY <1>1, <1>3, UndoAdvances DEF Orderly
<1>5. /\ applies \in 0..MaxApplies /\ net \in Nat /\ Len(undoStack) <= net /\ net + Len(redoStack) <= applies
      /\ edgeMoves \in BOOLEAN /\ recreated \in BOOLEAN /\ MaxApplies \in Nat
  BY IffAssumption DEF TreeInv, Counters, IffAssumption
<1>6. applies' = applies /\ recreated' = recreated /\ edgeMoves' = edgeMoves
  BY DEF Undo
<1>7. Len(redoStack) \in Nat
  BY <1>1, LenProperties DEF Orderly, Ready
<1>8. CASE r.ok
  <2>1. doc' = r.doc /\ redoStack' = Append(redoStack, r.cmd) /\ net' = net - 1
    BY <1>8 DEF Undo
  <2> HIDE DEF r, c
  <2>2. Progress(r.doc, doc, rank) /\ Runs(r.cmd, rank, doc.fresh) /\ Ran(r.cmd, r.doc.fresh)
    BY <1>4, <1>8 DEF Advances
  <2>3. Sound(r.doc) /\ Clean(r.doc) /\ Root < r.doc.fresh
    BY <1>1, <2>2, OrderlyLater DEF Orderly
  <2>4. PICK rank2 :
        /\ Ranked(r.doc, rank2)
        /\ \A s : Ready(s, rank, doc.fresh) => Ready(s, rank2, r.doc.fresh)
        /\ \A b : Runs(b, rank, doc.fresh) => Runs(b, rank2, r.doc.fresh)
    BY <1>1, <2>2, OrderlyLater DEF Orderly
  <2>5. Ready(Front(undoStack), rank2, r.doc.fresh) /\ Ready(redoStack, rank2, r.doc.fresh) /\ Runs(r.cmd, rank2, r.doc.fresh)
    BY <1>1, <1>3, <2>2, <2>4 DEF Orderly
  <2>6. Ready(Append(redoStack, r.cmd), rank2, r.doc.fresh) /\ Len(Append(redoStack, r.cmd)) = Len(redoStack) + 1
    BY <2>2, <2>5, ReadyAppend
  <2>7. Orderly(rank2)'
    BY <1>2, <2>1, <2>3, <2>4, <2>5, <2>6 DEF Orderly
  <2>8. Counters'
    BY <1>2, <1>3, <1>5, <1>6, <1>7, <2>1, <2>6 DEF Counters
  <2> QED BY <2>7, <2>8 DEF TreeInv
<1>9. CASE ~r.ok
  <2>1. doc' = doc /\ redoStack' = redoStack /\ net' = net
    BY <1>9 DEF Undo
  <2>2. Orderly(rank)'
    BY <1>1, <1>2, <1>3, <2>1 DEF Orderly
  <2>3. Counters'
    BY <1>2, <1>3, <1>5, <1>6, <1>7, <2>1 DEF Counters
  <2> QED BY <2>2, <2>3 DEF TreeInv
<1> QED BY <1>8, <1>9

LEMMA RedoKeepsTree ==
  ASSUME TreeInv, Redo
  PROVE  TreeInv'
<1>1. PICK rank : Orderly(rank)
  BY DEF TreeInv
<1> DEFINE c == Last(redoStack)
           r == Do(doc, c)
<1>2. redoStack # <<>> /\ redoStack' = Front(redoStack) /\ Fit(doc, c)
  BY DEF Redo, Room, Fit
<1>3. /\ Ready(Front(redoStack), rank, doc.fresh) /\ Len(Front(redoStack)) = Len(redoStack) - 1
      /\ Len(redoStack) \in Nat /\ Len(redoStack) >= 1
      /\ Runs(c, rank, doc.fresh) /\ Ran(c, doc.fresh)
  BY <1>1, <1>2, ReadyFront DEF Orderly
<1>4. Advances(r, doc, c, rank)
  BY <1>1, <1>2, <1>3, DoAdvances DEF Orderly
<1>5. /\ applies \in 0..MaxApplies /\ net \in Nat /\ Len(undoStack) <= net /\ net + Len(redoStack) <= applies
      /\ edgeMoves \in BOOLEAN /\ recreated \in BOOLEAN /\ MaxApplies \in Nat
  BY IffAssumption DEF TreeInv, Counters, IffAssumption
<1>6. applies' = applies /\ recreated' \in BOOLEAN /\ edgeMoves' = edgeMoves
  BY DEF Redo
<1>7. Len(undoStack) \in Nat
  BY <1>1, LenProperties DEF Orderly, Ready
<1>8. CASE r.ok
  <2>1. doc' = r.doc /\ undoStack' = Append(undoStack, r.cmd) /\ net' = net + 1
    BY <1>8 DEF Redo
  <2> HIDE DEF r, c
  <2>2. Progress(r.doc, doc, rank) /\ Runs(r.cmd, rank, doc.fresh) /\ Ran(r.cmd, r.doc.fresh)
    BY <1>4, <1>8 DEF Advances
  <2>3. Sound(r.doc) /\ Clean(r.doc) /\ Root < r.doc.fresh
    BY <1>1, <2>2, OrderlyLater DEF Orderly
  <2>4. PICK rank2 :
        /\ Ranked(r.doc, rank2)
        /\ \A s : Ready(s, rank, doc.fresh) => Ready(s, rank2, r.doc.fresh)
        /\ \A b : Runs(b, rank, doc.fresh) => Runs(b, rank2, r.doc.fresh)
    BY <1>1, <2>2, OrderlyLater DEF Orderly
  <2>5. Ready(Front(redoStack), rank2, r.doc.fresh) /\ Ready(undoStack, rank2, r.doc.fresh) /\ Runs(r.cmd, rank2, r.doc.fresh)
    BY <1>1, <1>3, <2>2, <2>4 DEF Orderly
  <2>6. Ready(Append(undoStack, r.cmd), rank2, r.doc.fresh) /\ Len(Append(undoStack, r.cmd)) = Len(undoStack) + 1
    BY <2>2, <2>5, ReadyAppend
  <2>7. Orderly(rank2)'
    BY <1>2, <2>1, <2>3, <2>4, <2>5, <2>6 DEF Orderly
  <2>8. Counters'
    BY <1>2, <1>3, <1>5, <1>6, <1>7, <2>1, <2>6 DEF Counters
  <2> QED BY <2>7, <2>8 DEF TreeInv
<1>9. CASE ~r.ok
  <2>1. doc' = doc /\ undoStack' = undoStack /\ net' = net
    BY <1>9 DEF Redo
  <2>2. Orderly(rank)'
    BY <1>1, <1>2, <1>3, <2>1 DEF Orderly
  <2>3. Counters'
    BY <1>2, <1>3, <1>5, <1>6, <1>7, <2>1 DEF Counters
  <2> QED BY <2>2, <2>3 DEF TreeInv
<1> QED BY <1>8, <1>9

LEMMA TreeInvHolds == Spec => []TreeInv
<1>1. TreeInv /\ [Next]_vars => TreeInv'
  <2> SUFFICES ASSUME TreeInv, [Next]_vars PROVE TreeInv'
    OBVIOUS
  <2>1. CASE \E c \in Asked : Apply(c)
    BY <2>1, ApplyKeepsTree
  <2>2. CASE Undo
    BY <2>2, UndoKeepsTree
  <2>3. CASE Redo
    BY <2>3, RedoKeepsTree
  <2>4. CASE UNCHANGED vars
    <3>1. PICK rank : Orderly(rank)
      BY DEF TreeInv
    <3>2. Orderly(rank)' /\ Counters'
      BY <2>4, <3>1 DEF Orderly, Counters, TreeInv, vars
    <3> QED BY <3>2 DEF TreeInv
  <2> QED BY <2>1, <2>2, <2>3, <2>4 DEF Next
<1> QED BY <1>1, TreeInvInit, PTL DEF Spec

-----------------------------------------------------------------------------
LEMMA UpRanks ==
  ASSUME NEW d, Sound(d), NEW n \in Nodes, NEW rank, Ranked(d, rank)
  PROVE  \A m \in Up(d, n) : rank[m] <= rank[n]
<1> DEFINE S == {m \in Nodes : rank[m] <= rank[n]}
<1>1. rank \in [Nodes -> Nat] /\ \A m \in Nodes : d.parent[m] # Nowhere => rank[d.parent[m]] < rank[m]
  BY DEF Ranked
<1>2. d.parent \in [Nodes -> Nodes \cup {Nowhere}]
  BY DEF Sound, Documents
<1>3. Reached(Up(d, n), n, Above(d))
  BY <1>2, UpFacts
<1>4. n \in S /\ S \in SUBSET Nodes
  BY <1>1
<1>5. ASSUME NEW m \in S PROVE Above(d)[m] \subseteq S
  <2>1. Above(d)[m] = {d.parent[m]} \ {Nowhere} /\ m \in Nodes /\ rank[m] <= rank[n]
    BY DEF Above
  <2>2. ASSUME d.parent[m] # Nowhere PROVE d.parent[m] \in S
    <3>1. d.parent[m] \in Nodes /\ rank[d.parent[m]] < rank[m]
      BY <1>1, <1>2, <2>1, <2>2
    <3> QED BY <1>1, <2>1, <3>1
  <2> QED BY <2>1, <2>2
<1> HIDE DEF S
<1>6. Up(d, n) \subseteq S
  BY <1>3, <1>4, <1>5 DEF Reached, Closed
<1> QED BY <1>6 DEF S

\* Parents and children agree, every node has one place and nothing hangs below itself,
\* whatever is added, copied, removed, moved, undone and redone.
THEOREM TreeStaysSound == Spec => []TreeIsSound
<1>1. TreeInv => TreeIsSound
  <2> SUFFICES ASSUME TreeInv PROVE TreeIsSound
    OBVIOUS
  <2>1. PICK rank : Orderly(rank)
    BY DEF TreeInv
  <2>2. doc \in Documents /\ Fits(doc.children, doc.parent) /\ Ranked(doc, rank) /\ Sound(doc)
    BY <2>1 DEF Orderly, Sound
  <2>3. Typed
    <3>1. net \in 0..MaxApplies
      <4>1. Len(redoStack) \in Nat
        BY <2>1, LenProperties DEF Orderly, Ready
      <4> QED BY <4>1, IffAssumption DEF TreeInv, Counters, IffAssumption
    <3> QED BY <2>2, <3>1 DEF Typed, Documents, TreeInv, Counters
  <2>4. \A p \in Nodes : \A i \in DOMAIN doc.children[p] :
          doc.children[p][i] \in Nodes /\ doc.parent[doc.children[p][i]] = p
    <3> SUFFICES ASSUME NEW p \in Nodes, NEW i \in DOMAIN doc.children[p]
                 PROVE  doc.children[p][i] \in Nodes /\ doc.parent[doc.children[p][i]] = p
      OBVIOUS
    <3> DEFINE s == doc.children[p]
    <3>1. s \in Seq(Nodes)
      BY <2>2 DEF Documents
    <3>2. s[i] \in Nodes /\ s[i] \in ToSet(s)
      <4> HIDE DEF s
      <4>1. DOMAIN s = 1..Len(s) /\ i \in DOMAIN s
        BY <3>1, LenProperties DEF s
      <4> QED BY <3>1, <4>1, ElementOfSeq DEF ToSet
    <3> QED BY <2>2, <3>2 DEF Fits
  <2>5. ASSUME NEW n \in Nodes, doc.parent[n] # Nowhere
        PROVE  /\ \E i \in DOMAIN doc.children[doc.parent[n]] :
                    /\ doc.children[doc.parent[n]][i] = n
                    /\ \A j \in DOMAIN doc.children[doc.parent[n]] \ {i} : doc.children[doc.parent[n]][j] # n
               /\ n \notin Up(doc, doc.parent[n])
    <3> DEFINE p == doc.parent[n]
    <3>1. p \in Nodes
      BY <2>2, <2>5 DEF Documents
    <3>2. n \in ToSet(doc.children[p]) /\ Once(doc.children[p])
      BY <2>2, <3>1 DEF Fits
    <3>3. \E i \in DOMAIN doc.children[p] :
            /\ doc.children[p][i] = n
            /\ \A j \in DOMAIN doc.children[p] \ {i} : doc.children[p][j] # n
      BY <3>2 DEF ToSet, Once
    <3>4. rank[p] < rank[n] /\ rank[p] \in Nat /\ rank[n] \in Nat
      BY <2>2, <2>5, <3>1 DEF Ranked
    <3>5. \A m \in Up(doc, p) : rank[m] <= rank[p]
      <4> HIDE DEF p
      <4> QED BY <2>2, <3>1, UpRanks
    <3>6. n \notin Up(doc, p)
      BY <3>4, <3>5
    <3> QED BY <3>3, <3>6
  <2> QED BY <2>3, <2>4, <2>5 DEF TreeIsSound
<1> QED BY <1>1, TreeInvHolds, PTL

\* The writer, which copies the bytes a clean node was read from, writes what the
\* document holds: a node that kept its slice is as it was read, and so is all below it.
THEOREM WhatIsWrittenIsThere == Spec => []WritesWhatIsThere
<1>1. TreeInv => WritesWhatIsThere
  <2> SUFFICES ASSUME TreeInv PROVE Written(doc) = View(doc)
    BY DEF WritesWhatIsThere
  <2>1. PICK rank : Orderly(rank)
    BY DEF TreeInv
  <2>2. Clean(doc) /\ doc.children \in [Nodes -> Seq(Nodes)]
    BY <2>1 DEF Orderly, Sound, Documents
  <2>3. 1 \in Nodes
    BY LoadingSound DEF Root
  <2> QED BY <2>2, <2>3, CleanIsWritten
<1> QED BY <1>1, TreeInvHolds, PTL

-----------------------------------------------------------------------------
(***************************************************************************)
(* The history: the documents before and after each command, as far as the *)
(* nodes go that were there.                                               *)
(***************************************************************************)
\* d is a on the nodes that were there.
Agree(d, a) ==
  /\ a.fresh <= d.fresh
  /\ \A n \in Nodes : n < a.fresh =>
       /\ d.children[n] = a.children[n] /\ d.parent[n] = a.parent[n]
       /\ d.tag[n] = a.tag[n] /\ d.body[n] = a.body[n]

\* Nothing leads from the nodes that were there to later ones.
Sealed(a) ==
  /\ a.children \in [Nodes -> Seq(Nodes)] /\ a.parent \in [Nodes -> Nodes \cup {Nowhere}]
  /\ a.tag \in [Nodes -> Labels] /\ a.body \in [Nodes -> Labels]
  /\ a.fresh \in Nat /\ Root < a.fresh
  /\ \A n \in Nodes : n < a.fresh => \A x \in ToSet(a.children[n]) : x < a.fresh

\* How the documents before and after a command differ.
LinkText(a, c, b) ==
  /\ b.fresh = a.fresh /\ c.node \in Nodes /\ c.node < a.fresh
  /\ \A n \in Nodes : n < a.fresh =>
       /\ b.children[n] = a.children[n] /\ b.parent[n] = a.parent[n]
       /\ c.op = "tag" => /\ b.tag[n] = IF n = c.node THEN c.label ELSE a.tag[n]
                          /\ b.body[n] = a.body[n] /\ c.old = a.tag[c.node]
       /\ c.op # "tag" => /\ b.body[n] = IF n = c.node THEN c.label ELSE a.body[n]
                          /\ b.tag[n] = a.tag[n] /\ c.old = a.body[c.node]

LinkMaker(a, c, b) ==
  /\ c.parent \in Nodes /\ c.parent < a.fresh /\ c.made \in Nodes
  /\ a.fresh <= c.made /\ c.made < b.fresh /\ a.fresh <= b.fresh
  /\ b.children[c.parent] = Append(a.children[c.parent], c.made)
  /\ \A n \in Nodes : n < a.fresh =>
       /\ n # c.parent => b.children[n] = a.children[n]
       /\ b.parent[n] = a.parent[n] /\ b.tag[n] = a.tag[n] /\ b.body[n] = a.body[n]

LinkRemove(a, c, b) ==
  /\ b.fresh = a.fresh
  /\ c.node \in Nodes /\ c.node < a.fresh /\ c.parent \in Nodes /\ c.parent < a.fresh
  /\ c.index \in DOMAIN a.children[c.parent] /\ a.children[c.parent][c.index] = c.node
  /\ a.parent[c.node] = c.parent /\ b.parent[c.node] = Nowhere
  /\ b.children[c.parent] = RemoveAt(a.children[c.parent], c.index)
  /\ \A n \in Nodes : n < a.fresh =>
       /\ n # c.parent => b.children[n] = a.children[n]
       /\ n # c.node => b.parent[n] = a.parent[n]
       /\ b.tag[n] = a.tag[n] /\ b.body[n] = a.body[n]

MovedIn(a, c, b, p, i, j) ==
  /\ p \in Nodes /\ p < a.fresh /\ a.parent[c.node] = p
  /\ i \in DOMAIN a.children[p] /\ j \in DOMAIN a.children[p] /\ a.children[p][i] = c.node
  /\ j = IF c.op = "up" THEN i - 1 ELSE i + 1
  /\ b.children[p] = Swapped(a.children[p], i, j)
  /\ \A n \in Nodes : n < a.fresh =>
       /\ n # p => b.children[n] = a.children[n]
       /\ b.parent[n] = a.parent[n] /\ b.tag[n] = a.tag[n] /\ b.body[n] = a.body[n]

LinkMove(a, c, b) ==
  /\ b.fresh = a.fresh /\ c.node \in Nodes /\ c.node < a.fresh
  /\ \E p, i, j : MovedIn(a, c, b, p, i, j)

Linked(a, c, b) ==
  /\ c.op \in Texts => LinkText(a, c, b)
  /\ c.op \in Makers => LinkMaker(a, c, b)
  /\ c.op = "remove" => LinkRemove(a, c, b)
  /\ c.op \in Moves => LinkMove(a, c, b)

-----------------------------------------------------------------------------
\* A command that is undone leads back to the document before it.
Back(r, c, a) == r.ok /\ r.cmd = c /\ Agree(r.doc, a)

LEMMA UndoText ==
  ASSUME NEW d, Sound(d), NEW a, Sealed(a), NEW b, Agree(d, b), NEW c, c \in CommandRecords, c.op \in Texts,
         c.old \in Labels, LinkText(a, c, b)
  PROVE  Back(UndoOp(d, c), c, a)
<1>1. c.node \in Nodes /\ c.node < a.fresh /\ b.fresh = a.fresh
  BY DEF LinkText
<1>2. d \in Documents /\ d.tag \in [Nodes -> Labels] /\ d.body \in [Nodes -> Labels]
  BY DEF Sound, Documents
<1>3. CASE c.op = "tag"
  <2> DEFINE e == [d EXCEPT !.tag[c.node] = c.old]
             r == SetTag(d, c.node, c.old)
  <2>1. Outcome(r, e, d)
    BY <1>1, TagFacts
  <2>2. SameTree(e, d) /\ e.tag = [d.tag EXCEPT ![c.node] = c.old] /\ e.body = d.body
    BY <1>2 DEF Documents, SameTree
  <2>3. UndoOp(d, c) = Ok(r, c)
    BY <1>3 DEF UndoOp
  <2> HIDE DEF e, r
  <2>4. /\ r.children = d.children /\ r.parent = d.parent /\ r.fresh = d.fresh
        /\ r.tag = [d.tag EXCEPT ![c.node] = c.old] /\ r.body = d.body
    BY <2>1, <2>2 DEF Outcome, SameTree, SameText
  <2>5. Agree(r, a)
    BY <1>1, <1>2, <1>3, <2>4 DEF Agree, LinkText
  <2> QED BY <2>3, <2>5 DEF Back, Ok
<1>4. CASE c.op # "tag"
  <2> DEFINE e == [d EXCEPT !.body[c.node] = c.old]
  <2>1. Outcome(SetPayload(d, c.node, c.old), e, d) /\ Outcome(SetSubType(d, c.node, c.old), e, d)
    BY <1>1, PayloadFacts, SubTypeFacts
  <2>2. SameTree(e, d) /\ e.body = [d.body EXCEPT ![c.node] = c.old] /\ e.tag = d.tag
    BY <1>2 DEF Documents, SameTree
  <2>3. PICK r : UndoOp(d, c) = Ok(r, c) /\ Outcome(r, e, d)
    BY <1>4, <2>1 DEF UndoOp, Texts
  <2> HIDE DEF e
  <2>4. /\ r.children = d.children /\ r.parent = d.parent /\ r.fresh = d.fresh
        /\ r.body = [d.body EXCEPT ![c.node] = c.old] /\ r.tag = d.tag
    BY <2>2, <2>3 DEF Outcome, SameTree, SameText
  <2>5. Agree(r, a)
    BY <1>1, <1>2, <1>4, <2>4 DEF Agree, LinkText
  <2> QED BY <2>3, <2>5 DEF Back, Ok
<1> QED BY <1>3, <1>4

LEMMA UndoMaker ==
  ASSUME NEW d, Sound(d), NEW a, Sealed(a), NEW b, Sealed(b), Agree(d, b), NEW c, c \in CommandRecords, c.op \in Makers,
         LinkMaker(a, c, b)
  PROVE  Back(UndoOp(d, c), c, a)
<1> DEFINE p == c.parent
           m == c.made
           s == a.children[p]
           i == Len(s) + 1
           e == Rehung(d, p, RemoveAt(d.children[p], IndexIn(d, p, m)), m, Nowhere)
           r == Detach(d, p, m)
<1>1. /\ p \in Nodes /\ p < a.fresh /\ m \in Nodes /\ a.fresh <= m /\ m < b.fresh /\ a.fresh <= b.fresh
      /\ b.children[p] = Append(s, m)
  BY DEF LinkMaker
<1>2. /\ a.fresh \in Nat /\ b.fresh \in Nat /\ d.fresh \in Nat /\ b.fresh <= d.fresh /\ p \in Nat /\ m \in Nat
      /\ s \in Seq(Nodes) /\ d \in Documents
  <2>1. d \in Documents /\ d.fresh \in Nat
    BY DEF Sound, Documents
  <2>2. a.fresh \in Nat /\ b.fresh \in Nat /\ b.fresh <= d.fresh
    BY DEF Sealed, Agree
  <2>3. s \in Seq(Nodes)
    BY <1>1 DEF Sealed
  <2>4. p \in Nat /\ m \in Nat
    <3> HIDE DEF p, m
    <3>1. Nodes \subseteq Nat
      BY NodesFinite DEF Nodes
    <3> QED BY <1>1, <3>1
  <2> QED BY <2>1, <2>2, <2>3, <2>4
<1>3. \A n \in Nodes : n < a.fresh => n < b.fresh
  <2>1. a.fresh <= b.fresh
    BY <1>1
  <2> QED BY <1>2, <2>1 DEF Nodes
<1>4. d.children[p] = Append(s, m)
  BY <1>1, <1>3 DEF Agree
<1>5. /\ i \in DOMAIN Append(s, m) /\ Append(s, m)[i] = m /\ RemoveAt(Append(s, m), i) = s
  <2> HIDE DEF s, m
  <2>1. Append(s, m) \in Seq(Nodes) /\ Len(Append(s, m)) = Len(s) + 1 /\ Append(s, m)[Len(s) + 1] = m /\ Len(s) \in Nat
    BY <1>1, <1>2, AppendProperties, LenProperties
  <2>2. DOMAIN Append(s, m) = 1..Len(s) + 1
    BY <2>1, LenProperties
  <2>3. RemoveAt(Append(s, m), Len(s) + 1) = s
    BY <1>1, <1>2, OutAgain
  <2> QED BY <2>1, <2>2, <2>3
<1>6. IndexIn(d, p, m) = i /\ m \in ToSet(d.children[p])
  <2>1. i \in DOMAIN d.children[p] /\ d.children[p][i] = m
    BY <1>4, <1>5
  <2> HIDE DEF p, m, i
  <2> QED BY <1>1, <2>1, IndexFacts DEF ToSet
<1>7. Outcome(r, e, d)
  BY <1>1, <1>6, DetachFacts
<1>8. e.children = [d.children EXCEPT ![p] = s] /\ e.parent = [d.parent EXCEPT ![m] = Nowhere]
      /\ e.tag = d.tag /\ e.body = d.body /\ e.fresh = d.fresh
  <2>1. e = Rehung(d, p, s, m, Nowhere)
    BY <1>4, <1>5, <1>6
  <2> HIDE DEF e, s, p, m
  <2> QED BY <1>2, <2>1 DEF Rehung, Documents
<1>9. UndoOp(d, c) = Ok(r, c)
  BY DEF UndoOp, Makers
<1> HIDE DEF e, r
<1>10. /\ r.children = [d.children EXCEPT ![p] = s] /\ r.parent = [d.parent EXCEPT ![m] = Nowhere]
       /\ r.tag = d.tag /\ r.body = d.body /\ r.fresh = d.fresh
  BY <1>7, <1>8 DEF Outcome, SameTree, SameText
<1>11. ASSUME NEW n \in Nodes, n < a.fresh
       PROVE  /\ r.children[n] = a.children[n] /\ r.parent[n] = a.parent[n]
              /\ r.tag[n] = a.tag[n] /\ r.body[n] = a.body[n]
  <2>1. n # m /\ n < b.fresh
    BY <1>1, <1>2, <1>3, <1>11 DEF Nodes
  <2>2. r.parent[n] = d.parent[n] /\ r.children[n] = IF n = p THEN s ELSE d.children[n]
    BY <1>1, <1>2, <1>10, <2>1 DEF Documents
  <2> QED BY <1>10, <1>11, <2>1, <2>2 DEF Agree, LinkMaker
<1>12. a.fresh <= r.fresh
  BY <1>1, <1>2, <1>10
<1>13. Agree(r, a)
  BY <1>11, <1>12 DEF Agree
<1> QED BY <1>9, <1>13 DEF Back, Ok

LEMMA UndoRemove ==
  ASSUME NEW d, Sound(d), NEW a, Sealed(a), NEW b, Agree(d, b), NEW c, c \in CommandRecords, c.op = "remove",
         c.parent < d.fresh, c.node < d.fresh, LinkRemove(a, c, b)
  PROVE  Back(UndoOp(d, c), c, a)
<1> DEFINE p == c.parent
           x == c.node
           i == c.index
           s == a.children[p]
           r == Insert(d, p, i, x)
           e == Rehung(d, p, InsertAt(d.children[p], i, x), x, p)
<1>1. /\ p \in Nodes /\ p < a.fresh /\ x \in Nodes /\ x < a.fresh /\ b.fresh = a.fresh
      /\ i \in DOMAIN s /\ s[i] = x /\ a.parent[x] = p
      /\ b.parent[x] = Nowhere /\ b.children[p] = RemoveAt(s, i)
  BY DEF LinkRemove
<1>2. a.fresh \in Nat /\ s \in Seq(Nodes) /\ d \in Documents
  BY <1>1 DEF Sealed, Sound
<1>3. d.children[p] = RemoveAt(s, i) /\ d.parent[x] = Nowhere
  BY <1>1 DEF Agree
<1>4. /\ i \in 1..Len(s) /\ Len(s) \in Nat /\ Len(RemoveAt(s, i)) = Len(s) - 1
      /\ InsertAt(RemoveAt(s, i), i, x) = s
  <2> HIDE DEF s, i
  <2>1. i \in 1..Len(s) /\ Len(s) \in Nat
    BY <1>1, <1>2, LenProperties
  <2>2. InsertAt(RemoveAt(s, i), i, s[i]) = s
    BY <1>2, <2>1, OutAgain
  <2> QED BY <1>1, <1>2, <2>1, <2>2, RemoveOne
<1>5. i \in 1..(Len(d.children[p]) + 1)
  BY <1>3, <1>4
<1>6. Outcome(r, e, d)
  BY <1>1, <1>3, <1>5, InsertFacts
<1>7. UndoOp(d, c) = Ok(r, c)
  BY <1>3, <1>5 DEF UndoOp
<1>8. e.children = [d.children EXCEPT ![p] = s] /\ e.parent = [d.parent EXCEPT ![x] = p]
      /\ e.tag = d.tag /\ e.body = d.body /\ e.fresh = d.fresh
  <2>1. e = Rehung(d, p, s, x, p)
    BY <1>3, <1>4
  <2> HIDE DEF e, s, p, x
  <2> QED BY <1>2, <2>1 DEF Rehung, Documents
<1> HIDE DEF e, r
<1>9. /\ r.children = [d.children EXCEPT ![p] = s] /\ r.parent = [d.parent EXCEPT ![x] = p]
      /\ r.tag = d.tag /\ r.body = d.body /\ r.fresh = d.fresh
  BY <1>6, <1>8 DEF Outcome, SameTree, SameText
<1>10. ASSUME NEW n \in Nodes, n < a.fresh
       PROVE  /\ r.children[n] = a.children[n] /\ r.parent[n] = a.parent[n]
              /\ r.tag[n] = a.tag[n] /\ r.body[n] = a.body[n]
  <2>1. r.parent[n] = (IF n = x THEN p ELSE d.parent[n]) /\ r.children[n] = IF n = p THEN s ELSE d.children[n]
    BY <1>2, <1>9 DEF Documents
  <2> QED BY <1>1, <1>9, <1>10, <2>1 DEF Agree, LinkRemove
<1>11. a.fresh <= r.fresh
  BY <1>1, <1>9 DEF Agree
<1>12. Agree(r, a)
  BY <1>10, <1>11 DEF Agree
<1> QED BY <1>7, <1>12 DEF Back, Ok

\* A move, and the move back.
LEMMA Mover ==
  ASSUME NEW d, Sound(d), NEW p \in Nodes, NEW x \in Nodes, NEW up \in BOOLEAN,
         NEW i \in DOMAIN d.children[p], d.children[p][i] = x,
         NEW j, j = (IF up THEN i - 1 ELSE i + 1), j \in DOMAIN d.children[p],
         NEW r, r = Reorder(d, p, x, up)
  PROVE  /\ r.children = [d.children EXCEPT ![p] = Swapped(d.children[p], i, j)]
         /\ r.parent = d.parent /\ r.tag = d.tag /\ r.body = d.body /\ r.fresh = d.fresh
<1>1. IndexIn(d, p, x) = i
  BY IndexFacts
<1>2. i \in Nat /\ i # 0
  <2>1. d.children[p] \in Seq(Nodes)
    BY DEF Sound, Documents
  <2> QED BY <2>1, LenProperties
<1>3. Outcome(r, Turned(d, p, i, j), d)
  <2>1. /\ IndexIn(d, p, x) # 0 /\ (IF up THEN IndexIn(d, p, x) - 1 ELSE IndexIn(d, p, x) + 1) = j
    BY <1>1, <1>2
  <2>2. Outcome(Reorder(d, p, x, up), Turned(d, p, IndexIn(d, p, x), j), d)
    BY <2>1, ReorderFacts
  <2> QED BY <1>1, <2>2
<1>4. d \in Documents
  BY DEF Sound
<1> DEFINE e == Turned(d, p, i, j)
<1>5. /\ e.children = [d.children EXCEPT ![p] = Swapped(d.children[p], i, j)]
      /\ e.parent = d.parent /\ e.tag = d.tag /\ e.body = d.body /\ e.fresh = d.fresh
  BY <1>4 DEF Turned, Documents
<1> HIDE DEF e
<1>6. Outcome(r, e, d)
  BY <1>3 DEF e
<1> QED BY <1>5, <1>6 DEF Outcome, SameTree, SameText

LEMMA UndoMove ==
  ASSUME NEW d, Sound(d), NEW a, Sealed(a), NEW b, Agree(d, b), NEW c, c \in CommandRecords, c.op \in Moves,
         LinkMove(a, c, b)
  PROVE  Back(UndoOp(d, c), c, a)
<1>1. PICK p, i, j : MovedIn(a, c, b, p, i, j)
  BY DEF LinkMove
<1> DEFINE x == c.node
           s == a.children[p]
           t == Swapped(s, i, j)
           back == c.op = "down"
           r == Reorder(d, p, x, back)
<1>2. /\ p \in Nodes /\ p < a.fresh /\ x \in Nodes /\ x < a.fresh /\ b.fresh = a.fresh
      /\ i \in DOMAIN s /\ j \in DOMAIN s /\ s[i] = x /\ a.parent[x] = p
      /\ b.children[p] = t /\ j = IF c.op = "up" THEN i - 1 ELSE i + 1
  BY <1>1 DEF LinkMove, MovedIn
<1>3. s \in Seq(Nodes) /\ d \in Documents
  BY <1>2 DEF Sealed, Sound
<1>4. d.children[p] = t /\ d.parent[x] = p
  <2>1. b.parent[x] = p
    BY <1>1, <1>2 DEF MovedIn
  <2> QED BY <1>2, <2>1 DEF Agree
<1>5. /\ DOMAIN t = DOMAIN s /\ t[j] = x /\ Swapped(t, j, i) = s
  <2> HIDE DEF s
  <2>1. t \in Seq(Nodes) /\ DOMAIN t = DOMAIN s /\ t[j] = s[i] /\ Swapped(t, i, j) = s
    BY <1>2, <1>3, SwapFacts
  <2> HIDE DEF t
  <2>2. Swapped(t, j, i) = Swapped(t, i, j)
    BY <1>2, <2>1, SwapFacts
  <2> QED BY <1>2, <2>1, <2>2
<1>6. i = IF back THEN j - 1 ELSE j + 1
  <2>1. i \in Int /\ j \in Int
    <3> HIDE DEF s
    <3> QED BY <1>2, <1>3, LenProperties
  <2> QED BY <1>2, <2>1 DEF Moves
<1>7. UndoOp(d, c) = Ok(r, c)
  <2>1. d.parent[x] # Nowhere
    BY <1>2, <1>4 DEF Nowhere, Nodes
  <2> QED BY <1>4, <2>1 DEF UndoOp, Moves
<1>8. /\ r.children = [d.children EXCEPT ![p] = s]
      /\ r.parent = d.parent /\ r.tag = d.tag /\ r.body = d.body /\ r.fresh = d.fresh
  <2>1. back \in BOOLEAN /\ j \in DOMAIN d.children[p] /\ d.children[p][j] = x /\ i \in DOMAIN d.children[p]
    BY <1>2, <1>4, <1>5
  <2> HIDE DEF back, x, s, t
  <2>2. r.children = [d.children EXCEPT ![p] = Swapped(d.children[p], j, i)]
        /\ r.parent = d.parent /\ r.tag = d.tag /\ r.body = d.body /\ r.fresh = d.fresh
    <3> HIDE DEF r
    <3>1. r = Reorder(d, p, x, back)
      BY DEF r
    <3> QED BY <1>2, <1>6, <2>1, <3>1, Mover
  <2> QED BY <1>4, <1>5, <2>2
<1> HIDE DEF r, t
<1>9. ASSUME NEW n \in Nodes, n < a.fresh
       PROVE  /\ r.children[n] = a.children[n] /\ r.parent[n] = a.parent[n]
              /\ r.tag[n] = a.tag[n] /\ r.body[n] = a.body[n]
  <2>1. r.children[n] = IF n = p THEN s ELSE d.children[n]
    BY <1>2, <1>3, <1>8 DEF Documents
  <2> QED BY <1>1, <1>2, <1>8, <1>9, <2>1 DEF Agree, MovedIn
<1>10. a.fresh <= r.fresh
  BY <1>2, <1>8 DEF Agree
<1>11. Agree(r, a)
  BY <1>9, <1>10 DEF Agree
<1> QED BY <1>7, <1>11 DEF Back, Ok

LEMMA UndoGoesBack ==
  ASSUME NEW d, Sound(d), NEW a, Sealed(a), NEW b, Sealed(b), Agree(d, b), NEW c, NEW rank,
         Runs(c, rank, d.fresh), Ran(c, d.fresh), Linked(a, c, b)
  PROVE  Back(UndoOp(d, c), c, a)
<1>1. c \in CommandRecords
  BY DEF Runs
<1>2. c.op \in Texts => c.old \in Labels
  BY DEF Ran
<1>3. c.op = "remove" => c.parent < d.fresh /\ c.node < d.fresh
  BY DEF Runs
<1>4. c.op \in Texts \/ c.op \in Makers \/ c.op = "remove" \/ c.op \in Moves
  BY <1>1 DEF CommandRecords, Kinds, Texts, Makers, Moves
<1> QED BY <1>1, <1>2, <1>3, <1>4, UndoText, UndoMaker, UndoRemove, UndoMove DEF Linked

\* A command that is redone, and makes nothing, leads to the document after it.
Forth(r, c, b) == r.ok /\ r.cmd = c /\ Agree(r.doc, b)

LEMMA RedoText ==
  ASSUME NEW d, Sound(d), NEW a, Sealed(a), Agree(d, a), NEW c, c \in CommandRecords, c.op \in Texts,
         NEW b, LinkText(a, c, b)
  PROVE  Forth(Do(d, c), c, b)
<1>1. c.node \in Nodes /\ c.node < a.fresh /\ b.fresh = a.fresh /\ c.label \in Labels
  BY DEF LinkText, CommandRecords
<1>2. d \in Documents /\ d.tag \in [Nodes -> Labels] /\ d.body \in [Nodes -> Labels]
  BY DEF Sound, Documents
<1>3. Remembering(c, c.old) = c
  BY DEF Remembering, CommandRecords
<1>4. CASE c.op = "tag"
  <2> DEFINE e == [d EXCEPT !.tag[c.node] = c.label]
             r == SetTag(d, c.node, c.label)
  <2>1. Outcome(r, e, d)
    BY <1>1, TagFacts
  <2>2. SameTree(e, d) /\ e.tag = [d.tag EXCEPT ![c.node] = c.label] /\ e.body = d.body
    BY <1>2 DEF Documents, SameTree
  <2>3. d.tag[c.node] = c.old
    BY <1>1, <1>4 DEF Agree, LinkText
  <2>4. Do(d, c) = Ok(r, c)
    BY <1>3, <1>4, <2>3 DEF Do
  <2> HIDE DEF e, r
  <2>5. /\ r.children = d.children /\ r.parent = d.parent /\ r.fresh = d.fresh
        /\ r.tag = [d.tag EXCEPT ![c.node] = c.label] /\ r.body = d.body
    BY <2>1, <2>2 DEF Outcome, SameTree, SameText
  <2>6. Agree(r, b)
    BY <1>1, <1>2, <1>4, <2>5 DEF Agree, LinkText
  <2> QED BY <2>4, <2>6 DEF Forth, Ok
<1>5. CASE c.op # "tag"
  <2> DEFINE e == [d EXCEPT !.body[c.node] = c.label]
  <2>1. Outcome(SetPayload(d, c.node, c.label), e, d) /\ Outcome(SetSubType(d, c.node, c.label), e, d)
    BY <1>1, PayloadFacts, SubTypeFacts
  <2>2. SameTree(e, d) /\ e.body = [d.body EXCEPT ![c.node] = c.label] /\ e.tag = d.tag
    BY <1>2 DEF Documents, SameTree
  <2>3. d.body[c.node] = c.old
    BY <1>1, <1>5 DEF Agree, LinkText
  <2>4. PICK r : Do(d, c) = Ok(r, c) /\ Outcome(r, e, d)
    BY <1>3, <1>5, <2>1, <2>3 DEF Do, Texts
  <2> HIDE DEF e
  <2>5. /\ r.children = d.children /\ r.parent = d.parent /\ r.fresh = d.fresh
        /\ r.body = [d.body EXCEPT ![c.node] = c.label] /\ r.tag = d.tag
    BY <2>2, <2>4 DEF Outcome, SameTree, SameText
  <2>6. Agree(r, b)
    BY <1>1, <1>2, <1>5, <2>5 DEF Agree, LinkText
  <2> QED BY <2>4, <2>6 DEF Forth, Ok
<1> QED BY <1>4, <1>5

\* What a removal of a child makes of a document.
LEMMA Remover ==
  ASSUME NEW d, Sound(d), NEW p \in Nodes, NEW x \in Nodes,
         NEW i \in DOMAIN d.children[p], d.children[p][i] = x,
         NEW r, r = Detach(d, p, x)
  PROVE  /\ IndexIn(d, p, x) = i
         /\ r.children = [d.children EXCEPT ![p] = RemoveAt(d.children[p], i)]
         /\ r.parent = [d.parent EXCEPT ![x] = Nowhere]
         /\ r.tag = d.tag /\ r.body = d.body /\ r.fresh = d.fresh
<1>1. IndexIn(d, p, x) = i /\ x \in ToSet(d.children[p])
  BY IndexFacts DEF ToSet
<1> DEFINE e == Rehung(d, p, RemoveAt(d.children[p], i), x, Nowhere)
<1>2. Outcome(r, e, d)
  <2>1. Outcome(Detach(d, p, x), Rehung(d, p, RemoveAt(d.children[p], IndexIn(d, p, x)), x, Nowhere), d)
    BY <1>1, DetachFacts
  <2> QED BY <1>1, <2>1
<1>3. d \in Documents
  BY DEF Sound
<1>4. e.children = [d.children EXCEPT ![p] = RemoveAt(d.children[p], i)] /\ e.parent = [d.parent EXCEPT ![x] = Nowhere]
      /\ e.tag = d.tag /\ e.body = d.body /\ e.fresh = d.fresh
  BY <1>3 DEF Rehung, Documents
<1> HIDE DEF e
<1> QED BY <1>1, <1>2, <1>4 DEF Outcome, SameTree, SameText

LEMMA RedoRemove ==
  ASSUME NEW d, Sound(d), NEW a, Sealed(a), Agree(d, a), NEW c, c \in CommandRecords, c.op = "remove",
         NEW b, LinkRemove(a, c, b)
  PROVE  Forth(Do(d, c), c, b)
<1> DEFINE p == c.parent
           x == c.node
           i == c.index
           s == a.children[p]
           r == Detach(d, p, x)
<1>1. /\ p \in Nodes /\ p < a.fresh /\ x \in Nodes /\ x < a.fresh /\ b.fresh = a.fresh
      /\ i \in DOMAIN s /\ s[i] = x /\ b.parent[x] = Nowhere /\ b.children[p] = RemoveAt(s, i)
  BY DEF LinkRemove
<1>2. d.children[p] = s /\ d \in Documents
  BY <1>1 DEF Agree, Sound
<1>3. /\ IndexIn(d, p, x) = i
      /\ r.children = [d.children EXCEPT ![p] = RemoveAt(s, i)]
      /\ r.parent = [d.parent EXCEPT ![x] = Nowhere]
      /\ r.tag = d.tag /\ r.body = d.body /\ r.fresh = d.fresh
  <2>1. i \in DOMAIN d.children[p] /\ d.children[p][i] = x
    BY <1>1, <1>2
  <2> DEFINE q == d.children[p]
  <2>2. /\ IndexIn(d, p, x) = i
        /\ r.children = [d.children EXCEPT ![p] = RemoveAt(q, i)]
        /\ r.parent = [d.parent EXCEPT ![x] = Nowhere]
        /\ r.tag = d.tag /\ r.body = d.body /\ r.fresh = d.fresh
    <3> HIDE DEF p, x, i, r
    <3>1. r = Detach(d, p, x)
      BY DEF r
    <3> QED BY <1>1, <2>1, <3>1, Remover
  <2> QED BY <1>2, <2>2
<1>4. [c EXCEPT !.index = i] = c
  BY DEF CommandRecords
<1>5. Do(d, c) = Ok(r, c)
  BY <1>3, <1>4 DEF Do
<1> HIDE DEF r
<1>6. ASSUME NEW n \in Nodes, n < a.fresh
      PROVE  /\ r.children[n] = b.children[n] /\ r.parent[n] = b.parent[n]
             /\ r.tag[n] = b.tag[n] /\ r.body[n] = b.body[n]
  <2>1. r.parent[n] = (IF n = x THEN Nowhere ELSE d.parent[n])
        /\ r.children[n] = IF n = p THEN RemoveAt(s, i) ELSE d.children[n]
    BY <1>2, <1>3 DEF Documents
  <2> QED BY <1>1, <1>3, <1>6, <2>1 DEF Agree, LinkRemove
<1>7. b.fresh <= r.fresh
  BY <1>1, <1>3 DEF Agree
<1>8. Agree(r, b)
  BY <1>1, <1>6, <1>7 DEF Agree
<1> QED BY <1>5, <1>8 DEF Forth, Ok

LEMMA RedoMove ==
  ASSUME NEW d, Sound(d), NEW a, Sealed(a), Agree(d, a), NEW c, c \in CommandRecords, c.op \in Moves,
         NEW b, LinkMove(a, c, b)
  PROVE  Forth(Do(d, c), c, b)
<1>1. PICK p, i, j : MovedIn(a, c, b, p, i, j)
  BY DEF LinkMove
<1> DEFINE x == c.node
           s == a.children[p]
           up == c.op = "up"
           r == Reorder(d, p, x, up)
<1>2. /\ p \in Nodes /\ p < a.fresh /\ x \in Nodes /\ x < a.fresh /\ b.fresh = a.fresh
      /\ i \in DOMAIN s /\ j \in DOMAIN s /\ s[i] = x /\ a.parent[x] = p
      /\ b.children[p] = Swapped(s, i, j) /\ j = IF up THEN i - 1 ELSE i + 1
  BY <1>1 DEF LinkMove, MovedIn
<1>3. d.children[p] = s /\ d.parent[x] = p /\ d \in Documents
  BY <1>2 DEF Agree, Sound
<1>4. Do(d, c) = Ok(r, c)
  <2>1. d.parent[x] # Nowhere
    BY <1>2, <1>3 DEF Nowhere, Nodes
  <2> QED BY <1>3, <2>1 DEF Do, Moves
<1>5. /\ r.children = [d.children EXCEPT ![p] = Swapped(s, i, j)]
      /\ r.parent = d.parent /\ r.tag = d.tag /\ r.body = d.body /\ r.fresh = d.fresh
  <2>1. up \in BOOLEAN /\ i \in DOMAIN d.children[p] /\ d.children[p][i] = x /\ j \in DOMAIN d.children[p]
    BY <1>2, <1>3
  <2> HIDE DEF up, x, s
  <2>2. r.children = [d.children EXCEPT ![p] = Swapped(d.children[p], i, j)]
        /\ r.parent = d.parent /\ r.tag = d.tag /\ r.body = d.body /\ r.fresh = d.fresh
    <3> HIDE DEF r
    <3>1. r = Reorder(d, p, x, up)
      BY DEF r
    <3> QED BY <1>2, <2>1, <3>1, Mover
  <2> QED BY <1>3, <2>2
<1> HIDE DEF r
<1>6. ASSUME NEW n \in Nodes, n < a.fresh
      PROVE  /\ r.children[n] = b.children[n] /\ r.parent[n] = b.parent[n]
             /\ r.tag[n] = b.tag[n] /\ r.body[n] = b.body[n]
  <2>1. r.children[n] = IF n = p THEN Swapped(s, i, j) ELSE d.children[n]
    BY <1>2, <1>3, <1>5 DEF Documents
  <2> QED BY <1>1, <1>2, <1>5, <1>6, <2>1 DEF Agree, MovedIn
<1>7. b.fresh <= r.fresh
  BY <1>2, <1>5 DEF Agree
<1>8. Agree(r, b)
  BY <1>2, <1>6, <1>7 DEF Agree
<1> QED BY <1>4, <1>8 DEF Forth, Ok

LEMMA RedoGoesForth ==
  ASSUME NEW d, Sound(d), NEW a, Sealed(a), Agree(d, a), NEW c, c \in CommandRecords, c.op \notin Makers,
         NEW b, Linked(a, c, b)
  PROVE  Forth(Do(d, c), c, b)
<1>1. c.op \in Texts \/ c.op = "remove" \/ c.op \in Moves
  BY DEF CommandRecords, Kinds, Texts, Makers, Moves
<1> QED BY <1>1, RedoText, RedoRemove, RedoMove DEF Linked

\* A command that the user asks for leads from a to b.
Leads(r, a, b) == Linked(a, r.cmd, b) /\ Agree(r.doc, b) /\ Sealed(b)

\* What hangs below the root was there.
LEMMA BelowWasThere ==
  ASSUME NEW d, Sound(d), NEW a, Sealed(a), Agree(d, a)
  PROVE  \A n \in Down(d, Root) : n \in Nodes /\ n < a.fresh
<1> DEFINE S == {n \in Nodes : n < a.fresh}
<1>1. Root \in Nodes
  BY LoadingSound
<1>2. Root \in S
  BY <1>1 DEF Sealed
<1>3. ASSUME NEW m \in S, NEW x \in Nodes, d.parent[x] = m PROVE x \in S
  <2>1. x \in ToSet(d.children[m])
    BY <1>3 DEF Sound, Fits
  <2>2. d.children[m] = a.children[m]
    BY DEF Agree
  <2> QED BY <2>1, <2>2 DEF Sealed
<1> HIDE DEF S
<1>4. S \in SUBSET Nodes
  BY DEF S
<1>5. Down(d, Root) \subseteq S
  BY <1>1, <1>2, <1>3, <1>4, DownIs
<1> QED BY <1>5 DEF S

\* A document that agrees with itself as far as the nodes go that were there.
Kept(r, f) == [r EXCEPT !.fresh = f]

LEMMA KeptFacts ==
  ASSUME NEW r, Sound(r), NEW a, Sealed(a), a.fresh <= r.fresh,
         \A n \in Nodes : n < a.fresh => \A x \in ToSet(r.children[n]) : x < a.fresh,
         NEW b, b = Kept(r, a.fresh)
  PROVE  /\ Sealed(b) /\ Agree(r, b) /\ b.fresh = a.fresh
         /\ b.children = r.children /\ b.parent = r.parent /\ b.tag = r.tag /\ b.body = r.body
<1>1. r \in Documents
  BY DEF Sound
<1>2. /\ b.fresh = a.fresh
      /\ b.children = r.children /\ b.parent = r.parent /\ b.tag = r.tag /\ b.body = r.body
  BY <1>1 DEF Kept, Documents
<1>3. /\ r.children \in [Nodes -> Seq(Nodes)] /\ r.parent \in [Nodes -> Nodes \cup {Nowhere}]
      /\ r.tag \in [Nodes -> Labels] /\ r.body \in [Nodes -> Labels]
  BY <1>1 DEF Documents
<1>4. Sealed(b)
  BY <1>2, <1>3 DEF Sealed
<1>5. Agree(r, b)
  BY <1>2 DEF Agree
<1> QED BY <1>2, <1>4, <1>5

LEMMA AskedFresh ==
  ASSUME NEW c \in Asked
  PROVE  c.old = Unset
  BY DEF Asked, Command

LEMMA ApplyText ==
  ASSUME NEW d, Sound(d), NEW a, Sealed(a), Agree(d, a), NEW c, c \in CommandRecords, c.op \in Texts,
         c.node \in Nodes, c.node < a.fresh, c.old = Unset
  PROVE  \E b : Leads(Do(d, c), a, b)
<1>1. c.label \in Labels
  BY DEF CommandRecords
<1>2. d \in Documents /\ d.tag \in [Nodes -> Labels] /\ d.body \in [Nodes -> Labels]
  BY DEF Sound, Documents
<1>3. ASSUME NEW v
      PROVE  LET e == Remembering(c, v)
             IN e.op = c.op /\ e.node = c.node /\ e.label = c.label /\ e.old = v
  BY DEF Remembering, CommandRecords
<1>4. ASSUME NEW r, Sound(r), r.children = d.children, r.parent = d.parent, r.fresh = d.fresh,
             NEW v,
             c.op = "tag" => r.tag = [d.tag EXCEPT ![c.node] = c.label] /\ r.body = d.body /\ v = d.tag[c.node],
             c.op # "tag" => r.body = [d.body EXCEPT ![c.node] = c.label] /\ r.tag = d.tag /\ v = d.body[c.node],
             Do(d, c) = Ok(r, Remembering(c, v))
      PROVE  \E b : Leads(Do(d, c), a, b)
  <2> DEFINE e == Remembering(c, v)
             b == Kept(r, a.fresh)
  <2>1. e.op = c.op /\ e.node = c.node /\ e.label = c.label /\ e.old = v
    BY <1>3
  <2>2. a.fresh <= r.fresh
    BY <1>4 DEF Agree
  <2>3. \A n \in Nodes : n < a.fresh => \A x \in ToSet(r.children[n]) : x < a.fresh
    BY <1>4 DEF Agree, Sealed
  <2>4. /\ Sealed(b) /\ Agree(r, b) /\ b.fresh = a.fresh
        /\ b.children = r.children /\ b.parent = r.parent /\ b.tag = r.tag /\ b.body = r.body
    <3> HIDE DEF b
    <3>1. b = Kept(r, a.fresh)
      BY DEF b
    <3> QED BY <1>4, <2>2, <2>3, <3>1, KeptFacts
  <2>5. Do(d, c) = Ok(r, e)
    BY <1>4
  <2> HIDE DEF b, e
  <2>6. LinkText(a, e, b)
    <3>1. b.fresh = a.fresh /\ e.node \in Nodes /\ e.node < a.fresh
      BY <2>1, <2>4
    <3>2. ASSUME NEW n \in Nodes, n < a.fresh
          PROVE  /\ b.children[n] = a.children[n] /\ b.parent[n] = a.parent[n]
                 /\ d.tag[n] = a.tag[n] /\ d.body[n] = a.body[n]
      BY <1>4, <2>4, <3>2 DEF Agree
    <3>3. CASE c.op = "tag"
      <4>1. e.old = a.tag[c.node]
        BY <1>4, <2>1, <3>2, <3>3
      <4>2. \A n \in Nodes : n < a.fresh =>
              b.tag[n] = (IF n = e.node THEN e.label ELSE a.tag[n]) /\ b.body[n] = a.body[n]
        BY <1>2, <1>4, <2>1, <2>4, <3>2, <3>3
      <4> QED BY <2>1, <3>1, <3>2, <3>3, <4>1, <4>2 DEF LinkText
    <3>4. CASE c.op # "tag"
      <4>1. e.old = a.body[c.node]
        BY <1>4, <2>1, <3>2, <3>4
      <4>2. \A n \in Nodes : n < a.fresh =>
              b.body[n] = (IF n = e.node THEN e.label ELSE a.body[n]) /\ b.tag[n] = a.tag[n]
        BY <1>2, <1>4, <2>1, <2>4, <3>2, <3>4
      <4> QED BY <2>1, <3>1, <3>2, <3>4, <4>1, <4>2 DEF LinkText
    <3> QED BY <3>3, <3>4
  <2>7. e.op \in Texts /\ e.op \notin Makers /\ e.op # "remove" /\ e.op \notin Moves
    BY <2>1 DEF Texts, Makers, Moves
  <2>8. Linked(a, e, b)
    BY <2>6, <2>7 DEF Linked
  <2> QED BY <2>4, <2>5, <2>8 DEF Leads, Ok
<1>5. CASE c.op = "tag"
  <2> DEFINE e == [d EXCEPT !.tag[c.node] = c.label]
             r == SetTag(d, c.node, c.label)
  <2>1. Outcome(r, e, d)
    BY <1>1, TagFacts
  <2>2. SameTree(e, d) /\ e.tag = [d.tag EXCEPT ![c.node] = c.label] /\ e.body = d.body
    BY <1>2 DEF Documents, SameTree
  <2>3. Do(d, c) = Ok(r, Remembering(c, d.tag[c.node]))
    BY <1>5 DEF Do
  <2> HIDE DEF e, r
  <2>4. /\ r.children = d.children /\ r.parent = d.parent /\ r.fresh = d.fresh /\ Sound(r)
        /\ r.tag = [d.tag EXCEPT ![c.node] = c.label] /\ r.body = d.body
    BY <2>1, <2>2 DEF Outcome, SameTree, SameText
  <2> QED BY <1>4, <1>5, <2>3, <2>4
<1>6. CASE c.op # "tag"
  <2> DEFINE e == [d EXCEPT !.body[c.node] = c.label]
  <2>1. Outcome(SetPayload(d, c.node, c.label), e, d) /\ Outcome(SetSubType(d, c.node, c.label), e, d)
    BY <1>1, PayloadFacts, SubTypeFacts
  <2>2. SameTree(e, d) /\ e.body = [d.body EXCEPT ![c.node] = c.label] /\ e.tag = d.tag
    BY <1>2 DEF Documents, SameTree
  <2>3. PICK r : Do(d, c) = Ok(r, Remembering(c, d.body[c.node])) /\ Outcome(r, e, d)
    BY <1>6, <2>1 DEF Do, Texts
  <2> HIDE DEF e
  <2>4. /\ r.children = d.children /\ r.parent = d.parent /\ r.fresh = d.fresh /\ Sound(r)
        /\ r.body = [d.body EXCEPT ![c.node] = c.label] /\ r.tag = d.tag
    BY <2>2, <2>3 DEF Outcome, SameTree, SameText
  <2> QED BY <1>4, <1>6, <2>3, <2>4
<1> QED BY <1>5, <1>6

LEMMA ApplyMaker ==
  ASSUME NEW d, Sound(d), NEW a, Sealed(a), Agree(d, a), NEW c, c \in CommandRecords, c.op \in Makers,
         c.parent \in Nodes, c.parent < a.fresh, NEW rank, NEW e, NEW m, MakesOne(e, m, d, c, rank)
  PROVE  \E b : Leads(Do(d, c), a, b)
<1> DEFINE k == [c EXCEPT !.made = m]
<1>1. /\ Do(d, c) = Ok(e, k) /\ Grown(e, d, c.parent, m) /\ m \in Nodes /\ m < e.fresh /\ Sound(e)
      /\ d.fresh <= e.fresh /\ d.fresh <= m
  BY DEF MakesOne, Progress, Grown
<1>2. k.op = c.op /\ k.parent = c.parent /\ k.made = m
  BY DEF CommandRecords
<1> HIDE DEF k
<1>3. a.fresh \in Nat /\ d.fresh \in Nat /\ e.fresh \in Nat /\ a.fresh <= d.fresh
  BY <1>1 DEF Sealed, Agree, Sound, Documents
<1>4. \A n \in Nodes : n \in Nat
  BY DEF Nodes
<1>5. LinkMaker(a, k, e)
  <2>1. a.fresh <= m /\ a.fresh <= e.fresh
    BY <1>1, <1>3, <1>4
  <2>2. e.children[c.parent] = Append(a.children[c.parent], m)
    BY <1>1 DEF Grown, Agree
  <2>3. \A n \in Nodes : n < a.fresh => n < d.fresh
    BY <1>3, <1>4
  <2>4. \A n \in Nodes : n < a.fresh =>
       /\ n # c.parent => e.children[n] = a.children[n]
       /\ e.parent[n] = a.parent[n] /\ e.tag[n] = a.tag[n] /\ e.body[n] = a.body[n]
    BY <1>1, <2>3 DEF Grown, Agree
  <2> QED BY <1>1, <1>2, <2>1, <2>2, <2>4 DEF LinkMaker
<1>6. Sealed(e)
  <2>1. Root < e.fresh
    BY <1>1, <1>3 DEF Sealed, Root
  <2>2. e.children \in [Nodes -> Seq(Nodes)]
    BY <1>1 DEF Sound, Documents
  <2>3. \A n \in Nodes : \A x \in ToSet(e.children[n]) : x < e.fresh
    <3> SUFFICES ASSUME NEW n \in Nodes, NEW x \in ToSet(e.children[n]) PROVE x < e.fresh
      OBVIOUS
    <3>1. e.children[n] \in Seq(Nodes)
      BY <2>2
    <3>2. x \in Nodes
      BY <3>1, LenProperties, ElementOfSeq DEF ToSet
    <3> QED BY <1>1, <3>2, PlacedFacts
  <2> QED BY <1>1, <1>3, <2>1, <2>2, <2>3 DEF Sealed, Sound, Documents
<1>7. Agree(e, e)
  BY <1>3 DEF Agree
<1>8. Linked(a, k, e)
  BY <1>2, <1>5 DEF Linked, Texts, Makers, Moves
<1> QED BY <1>1, <1>6, <1>7, <1>8 DEF Leads, Ok

LEMMA ApplyRemove ==
  ASSUME NEW d, Sound(d), NEW a, Sealed(a), Agree(d, a), NEW c, c \in CommandRecords, c.op = "remove",
         c.node \in Nodes, c.node < a.fresh, c.parent \in Nodes, c.parent < a.fresh,
         c.node \in ToSet(d.children[c.parent])
  PROVE  \E b : Leads(Do(d, c), a, b)
<1> DEFINE p == c.parent
           x == c.node
           s == a.children[p]
           i == IndexIn(d, p, x)
           k == [c EXCEPT !.index = i]
           r == Detach(d, p, x)
           b == Kept(r, a.fresh)
<1>1. Do(d, c) = Ok(r, k)
  BY DEF Do
<1>2. k.op = c.op /\ k.node = x /\ k.parent = p /\ k.index = i
  BY DEF CommandRecords
<1>3. p \in Nodes /\ p < a.fresh /\ x \in Nodes /\ x < a.fresh
  OBVIOUS
<1>4. d.children[p] = s /\ s \in Seq(Nodes) /\ d \in Documents
  BY <1>3 DEF Agree, Sealed, Sound
<1>5. i \in DOMAIN s /\ s[i] = x /\ Once(s)
  <2>1. i \in DOMAIN d.children[p] /\ d.children[p][i] = x
    BY <1>3, IndexFacts
  <2> QED BY <1>3, <1>4, <2>1 DEF Sound, Fits
<1>6. Sound(r)
  <2> HIDE DEF p, x
  <2>1. x \in ToSet(d.children[p])
    BY DEF p, x
  <2> DEFINE e == Rehung(d, p, RemoveAt(d.children[p], IndexIn(d, p, x)), x, Nowhere)
  <2>2. Outcome(r, e, d)
    BY <1>3, <2>1, DetachFacts
  <2> HIDE DEF e, r
  <2> QED BY <2>2 DEF Outcome
<1>7. /\ r.children = [d.children EXCEPT ![p] = RemoveAt(s, i)]
      /\ r.parent = [d.parent EXCEPT ![x] = Nowhere]
      /\ r.tag = d.tag /\ r.body = d.body /\ r.fresh = d.fresh
  <2> HIDE DEF p, x, r, i, s
  <2>1. r = Detach(d, p, x) /\ i \in DOMAIN d.children[p] /\ d.children[p][i] = x
    BY <1>4, <1>5 DEF r
  <2>2. /\ r.children = [d.children EXCEPT ![p] = RemoveAt(d.children[p], i)]
        /\ r.parent = [d.parent EXCEPT ![x] = Nowhere]
        /\ r.tag = d.tag /\ r.body = d.body /\ r.fresh = d.fresh
    BY <1>3, <2>1, Remover
  <2> QED BY <1>4, <2>2
<1>8. ToSet(RemoveAt(s, i)) \subseteq ToSet(s)
  <2> HIDE DEF s, i
  <2>1. i \in DOMAIN s /\ s \in Seq(Nodes) /\ Once(s)
    BY <1>4, <1>5
  <2>2. ToSet(RemoveAt(s, i)) = ToSet(s) \ {s[i]}
    BY <2>1, RemoveExactly
  <2> QED BY <2>2
<1>9. a.parent[x] = p
  <2>1. d.parent[x] = p
    BY <1>3 DEF Sound, Fits
  <2> QED BY <1>3, <2>1 DEF Agree
<1> HIDE DEF r, i, k
<1>10. ASSUME NEW n \in Nodes, n < a.fresh
       PROVE  /\ r.children[n] = (IF n = p THEN RemoveAt(s, i) ELSE a.children[n])
              /\ r.parent[n] = (IF n = x THEN Nowhere ELSE a.parent[n])
              /\ r.tag[n] = a.tag[n] /\ r.body[n] = a.body[n]
  <2>1. r.parent[n] = (IF n = x THEN Nowhere ELSE d.parent[n])
        /\ r.children[n] = IF n = p THEN RemoveAt(s, i) ELSE d.children[n]
    BY <1>4, <1>7, <1>10 DEF Documents
  <2> QED BY <1>7, <1>10, <2>1 DEF Agree
<1>11. \A n \in Nodes : n < a.fresh => \A y \in ToSet(r.children[n]) : y < a.fresh
  <2> SUFFICES ASSUME NEW n \in Nodes, n < a.fresh, NEW y \in ToSet(r.children[n]) PROVE y < a.fresh
    OBVIOUS
  <2>1. y \in ToSet(a.children[n])
    BY <1>8, <1>10
  <2> QED BY <2>1 DEF Sealed
<1>12. a.fresh <= r.fresh
  BY <1>7 DEF Agree
<1>13. /\ Sealed(b) /\ Agree(r, b) /\ b.fresh = a.fresh
       /\ b.children = r.children /\ b.parent = r.parent /\ b.tag = r.tag /\ b.body = r.body
  <2> HIDE DEF b
  <2>1. b = Kept(r, a.fresh)
    BY DEF b
  <2> QED BY <1>6, <1>11, <1>12, <2>1, KeptFacts
<1> HIDE DEF b
<1>14. LinkRemove(a, k, b)
  <2>1. b.children[p] = RemoveAt(s, i) /\ b.parent[x] = Nowhere
    BY <1>3, <1>10, <1>13
  <2>2. \A n \in Nodes : n < a.fresh =>
       /\ n # p => b.children[n] = a.children[n]
       /\ n # x => b.parent[n] = a.parent[n]
       /\ b.tag[n] = a.tag[n] /\ b.body[n] = a.body[n]
    BY <1>10, <1>13
  <2> HIDE DEF p, x
  <2> QED BY <1>2, <1>3, <1>5, <1>9, <1>13, <2>1, <2>2 DEF LinkRemove, s
<1>15. Linked(a, k, b)
  BY <1>2, <1>14 DEF Linked, Texts, Makers, Moves
<1> QED BY <1>1, <1>13, <1>15 DEF Leads, Ok

LEMMA ApplyMove ==
  ASSUME NEW d, Sound(d), NEW a, Sealed(a), Agree(d, a), NEW c, c \in CommandRecords, c.op \in Moves,
         c.node \in Nodes, c.node < a.fresh, NEW p \in Nodes, d.parent[c.node] = p, p < a.fresh,
         c.op = "up" => d.children[p][1] # c.node,
         c.op = "down" => Last(d.children[p]) # c.node
  PROVE  \E b : Leads(Do(d, c), a, b)
<1> DEFINE x == c.node
           s == a.children[p]
           i == IndexIn(d, p, x)
           up == c.op = "up"
           j == IF up THEN i - 1 ELSE i + 1
           r == Reorder(d, p, x, up)
           b == Kept(r, a.fresh)
<1>1. d.children[p] = s /\ s \in Seq(Nodes) /\ d \in Documents /\ a.parent[x] = p
  BY DEF Agree, Sealed, Sound
<1>2. Do(d, c) = Ok(r, c)
  <2>1. p # Nowhere
    BY DEF Nowhere, Nodes
  <2> QED BY <2>1 DEF Do, Moves
<1>3. i \in DOMAIN s /\ s[i] = x
  <2>1. x \in ToSet(d.children[p])
    BY DEF Sound, Fits
  <2>2. i \in DOMAIN d.children[p] /\ d.children[p][i] = x
    BY <2>1, IndexFacts
  <2> QED BY <1>1, <2>2
<1>4. DOMAIN s = 1..Len(s) /\ Len(s) \in Nat
  <2> HIDE DEF s
  <2> QED BY <1>1, LenProperties
<1>5. j \in DOMAIN s
  <2> HIDE DEF i, s
  <2>1. up => s[1] # x
    BY <1>1
  <2>2. ~up => s[Len(s)] # x
    BY <1>1 DEF Moves, Last
  <2>3. CASE up
    <3>1. i # 1
      BY <1>3, <2>1, <2>3
    <3> QED BY <1>3, <1>4, <2>3, <3>1
  <2>4. CASE ~up
    <3>1. i # Len(s)
      BY <1>3, <2>2, <2>4
    <3> QED BY <1>3, <1>4, <2>4, <3>1
  <2> QED BY <2>3, <2>4
<1>6. up \in BOOLEAN
  OBVIOUS
<1>7. /\ r.children = [d.children EXCEPT ![p] = Swapped(s, i, j)]
      /\ r.parent = d.parent /\ r.tag = d.tag /\ r.body = d.body /\ r.fresh = d.fresh
  <2> HIDE DEF x, i, up, r, s
  <2>1. /\ i \in DOMAIN d.children[p] /\ d.children[p][i] = x /\ j \in DOMAIN d.children[p]
        /\ r = Reorder(d, p, x, up) /\ x \in Nodes
    BY <1>1, <1>3, <1>5 DEF r, x
  <2> DEFINE jj == j
  <2>2. jj = IF up THEN i - 1 ELSE i + 1
    OBVIOUS
  <2> HIDE DEF jj
  <2>3. /\ r.children = [d.children EXCEPT ![p] = Swapped(d.children[p], i, jj)]
        /\ r.parent = d.parent /\ r.tag = d.tag /\ r.body = d.body /\ r.fresh = d.fresh
    BY <1>6, <2>1, <2>2, Mover
  <2> QED BY <1>1, <2>3 DEF jj
<1>8. Sound(r)
  <2> HIDE DEF x, up
  <2>1. i # 0
    BY <1>3, <1>4
  <2>2. j \in DOMAIN d.children[p]
    BY <1>1, <1>5
  <2>3. Outcome(r, Turned(d, p, i, j), d)
    <3>1. x \in Nodes
      BY DEF x
    <3> QED BY <1>6, <2>1, <2>2, <3>1, ReorderFacts
  <2> HIDE DEF r
  <2> QED BY <2>3 DEF Outcome
<1>9. ToSet(Swapped(s, i, j)) = ToSet(s)
  <2> HIDE DEF s, i, j
  <2> QED BY <1>1, <1>3, <1>5, SwapFacts
<1> HIDE DEF r, i, j
<1>10. ASSUME NEW n \in Nodes, n < a.fresh
       PROVE  /\ r.children[n] = (IF n = p THEN Swapped(s, i, j) ELSE a.children[n])
              /\ r.parent[n] = a.parent[n]
              /\ r.tag[n] = a.tag[n] /\ r.body[n] = a.body[n]
  <2>1. r.children[n] = IF n = p THEN Swapped(s, i, j) ELSE d.children[n]
    BY <1>1, <1>7, <1>10 DEF Documents
  <2> QED BY <1>7, <1>10, <2>1 DEF Agree
<1>11. \A n \in Nodes : n < a.fresh => \A y \in ToSet(r.children[n]) : y < a.fresh
  <2> SUFFICES ASSUME NEW n \in Nodes, n < a.fresh, NEW y \in ToSet(r.children[n]) PROVE y < a.fresh
    OBVIOUS
  <2>1. y \in ToSet(a.children[n])
    BY <1>9, <1>10
  <2> QED BY <2>1 DEF Sealed
<1>12. a.fresh <= r.fresh
  BY <1>7 DEF Agree
<1>13. /\ Sealed(b) /\ Agree(r, b) /\ b.fresh = a.fresh
       /\ b.children = r.children /\ b.parent = r.parent /\ b.tag = r.tag /\ b.body = r.body
  <2> HIDE DEF b
  <2>1. b = Kept(r, a.fresh)
    BY DEF b
  <2> QED BY <1>8, <1>11, <1>12, <2>1, KeptFacts
<1> HIDE DEF b
<1>14. MovedIn(a, c, b, p, i, j)
  <2>1. b.children[p] = Swapped(s, i, j)
    BY <1>10, <1>13
  <2>2. \A n \in Nodes : n < a.fresh =>
       /\ n # p => b.children[n] = a.children[n]
       /\ b.parent[n] = a.parent[n] /\ b.tag[n] = a.tag[n] /\ b.body[n] = a.body[n]
    BY <1>10, <1>13
  <2>3. j = IF c.op = "up" THEN i - 1 ELSE i + 1
    BY DEF j
  <2> QED BY <1>1, <1>3, <1>5, <2>1, <2>2, <2>3 DEF MovedIn
<1>15. LinkMove(a, c, b)
  BY <1>13, <1>14 DEF LinkMove
<1>16. Linked(a, c, b)
  BY <1>15 DEF Linked, Texts, Makers, Moves
<1> QED BY <1>2, <1>13, <1>16 DEF Leads, Ok

LEMMA ApplyLeads ==
  ASSUME NEW rank, Orderly(rank), NEW a, Sealed(a), Agree(doc, a), NEW c \in Asked, Fit(doc, c),
         ~(c.op \in Moves /\ AtEdge(c))
  PROVE  \E b : Leads(Do(doc, c), a, b)
<1>1. Sound(doc) /\ Root < doc.fresh /\ Ranked(doc, rank)
  BY DEF Orderly
<1>2. /\ Runs(c, rank, doc.fresh)
      /\ c.op \in {"copy", "remove", "up", "down"} =>
              /\ c.parent = doc.parent[c.node] /\ c.parent \in Nodes
              /\ c.node \in ToSet(doc.children[c.parent])
      /\ c.op \in Texts \cup Moves \cup {"copy", "remove"} => c.node \in Down(doc, Root)
      /\ c.op \in Makers \cup {"remove"} => c.parent \in Down(doc, Root)
  BY <1>1, AskedFacts
<1>3. Do(doc, c).ok
  BY <1>1, AskedGoesThrough
<1>4. \A n \in Down(doc, Root) : n \in Nodes /\ n < a.fresh
  BY <1>1, BelowWasThere
<1>5. c \in CommandRecords /\ c.old = Unset
  BY <1>2, AskedFresh DEF Runs
<1>6. CASE c.op \in Texts
  BY <1>1, <1>2, <1>4, <1>5, <1>6, ApplyText
<1>7. CASE c.op \in Makers
  <2>1. Do(doc, c) = Throws(doc, c) \/ \E e, m : MakesOne(e, m, doc, c, rank)
    BY <1>1, <1>2, <1>7, MakerGrows
  <2>2. PICK e, m : MakesOne(e, m, doc, c, rank)
    BY <1>3, <2>1 DEF Throws
  <2>3. c.parent \in Nodes /\ c.parent < a.fresh
    BY <1>2, <1>4, <1>7
  <2> QED BY <1>1, <1>5, <1>7, <2>2, <2>3, ApplyMaker
<1>8. CASE c.op = "remove"
  <2>1. c.node \in Nodes /\ c.node < a.fresh /\ c.parent \in Nodes /\ c.parent < a.fresh
        /\ c.node \in ToSet(doc.children[c.parent])
    BY <1>2, <1>4, <1>8
  <2> QED BY <1>1, <1>5, <1>8, <2>1, ApplyRemove
<1>9. CASE c.op \in Moves
  <2>1. c.node \in Nodes /\ c.node < a.fresh /\ c.parent \in Nodes /\ doc.parent[c.node] = c.parent
        /\ c.node \in ToSet(doc.children[c.parent])
    BY <1>2, <1>4, <1>9 DEF Moves
  <2>2. c.parent < a.fresh
    <3>1. Root \in Nodes
      BY LoadingSound
    <3>2. c.node # Root
      BY <1>9 DEF Asked, Command, Below, Moves
    <3>3. c.node \in Down(doc, Root)
      BY <1>2, <1>9
    <3>4. doc.parent[c.node] \in Down(doc, Root)
      BY <1>1, <3>1, <3>2, <3>3, DownParents
    <3> QED BY <1>4, <2>1, <3>4
  <2>3. /\ c.op = "up" => doc.children[c.parent][1] # c.node
        /\ c.op = "down" => Last(doc.children[c.parent]) # c.node
    BY <1>9, <2>1 DEF AtEdge
  <2> QED BY <1>1, <1>5, <1>9, <2>1, <2>2, <2>3, ApplyMove
<1> QED BY <1>5, <1>6, <1>7, <1>8, <1>9 DEF CommandRecords, Kinds, Texts, Makers, Moves

-----------------------------------------------------------------------------
\* The stacks as one history: what is done, and then what is undone, the last undone first.
Nth(U, R, i) == IF i <= Len(U) THEN U[i] ELSE R[Len(U) + Len(R) + 1 - i]

LEMMA PopFacts ==
  ASSUME NEW S, NEW s \in Seq(S), s # <<>>
  PROVE  Last(s) \in S /\ Front(s) \in Seq(S)
<1>1. Len(s) \in Nat /\ Len(s) > 0
  BY EmptySeq
<1>2. Last(s) \in S
  BY <1>1 DEF Last
<1> DEFINE m == Len(s) - 1
<1>3. Front(s) = SubSeq(s, 1, m) /\ m \in Nat /\ m <= Len(s)
  BY <1>1 DEF Front
<1>4. \A i \in 1..m : s[i] \in S
  BY <1>3, ElementOfSeq
<1> QED
  BY <1>2, <1>3, <1>4, SubSeqProperties

LEMMA StackFacts ==
  ASSUME NEW S, NEW s \in Seq(S), s # <<>>
  PROVE  /\ Len(s) \in Nat \ {0} /\ Front(s) \in Seq(S) /\ Len(Front(s)) = Len(s) - 1
         /\ \A i \in 1..Len(s) - 1 : Front(s)[i] = s[i]
         /\ Last(s) = s[Len(s)] /\ Last(s) \in S
<1>1. Len(s) \in Nat /\ Len(s) > 0
  BY EmptySeq
<1> DEFINE m == Len(s) - 1
<1>2. Front(s) = SubSeq(s, 1, m) /\ m \in Nat /\ m <= Len(s)
  BY <1>1 DEF Front
<1>3. \A i \in 1..m : s[i] \in S
  BY <1>2, ElementOfSeq
<1>4. /\ Front(s) \in Seq(S) /\ Len(Front(s)) = m
      /\ \A i \in 1..m : Front(s)[i] = s[i]
  <2>1. /\ SubSeq(s, 1, m) \in Seq(S) /\ Len(SubSeq(s, 1, m)) = IF 1 <= m THEN m - 1 + 1 ELSE 0
        /\ \A i \in 1..m - 1 + 1 : SubSeq(s, 1, m)[i] = s[1 + i - 1]
    BY <1>2, <1>3, SubSeqProperties
  <2> HIDE DEF m
  <2> QED BY <1>2, <2>1
<1> QED BY <1>1, <1>4, PopFacts DEF Last

\* A command that moves from one stack to the other keeps its place in the history.
LEMMA NthMoves ==
  ASSUME NEW S, NEW U \in Seq(S), NEW R \in Seq(S), U # <<>>
  PROVE  /\ Len(Front(U)) + Len(Append(R, Last(U))) = Len(U) + Len(R)
         /\ \A i \in 1..Len(U) + Len(R) : Nth(Front(U), Append(R, Last(U)), i) = Nth(U, R, i)
<1> DEFINE A == Append(R, Last(U))
           F == Front(U)
<1>1. /\ Len(U) \in Nat \ {0} /\ Len(F) = Len(U) - 1
      /\ \A i \in 1..Len(U) - 1 : F[i] = U[i]
  BY StackFacts
<1>2. /\ Len(R) \in Nat /\ Len(A) = Len(R) + 1 /\ A[Len(R) + 1] = U[Len(U)]
      /\ \A i \in 1..Len(R) : A[i] = R[i]
  <2>1. Last(U) = U[Len(U)] /\ Last(U) \in S
    BY StackFacts
  <2> QED BY <2>1, AppendProperties
<1> HIDE DEF A, F
<1>3. Len(F) + Len(A) = Len(U) + Len(R)
  BY <1>1, <1>2
<1>4. ASSUME NEW i \in 1..Len(U) + Len(R) PROVE Nth(F, A, i) = Nth(U, R, i)
  <2>1. CASE i <= Len(U) - 1
    BY <1>1, <1>2, <2>1 DEF Nth
  <2>2. CASE i = Len(U)
    <3>1. Len(F) + Len(A) + 1 - i = Len(R) + 1 /\ ~(i <= Len(F))
      BY <1>1, <1>2, <2>2
    <3> QED BY <1>2, <2>2, <3>1, <1>1 DEF Nth
  <2>3. CASE i > Len(U)
    <3>1. Len(U) + Len(R) + 1 - i \in 1..Len(R) /\ ~(i <= Len(F)) /\ ~(i <= Len(U))
      BY <1>1, <1>2, <2>3
    <3> QED BY <1>2, <1>3, <3>1 DEF Nth
  <2> QED BY <1>1, <1>2, <2>1, <2>2, <2>3
<1> QED BY <1>3, <1>4 DEF A, F

LEMMA NthMovesBack ==
  ASSUME NEW S, NEW U \in Seq(S), NEW R \in Seq(S), R # <<>>
  PROVE  /\ Len(Append(U, Last(R))) + Len(Front(R)) = Len(U) + Len(R)
         /\ \A i \in 1..Len(U) + Len(R) : Nth(Append(U, Last(R)), Front(R), i) = Nth(U, R, i)
<1> DEFINE A == Append(U, Last(R))
           F == Front(R)
<1>1. /\ Len(R) \in Nat \ {0} /\ Len(F) = Len(R) - 1
      /\ \A i \in 1..Len(R) - 1 : F[i] = R[i]
  BY StackFacts
<1>2. /\ Len(U) \in Nat /\ Len(A) = Len(U) + 1 /\ A[Len(U) + 1] = R[Len(R)]
      /\ \A i \in 1..Len(U) : A[i] = U[i]
  <2>1. Last(R) = R[Len(R)] /\ Last(R) \in S
    BY StackFacts
  <2> QED BY <2>1, AppendProperties
<1> HIDE DEF A, F
<1>3. Len(A) + Len(F) = Len(U) + Len(R)
  BY <1>1, <1>2
<1>4. ASSUME NEW i \in 1..Len(U) + Len(R) PROVE Nth(A, F, i) = Nth(U, R, i)
  <2>1. CASE i <= Len(U)
    BY <1>1, <1>2, <2>1 DEF Nth
  <2>2. CASE i = Len(U) + 1
    <3>1. Len(U) + Len(R) + 1 - i = Len(R) /\ ~(i <= Len(U)) /\ i <= Len(A)
      BY <1>1, <1>2, <2>2
    <3> QED BY <1>2, <2>2, <3>1 DEF Nth
  <2>3. CASE i > Len(U) + 1
    <3>1. Len(U) + Len(R) + 1 - i \in 1..Len(R) - 1 /\ ~(i <= Len(A)) /\ ~(i <= Len(U))
      BY <1>1, <1>2, <2>3
    <3> QED BY <1>1, <1>3, <3>1 DEF Nth
  <2> QED BY <1>1, <1>2, <2>1, <2>2, <2>3
<1> QED BY <1>3, <1>4 DEF A, F


-----------------------------------------------------------------------------
\* D[k] is the document with the first k commands done, the undone ones included, and
\* W[k + 1] what it looked like.
Past(D, U, R, W) ==
  /\ Len(W) = Len(U) + Len(R) + 1
  /\ \A k \in 0..Len(U) + Len(R) : Sealed(D[k]) /\ W[k + 1] = View(D[k])
  /\ \A k \in 1..Len(U) + Len(R) : Linked(D[k - 1], Nth(U, R, k), D[k])

LEMMA AgreeLooks ==
  ASSUME NEW a, Sealed(a), NEW d, Agree(d, a)
  PROVE  View(d) = View(a)
<1> DEFINE C == {n \in Nodes : n < a.fresh}
<1>1. C \subseteq Nodes /\ Root \in C
  BY LoadingSound DEF Sealed
<1>2. ASSUME NEW n \in C PROVE a.children[n] \in Seq(C)
  <2> DEFINE s == a.children[n]
  <2>1. s \in Seq(Nodes) /\ \A x \in ToSet(s) : x < a.fresh
    BY DEF Sealed
  <2> HIDE DEF s
  <2>2. DOMAIN s = 1..Len(s) /\ Len(s) \in Nat
    BY <2>1, LenProperties
  <2>3. \A i \in 1..Len(s) : s[i] \in C
    BY <2>1, <2>2, ElementOfSeq DEF ToSet
  <2>4. s \in [1..Len(s) -> C]
    BY <2>1, <2>2, <2>3
  <2>5. s \in Seq(C)
    BY <2>2, <2>4, FunctionIsSeq
  <2> QED BY <2>5 DEF s
<1>3. Alike(d, a, C)
  BY <1>2 DEF Alike, Agree
<1> HIDE DEF C
<1> QED BY <1>1, <1>3, ViewAlike

LEMMA PastMoves ==
  ASSUME NEW S, NEW U \in Seq(S), NEW R \in Seq(S), NEW D, NEW W, Past(D, U, R, W)
  PROVE  /\ U # <<>> => Past(D, Front(U), Append(R, Last(U)), W)
         /\ R # <<>> => Past(D, Append(U, Last(R)), Front(R), W)
<1>1. ASSUME NEW P, NEW Q, Len(P) + Len(Q) = Len(U) + Len(R),
             \A i \in 1..Len(U) + Len(R) : Nth(P, Q, i) = Nth(U, R, i)
      PROVE  Past(D, P, Q, W)
  <2> DEFINE n == Len(U) + Len(R)
             l == Len(P) + Len(Q)
  <2>1. /\ Len(W) = n + 1
        /\ \A k \in 0..n : Sealed(D[k]) /\ W[k + 1] = View(D[k])
        /\ \A k \in 1..n : Linked(D[k - 1], Nth(U, R, k), D[k])
        /\ l = n /\ \A i \in 1..n : Nth(P, Q, i) = Nth(U, R, i)
    BY <1>1 DEF Past
  <2> HIDE DEF n, l
  <2>2. /\ Len(W) = l + 1
        /\ \A k \in 0..l : Sealed(D[k]) /\ W[k + 1] = View(D[k])
        /\ \A k \in 1..l : Linked(D[k - 1], Nth(P, Q, k), D[k])
    BY <2>1
  <2> QED BY <2>2 DEF Past, l
<1>2. ASSUME U # <<>> PROVE Past(D, Front(U), Append(R, Last(U)), W)
  <2> DEFINE P == Front(U)
             Q == Append(R, Last(U))
  <2>1. /\ Len(P) + Len(Q) = Len(U) + Len(R)
        /\ \A i \in 1..Len(U) + Len(R) : Nth(P, Q, i) = Nth(U, R, i)
    BY <1>2, NthMoves
  <2> HIDE DEF P, Q
  <2>2. Past(D, P, Q, W)
    BY <1>1, <2>1
  <2> QED BY <2>2 DEF P, Q
<1>3. ASSUME R # <<>> PROVE Past(D, Append(U, Last(R)), Front(R), W)
  <2> DEFINE P == Append(U, Last(R))
             Q == Front(R)
  <2>1. /\ Len(P) + Len(Q) = Len(U) + Len(R)
        /\ \A i \in 1..Len(U) + Len(R) : Nth(P, Q, i) = Nth(U, R, i)
    BY <1>3, NthMovesBack
  <2> HIDE DEF P, Q
  <2>2. Past(D, P, Q, W)
    BY <1>1, <2>1
  <2> QED BY <2>2 DEF P, Q
<1> QED BY <1>2, <1>3

LEMMA PastStarts ==
  Past([k \in {0} |-> Loading], <<>>, <<>>, <<View(Loading)>>)
<1>1. Sealed(Loading)
  <2>1. Sound(Loading) /\ Root < Loading.fresh
    BY LoadingSound
  <2>2. Loading \in Documents
    BY <2>1 DEF Sound
  <2>3. \A n \in Nodes : \A x \in ToSet(Loading.children[n]) : x < Loading.fresh
    <3> SUFFICES ASSUME NEW n \in Nodes, NEW x \in ToSet(Loading.children[n]) PROVE x < Loading.fresh
      OBVIOUS
    <3>1. Loading.children[n] \in Seq(Nodes)
      BY <2>2 DEF Documents
    <3>2. x \in Nodes
      BY <3>1, LenProperties, ElementOfSeq DEF ToSet
    <3> QED BY <2>1, <3>2, PlacedFacts
  <2> QED BY <2>1, <2>2, <2>3 DEF Sealed, Documents
<1> DEFINE D == [k \in {0} |-> Loading]
           W == <<View(Loading)>>
<1>2. D[0] = Loading /\ Len(W) = 1 /\ W[1] = View(Loading) /\ Len(<<>>) = 0
  OBVIOUS
<1> HIDE DEF D, W
<1>3. Len(<<>>) + Len(<<>>) = 0 /\ 0..0 = {0} /\ 1..0 = {}
  BY <1>2
<1> QED BY <1>1, <1>2, <1>3 DEF Past, D, W

\* A new command takes the place of what was undone.
LEMMA PastGrows ==
  ASSUME NEW S, NEW U \in Seq(S), NEW R \in Seq(S), NEW D, NEW V, NEW W \in Seq(V), Past(D, U, R, W),
         NEW c \in S, NEW b, Sealed(b), Linked(D[Len(U)], c, b), NEW v \in V, v = View(b)
  PROVE  \E E : /\ Past(E, Append(U, c), <<>>, Append(SubSeq(W, 1, Len(U) + 1), v))
                /\ E[Len(U) + 1] = b
<1> DEFINE u == Len(U)
           A == Append(U, c)
           X == SubSeq(W, 1, u + 1)
           Y == Append(X, v)
           E == [k \in 0..u + 1 |-> IF k = u + 1 THEN b ELSE D[k]]
<1>1. /\ u \in Nat /\ Len(R) \in Nat /\ Len(A) = u + 1 /\ A[u + 1] = c
      /\ \A i \in 1..u : A[i] = U[i]
  BY AppendProperties, LenProperties
<1>2. Len(W) = u + Len(R) + 1 /\ Len(W) \in Nat
  BY <1>1 DEF Past
<1>3. /\ X \in Seq(V) /\ Len(X) = u + 1 /\ \A i \in 1..u + 1 : X[i] = W[i]
  <2>1. \A i \in 1..u + 1 : W[i] \in V
    <3>1. \A i \in 1..u + 1 : i \in 1..Len(W)
      BY <1>1, <1>2
    <3> QED BY <3>1, ElementOfSeq
  <2> DEFINE m == u + 1
  <2>2. m \in Int /\ 1 <= m /\ m - 1 + 1 = m /\ \A i \in 1..m : 1 + i - 1 = i
    BY <1>1
  <2> HIDE DEF m
  <2>3. /\ SubSeq(W, 1, m) \in Seq(V) /\ Len(SubSeq(W, 1, m)) = IF 1 <= m THEN m - 1 + 1 ELSE 0
        /\ \A i \in 1..m - 1 + 1 : SubSeq(W, 1, m)[i] = W[1 + i - 1]
    <3>1. \A i \in 1..m : W[i] \in V
      BY <2>1 DEF m
    <3> QED BY <2>2, <3>1, SubSeqProperties
  <2>4. SubSeq(W, 1, m) \in Seq(V) /\ Len(SubSeq(W, 1, m)) = m /\ \A i \in 1..m : SubSeq(W, 1, m)[i] = W[i]
    BY <2>2, <2>3
  <2> QED BY <2>4 DEF m
<1> HIDE DEF X
<1>4. Len(Y) = u + 2 /\ Y[u + 2] = v /\ \A i \in 1..u + 1 : Y[i] = W[i]
  <2>1. Len(Y) = Len(X) + 1 /\ Y[Len(X) + 1] = v /\ \A i \in 1..Len(X) : Y[i] = X[i]
    BY <1>3, AppendProperties
  <2>2. Len(X) + 1 = u + 2
    BY <1>1, <1>3
  <2> HIDE DEF Y
  <2> QED BY <1>3, <2>1, <2>2
<1>5. E[u + 1] = b /\ \A k \in 0..u : E[k] = D[k]
  BY <1>1
<1> HIDE DEF A, Y, E, u
<1>6. Len(A) + Len(<<>>) = u + 1
  BY <1>1
<1>7. ASSUME NEW k \in 0..u + 1 PROVE Sealed(E[k]) /\ Y[k + 1] = View(E[k])
  <2>1. CASE k = u + 1
    <3>1. k + 1 = u + 2
      BY <1>1, <2>1
    <3> QED BY <1>4, <1>5, <2>1, <3>1
  <2>2. CASE k # u + 1
    <3>1. k \in 0..u /\ k + 1 \in 1..u + 1 /\ k \in 0..u + Len(R)
      BY <1>1, <2>2
    <3> QED BY <1>4, <1>5, <3>1 DEF Past, u
  <2> QED BY <2>1, <2>2
<1>8. ASSUME NEW k \in 1..u + 1 PROVE Linked(E[k - 1], Nth(A, <<>>, k), E[k])
  <2>1. Nth(A, <<>>, k) = A[k]
    BY <1>1 DEF Nth
  <2>2. CASE k = u + 1
    <3>1. k - 1 = u /\ u \in 0..u
      BY <1>1, <2>2
    <3>2. E[k - 1] = D[Len(U)] /\ E[k] = b /\ A[k] = c
      BY <1>1, <1>5, <2>2, <3>1 DEF u
    <3> QED BY <2>1, <3>2
  <2>3. CASE k # u + 1
    <3>1. k \in 1..u /\ k - 1 \in 0..u /\ k \in 0..u /\ k \in 1..u + Len(R)
      BY <1>1, <2>3
    <3>2. Nth(U, R, k) = U[k] /\ A[k] = U[k]
      BY <1>1, <3>1 DEF Nth, u
    <3>3. Linked(D[k - 1], Nth(U, R, k), D[k])
      BY <3>1 DEF Past, u
    <3> QED BY <1>5, <2>1, <3>1, <3>2, <3>3
  <2> QED BY <2>2, <2>3
<1>9. Past(E, A, <<>>, Y)
  <2>1. Len(Y) = (u + 1) + 1
    BY <1>1, <1>4
  <2> QED BY <1>6, <1>7, <1>8, <2>1 DEF Past
<1> QED BY <1>5, <1>9 DEF A, Y, X, u

\* As long as the history is to be kept, it is.
Remembered ==
  ~edgeMoves /\ ~recreated =>
    /\ net = Len(undoStack)
    /\ \E V : views \in Seq(V)
    /\ \E D : Past(D, undoStack, redoStack, views) /\ Agree(doc, D[Len(undoStack)])

LEMMA InitRemembered == Init => Remembered
<1> SUFFICES ASSUME Init PROVE Remembered
  OBVIOUS
<1>1. doc = Loading /\ undoStack = <<>> /\ redoStack = <<>> /\ net = 0 /\ views = <<View(Loading)>>
  BY DEF Init
<1>2. views \in Seq({View(Loading)})
  BY <1>1
<1> DEFINE D == [k \in {0} |-> Loading]
<1>3. Past(D, undoStack, redoStack, views)
  BY <1>1, PastStarts
<1>4. Len(undoStack) = 0
  BY <1>1
<1>5. D[0] = Loading
  OBVIOUS
<1>6. Agree(doc, D[0])
  <2>1. Loading.fresh \in Nat
    BY LoadingSound DEF Sound, Documents
  <2> QED BY <1>1, <1>5, <2>1 DEF Agree
<1> HIDE DEF D
<1>7. net = Len(undoStack) /\ Agree(doc, D[Len(undoStack)])
  BY <1>1, <1>4, <1>6
<1> QED BY <1>2, <1>3, <1>7 DEF Remembered

LEMMA ApplyRemembers ==
  ASSUME TreeInv, Remembered, NEW c \in Asked, Apply(c)
  PROVE  Remembered'
<1> SUFFICES ASSUME ~edgeMoves', ~recreated' PROVE Remembered'
  BY DEF Remembered
<1>1. ~edgeMoves /\ ~recreated /\ ~(c.op \in Moves /\ AtEdge(c))
  BY DEF Apply, Moves
<1>2. PICK rank : Orderly(rank)
  BY DEF TreeInv
<1>3. /\ undoStack \in Seq(CommandRecords) /\ redoStack \in Seq(CommandRecords)
      /\ Len(undoStack) \in Nat
  BY <1>2, LenProperties DEF Orderly, Ready
<1>4. PICK V : views \in Seq(V)
  BY <1>1 DEF Remembered
<1>5. PICK D : Past(D, undoStack, redoStack, views) /\ Agree(doc, D[Len(undoStack)])
  BY <1>1 DEF Remembered
<1> DEFINE r == Do(doc, c)
           u == Len(undoStack)
<1>6. Fit(doc, c)
  BY DEF Apply, Room, Fit
<1>7. Sealed(D[u])
  <2>1. Len(redoStack) \in Nat
    BY <1>3, LenProperties
  <2>2. u \in 0..Len(undoStack) + Len(redoStack)
    BY <1>3, <2>1
  <2> QED BY <1>5, <2>2 DEF Past
<1>8. PICK b : Leads(r, D[u], b)
  <2> DEFINE a == D[u]
  <2>1. Sealed(a) /\ Agree(doc, a)
    BY <1>5, <1>7
  <2> HIDE DEF a
  <2> QED BY <1>1, <1>2, <1>6, <2>1, ApplyLeads DEF a
<1>9. r.cmd \in CommandRecords
  <2>1. Runs(c, rank, doc.fresh) /\ r.ok
    BY <1>2, AskedFacts, AskedGoesThrough DEF Orderly
  <2>2. Advances(r, doc, c, rank)
    BY <1>2, <1>6, <2>1, DoAdvances DEF Orderly
  <2> HIDE DEF r
  <2> QED BY <2>1, <2>2 DEF Advances, Runs
<1>10. View(r.doc) = View(b)
  <2> HIDE DEF r
  <2> QED BY <1>8, AgreeLooks DEF Leads
<1>11. /\ doc' = r.doc /\ undoStack' = Append(undoStack, r.cmd) /\ redoStack' = <<>>
       /\ views' = Append(SubSeq(views, 1, u + 1), View(r.doc)) /\ net' = net + 1
  BY DEF Apply
<1> HIDE DEF r
<1> DEFINE V2 == V \cup {View(r.doc)}
<1>12. views \in Seq(V2) /\ View(r.doc) \in V2
  <2> DEFINE W == views
  <2> HIDE DEF W
  <2>1. W \in Seq(V) /\ V \subseteq V2
    BY <1>4 DEF W
  <2> HIDE DEF V2
  <2>2. W \in Seq(V2)
    BY <2>1, SeqWider
  <2> QED BY <2>2 DEF W, V2
<1> HIDE DEF V2
<1> DEFINE A == Append(undoStack, r.cmd)
           Y == Append(SubSeq(views, 1, u + 1), View(r.doc))
<1>13. PICK E : Past(E, A, <<>>, Y) /\ E[u + 1] = b
  <2>1. Sealed(b) /\ Linked(D[u], r.cmd, b)
    BY <1>8 DEF Leads
  <2> DEFINE k == r.cmd
             v == View(r.doc)
  <2>2. k \in CommandRecords /\ v \in V2 /\ v = View(b) /\ Linked(D[Len(undoStack)], k, b)
    BY <1>9, <1>10, <1>12, <2>1
  <2> HIDE DEF k, v
  <2>3. \E E : /\ Past(E, Append(undoStack, k), <<>>, Append(SubSeq(views, 1, Len(undoStack) + 1), v))
               /\ E[Len(undoStack) + 1] = b
    BY <1>3, <1>5, <1>12, <2>1, <2>2, PastGrows
  <2> QED BY <2>3 DEF k, v
<1>14. Len(A) = u + 1
  BY <1>3, <1>9, AppendProperties
<1>15. Y \in Seq(V2)
  <2> DEFINE m == u + 1
             X == SubSeq(views, 1, m)
  <2>1. m \in Int /\ \A i \in 1..m : views[i] \in V2
    <3>1. Len(views) = u + Len(redoStack) + 1 /\ Len(redoStack) \in Nat
      BY <1>3, <1>5, LenProperties DEF Past
    <3>2. m \in Int /\ \A i \in 1..m : i \in 1..Len(views)
      BY <1>3, <3>1
    <3> QED BY <1>12, <3>2, ElementOfSeq
  <2> HIDE DEF m
  <2>2. X \in Seq(V2)
    BY <1>12, <2>1, SubSeqProperties
  <2> HIDE DEF X
  <2>3. Append(X, View(r.doc)) \in Seq(V2)
    BY <1>12, <2>2, AppendProperties
  <2> QED BY <2>3 DEF X, m
<1>16. Agree(r.doc, b)
  BY <1>8 DEF Leads
<1>17. net + 1 = Len(A)
  BY <1>1, <1>14 DEF Remembered
<1> HIDE DEF A, Y
<1>18. undoStack' = A /\ views' = Y
  BY <1>11 DEF A, Y
<1>19. net' = Len(undoStack') /\ views' \in Seq(V2) /\ Past(E, undoStack', redoStack', views')
  BY <1>11, <1>13, <1>15, <1>17, <1>18
<1>20. Agree(doc', E[Len(undoStack')])
  BY <1>11, <1>13, <1>14, <1>16, <1>18
<1>21. (\E W : views' \in Seq(W)) /\ \E F : Past(F, undoStack', redoStack', views') /\ Agree(doc', F[Len(undoStack')])
  BY <1>19, <1>20
<1> QED BY <1>19, <1>21 DEF Remembered

\* The pieces that Undo and Redo share.
LEMMA PastHere ==
  ASSUME NEW S, NEW U \in Seq(S), NEW R \in Seq(S), NEW D, NEW W, Past(D, U, R, W)
  PROVE  /\ Len(U) \in Nat /\ Len(R) \in Nat /\ Sealed(D[Len(U)])
         /\ U # <<>> => /\ Sealed(D[Len(U) - 1]) /\ Linked(D[Len(U) - 1], Last(U), D[Len(U)])
                        /\ Len(Front(U)) = Len(U) - 1
         /\ R # <<>> => /\ Sealed(D[Len(U) + 1]) /\ Linked(D[Len(U)], Last(R), D[Len(U) + 1])
                        /\ Len(Append(U, Last(R))) = Len(U) + 1
<1> DEFINE u == Len(U)
           n == Len(U) + Len(R)
<1>1. /\ u \in Nat /\ Len(R) \in Nat /\ n = u + Len(R)
      /\ \A k \in 0..n : Sealed(D[k])
      /\ \A k \in 1..n : Linked(D[k - 1], Nth(U, R, k), D[k])
  BY LenProperties DEF Past
<1>2. Sealed(D[u])
  <2> HIDE DEF u, n
  <2>1. u \in 0..n
    BY <1>1
  <2> QED BY <1>1, <2>1
<1>3. ASSUME U # <<>>
      PROVE /\ Sealed(D[u - 1]) /\ Linked(D[u - 1], Last(U), D[u])
            /\ Len(Front(U)) = u - 1
  <2>1. u > 0 /\ Last(U) = U[u] /\ Len(Front(U)) = u - 1
    BY <1>1, <1>3, StackFacts
  <2>2. Nth(U, R, u) = U[u]
    BY <1>1 DEF Nth
  <2> HIDE DEF u, n
  <2>3. u - 1 \in 0..n /\ u \in 1..n
    BY <1>1, <2>1
  <2> QED BY <1>1, <2>1, <2>2, <2>3
<1>4. ASSUME R # <<>>
      PROVE /\ Sealed(D[u + 1]) /\ Linked(D[u], Last(R), D[u + 1])
            /\ Len(Append(U, Last(R))) = u + 1
  <2>1. Len(R) > 0 /\ Last(R) = R[Len(R)] /\ Last(R) \in S
    BY <1>1, <1>4, StackFacts
  <2>2. Nth(U, R, u + 1) = Last(R)
    <3>1. ~(u + 1 <= Len(U)) /\ Len(U) + Len(R) + 1 - (u + 1) = Len(R)
      BY <1>1
    <3> QED BY <2>1, <3>1 DEF Nth
  <2>3. Len(Append(U, Last(R))) = u + 1
    BY <2>1, AppendProperties
  <2> HIDE DEF u, n
  <2>4. u + 1 \in 0..n /\ u + 1 \in 1..n /\ (u + 1) - 1 = u
    BY <1>1, <2>1
  <2>5. Linked(D[(u + 1) - 1], Nth(U, R, u + 1), D[u + 1])
    BY <1>1, <2>4
  <2> QED BY <1>1, <2>2, <2>3, <2>4, <2>5
<1> QED BY <1>1, <1>2, <1>3, <1>4

LEMMA UndoRemembers ==
  ASSUME TreeInv, Remembered, Undo
  PROVE  Remembered'
<1> SUFFICES ASSUME ~edgeMoves', ~recreated' PROVE Remembered'
  BY DEF Remembered
<1>1. ~edgeMoves /\ ~recreated /\ views' = views /\ undoStack # <<>> /\ undoStack' = Front(undoStack)
  BY DEF Undo
<1>2. PICK rank : Orderly(rank)
  BY DEF TreeInv
<1>3. undoStack \in Seq(CommandRecords) /\ redoStack \in Seq(CommandRecords)
  BY <1>2 DEF Orderly, Ready
<1>4. PICK D : Past(D, undoStack, redoStack, views) /\ Agree(doc, D[Len(undoStack)])
  BY <1>1 DEF Remembered
<1> DEFINE u == Len(undoStack)
           c == Last(undoStack)
           r == UndoOp(doc, c)
           a == D[u - 1]
           b == D[u]
<1>5. /\ u \in Nat /\ Sealed(b) /\ Sealed(a) /\ Linked(a, c, b) /\ Len(Front(undoStack)) = u - 1
  BY <1>1, <1>3, <1>4, PastHere
<1>6. Runs(c, rank, doc.fresh) /\ Ran(c, doc.fresh) /\ Sound(doc)
  BY <1>1, <1>2, ReadyFront DEF Orderly
<1>7. Agree(doc, b)
  BY <1>4
<1>8. Back(r, c, a)
  <2> HIDE DEF a, b, c
  <2> QED BY <1>5, <1>6, <1>7, UndoGoesBack
<1> HIDE DEF r
<1>9. r.ok /\ r.cmd = c /\ Agree(r.doc, a)
  BY <1>8 DEF Back
<1>10. doc' = r.doc /\ redoStack' = Append(redoStack, c) /\ net' = net - 1
  BY <1>9 DEF Undo, r
<1>11. Past(D, undoStack', redoStack', views')
  <2>1. Past(D, Front(undoStack), Append(redoStack, Last(undoStack)), views)
    BY <1>1, <1>3, <1>4, PastMoves
  <2> QED BY <1>1, <1>10, <2>1
<1>12. Len(undoStack') = u - 1
  BY <1>1, <1>5
<1>13. Agree(doc', D[Len(undoStack')])
  BY <1>9, <1>10, <1>12
<1>14. net' = Len(undoStack')
  BY <1>1, <1>10, <1>12 DEF Remembered
<1>15. \E V : views' \in Seq(V)
  BY <1>1 DEF Remembered
<1> QED BY <1>11, <1>13, <1>14, <1>15 DEF Remembered

LEMMA RedoRemembers ==
  ASSUME TreeInv, Remembered, Redo
  PROVE  Remembered'
<1> SUFFICES ASSUME ~edgeMoves', ~recreated' PROVE Remembered'
  BY DEF Remembered
<1>1. /\ ~edgeMoves /\ ~recreated /\ views' = views /\ redoStack # <<>> /\ redoStack' = Front(redoStack)
      /\ Last(redoStack).op \notin Makers
  BY DEF Redo, Makers
<1>2. PICK rank : Orderly(rank)
  BY DEF TreeInv
<1>3. undoStack \in Seq(CommandRecords) /\ redoStack \in Seq(CommandRecords)
  BY <1>2 DEF Orderly, Ready
<1>4. PICK D : Past(D, undoStack, redoStack, views) /\ Agree(doc, D[Len(undoStack)])
  BY <1>1 DEF Remembered
<1> DEFINE u == Len(undoStack)
           c == Last(redoStack)
           r == Do(doc, c)
           a == D[u]
           b == D[u + 1]
<1>5. /\ u \in Nat /\ Sealed(b) /\ Sealed(a) /\ Linked(a, c, b) /\ Len(Append(undoStack, c)) = u + 1
  BY <1>1, <1>3, <1>4, PastHere
<1>6. c \in CommandRecords /\ Sound(doc) /\ c.op \notin Makers
  BY <1>1, <1>2, ReadyFront DEF Orderly, Runs
<1>7. Agree(doc, a)
  BY <1>4
<1>8. Forth(r, c, b)
  <2> HIDE DEF a, b, c
  <2> QED BY <1>5, <1>6, <1>7, RedoGoesForth
<1> HIDE DEF r
<1>9. r.ok /\ r.cmd = c /\ Agree(r.doc, b)
  BY <1>8 DEF Forth
<1>10. doc' = r.doc /\ undoStack' = Append(undoStack, c) /\ net' = net + 1
  BY <1>9 DEF Redo, r
<1>11. Past(D, undoStack', redoStack', views')
  <2>1. Past(D, Append(undoStack, Last(redoStack)), Front(redoStack), views)
    BY <1>1, <1>3, <1>4, PastMoves
  <2> QED BY <1>1, <1>10, <2>1
<1>12. Len(undoStack') = u + 1
  BY <1>5, <1>10
<1>13. Agree(doc', D[Len(undoStack')])
  BY <1>9, <1>10, <1>12
<1>14. net' = Len(undoStack')
  BY <1>1, <1>10, <1>12 DEF Remembered
<1>15. \E V : views' \in Seq(V)
  BY <1>1 DEF Remembered
<1> QED BY <1>11, <1>13, <1>14, <1>15 DEF Remembered

\* With i commands done the document looks as it did when they were first done: an undo
\* leads back and a redo forth, whatever was made and detached in between.
THEOREM HistoryIsKept == Spec => []HistoryIsFaithful
<1>1. Remembered /\ TreeInv /\ [Next]_vars => Remembered'
  <2> SUFFICES ASSUME Remembered, TreeInv, [Next]_vars PROVE Remembered'
    OBVIOUS
  <2>1. CASE \E c \in Asked : Apply(c)
    BY <2>1, ApplyRemembers
  <2>2. CASE Undo
    BY <2>2, UndoRemembers
  <2>3. CASE Redo
    BY <2>3, RedoRemembers
  <2>4. CASE UNCHANGED vars
    BY <2>4 DEF vars, Remembered
  <2> QED BY <2>1, <2>2, <2>3, <2>4 DEF Next
<1>2. TreeInv /\ Remembered => HistoryIsFaithful
  <2> SUFFICES ASSUME TreeInv, Remembered, ~edgeMoves, ~recreated
               PROVE  View(doc) = views[Len(undoStack) + 1] /\ net = Len(undoStack)
    BY DEF HistoryIsFaithful
  <2>1. PICK rank : Orderly(rank)
    BY DEF TreeInv
  <2>2. PICK D : Past(D, undoStack, redoStack, views) /\ Agree(doc, D[Len(undoStack)])
    BY DEF Remembered
  <2>3. undoStack \in Seq(CommandRecords) /\ redoStack \in Seq(CommandRecords)
    BY <2>1 DEF Orderly, Ready
  <2> DEFINE u == Len(undoStack)
  <2>4. u \in Nat /\ Len(redoStack) \in Nat /\ Sealed(D[u])
    BY <2>2, <2>3, PastHere
  <2>5. View(doc) = View(D[u])
    BY <2>2, <2>4, AgreeLooks
  <2>6. u \in 0..u + Len(redoStack)
    BY <2>4
  <2>7. views[u + 1] = View(D[u])
    BY <2>2, <2>6 DEF Past
  <2> QED BY <2>5, <2>7 DEF Remembered
<1> QED BY <1>1, <1>2, InitRemembered, TreeInvHolds, PTL DEF Spec
=============================================================================
