--------------------------- MODULE TopologyProofs ---------------------------
(***************************************************************************)
(* What the resolution of the topology guarantees for every number of      *)
(* hosts and clients, whatever the forwarding databases hold.              *)
(***************************************************************************)
EXTENDS Topology, WellFoundedInduction, FiniteSetTheorems, SequenceTheorems, TLAPS

-----------------------------------------------------------------------------
(* Induction.  That the finite subsets of a set are well-founded is the      *)
(* library's; what follows from it here needs no operator as a parameter.    *)

\* A family of finite sets has a minimal member.
LEMMA MinimalSet ==
    ASSUME NEW F, F # {}, \A S \in F : IsFiniteSet(S)
    PROVE  \E S \in F : \A T \in F : ~(T \subseteq S /\ T # S)
  <1> DEFINE U == UNION F
  <1>1. F \subseteq FiniteSubsetsOf(U)
    BY DEF FiniteSubsetsOf
  <1>2. \E S \in F : \A T \in F : <<T, S>> \notin StrictSubsetOrdering(U)
    BY <1>1, FS_StrictSubsetOrderingWellFounded, WFMin
  <1>3. QED BY <1>2 DEF StrictSubsetOrdering

LEMMA LeastNat ==
    ASSUME NEW T \in SUBSET Nat, T # {}
    PROVE  \E i \in T : \A j \in T : i <= j
  <1> DEFINE F == {0 .. i : i \in T}
  <1>1. F # {}
    OBVIOUS
  <1>2. \A S \in F : IsFiniteSet(S)
    BY FS_Interval
  <1> HIDE DEF F
  <1>3. PICK S \in F : \A R \in F : ~(R \subseteq S /\ R # S)
    BY <1>1, <1>2, MinimalSet
  <1> USE DEF F
  <1>4. PICK i \in T : S = 0 .. i
    BY <1>3
  <1>5. ASSUME NEW j \in T PROVE i <= j
    <2>1. ~((0 .. j) \subseteq (0 .. i) /\ (0 .. j) # (0 .. i))
      BY <1>3, <1>4
    <2>2. j < i => i \in 0 .. i /\ i \notin 0 .. j /\ (0 .. j) \subseteq (0 .. i)
      OBVIOUS
    <2>3. QED BY <2>1, <2>2
  <1>6. QED BY <1>5

\* A set that holds 0 and with each number the next holds them all.
LEMMA SetInduction ==
    ASSUME NEW T, 0 \in T, \A n \in Nat : n \in T => n + 1 \in T
    PROVE  Nat \subseteq T
  <1>1. SUFFICES ASSUME Nat \ T # {} PROVE FALSE
    OBVIOUS
  <1>2. PICK x \in Nat \ T : \A y \in Nat \ T : x <= y
    BY <1>1, LeastNat
  <1>3. x - 1 \in Nat /\ x - 1 < x /\ (x - 1) + 1 = x
    BY <1>2
  <1>4. QED BY <1>2, <1>3

\* A function on numbers may be defined by its first value and a step.
Iterates(D, x, G, N) == {f \in [0 .. N -> D] : f[0] = x /\ \A i \in 1 .. N : f[i] = G[f[i - 1]]}

LEMMA Iteration ==
    ASSUME NEW D, NEW x \in D, NEW G \in [D -> D], NEW N \in Nat
    PROVE  Iterates(D, x, G, N) # {}
  <1> DEFINE Is(f, k) == f \in [0 .. k -> D] /\ f[0] = x /\ \A i \in 1 .. k : f[i] = G[f[i - 1]]
             T == {k \in Nat : \E f : Is(f, k)}
  <1>1. 0 \in T
    <2> DEFINE f == [i \in 0 .. 0 |-> x]
    <2>1. Is(f, 0)
      OBVIOUS
    <2> HIDE DEF Is, f
    <2>2. QED BY <2>1
  <1>2. ASSUME NEW k \in Nat, k \in T PROVE k + 1 \in T
    <2>1. PICK f : Is(f, k)
      BY <1>2
    <2> DEFINE g == [i \in 0 .. k + 1 |-> IF i <= k THEN f[i] ELSE G[f[k]]]
    <2>2. f[k] \in D /\ G[f[k]] \in D
      BY <2>1
    <2>3. (\A i \in 0 .. k : g[i] = f[i]) /\ g[k + 1] = G[f[k]]
      OBVIOUS
    <2>4. g \in [0 .. k + 1 -> D]
      BY <2>1, <2>2
    <2> HIDE DEF g
    <2>5. ASSUME NEW i \in 1 .. k + 1 PROVE g[i] = G[g[i - 1]]
      <3>1. CASE i \in 1 .. k
        <4>1. i \in 0 .. k /\ i - 1 \in 0 .. k
          BY <3>1
        <4>2. f[i] = G[f[i - 1]]
          BY <2>1, <3>1
        <4>3. QED BY <2>3, <4>1, <4>2
      <3>2. CASE i = k + 1
        <4>1. i - 1 = k /\ k \in 0 .. k
          BY <3>2
        <4>2. QED BY <2>3, <3>2, <4>1
      <3>3. QED BY <3>1, <3>2
    <2>6. g[0] = x
      BY <2>1, <2>3
    <2>7. Is(g, k + 1)
      BY <2>4, <2>5, <2>6
    <2> HIDE DEF Is
    <2>8. QED BY <2>7
  <1>3. N \in T
    <2> HIDE DEF T
    <2>1. QED BY <1>1, <1>2, SetInduction
  <1>4. QED BY <1>3 DEF Iterates

-----------------------------------------------------------------------------
(* Following edges *)

Graph == SUBSET (Mac \X Mac)

LEMMA ParentsOf ==
    ASSUME NEW p \in Graph, NEW S
    PROVE  /\ Parents(p, S) \subseteq Mac
           /\ \A m : m \in Parents(p, S) <=> \E n \in S : <<n, m>> \in p
           /\ \A n, m : m \in Parents(p, {n}) <=> <<n, m>> \in p
  <1>1. \A e \in p : e = <<e[1], e[2]>> /\ e[2] \in Mac
    BY DEF Graph
  <1>2. QED BY <1>1 DEF Parents

\* The sets that Above goes through.
LEMMA UpSteps ==
    ASSUME NEW p \in Graph, NEW n
    PROVE  \E up \in [0 .. Cardinality(Mac) -> SUBSET Mac] :
              /\ up[0] = Parents(p, {n})
              /\ \A i \in 1 .. Cardinality(Mac) : up[i] = up[i - 1] \cup Parents(p, up[i - 1])
              /\ Above(p, n) = up[Cardinality(Mac)]
  <1> DEFINE N == Cardinality(Mac)
             G == [S \in SUBSET Mac |-> S \cup Parents(p, S)]
             IsUp(f) == f = [i \in 0 .. N |-> IF i = 0 THEN Parents(p, {n})
                                              ELSE LET S == f[i - 1] IN S \cup Parents(p, S)]
             up == CHOOSE f : IsUp(f)
  <1>1. N \in Nat
    BY TopologyAssumption, FS_CardinalityType
  <1>2. Parents(p, {n}) \in SUBSET Mac /\ G \in [SUBSET Mac -> SUBSET Mac]
    BY ParentsOf
  <1>3. PICK f \in [0 .. N -> SUBSET Mac] : f[0] = Parents(p, {n}) /\ \A i \in 1 .. N : f[i] = G[f[i - 1]]
    <2> DEFINE D == SUBSET Mac
               x == Parents(p, {n})
    <2>1. x \in D /\ G \in [D -> D]
      BY <1>2
    <2> HIDE DEF N, G, D, x
    <2>2. Iterates(D, x, G, N) # {}
      BY <1>1, <2>1, Iteration
    <2>3. QED BY <2>2 DEF D, x, Iterates
  <1>4. ASSUME NEW i \in 1 .. N PROVE f[i] = f[i - 1] \cup Parents(p, f[i - 1])
    <2>1. i - 1 \in 0 .. N
      BY <1>1
    <2>2. f[i - 1] \in SUBSET Mac
      BY <2>1
    <2>3. QED BY <1>3, <2>2
  <1> HIDE DEF N, G
  <1>5. f = [i \in 0 .. N |-> f[i]]
    BY <1>3
  <1>6. \A i \in 0 .. N : f[i] = IF i = 0 THEN Parents(p, {n}) ELSE f[i - 1] \cup Parents(p, f[i - 1])
    <2> TAKE i \in 0 .. N
    <2>1. CASE i = 0
      BY <1>3, <2>1
    <2>2. CASE i # 0
      <3>1. i \in 1 .. N
        BY <1>1, <2>2
      <3>2. QED BY <1>4, <2>2, <3>1
    <2>3. QED BY <2>1, <2>2
  <1>7. IsUp(f)
    BY <1>5, <1>6
  <1>8. IsUp(up)
    BY <1>7
  <1>9. Above(p, n) = up[N]
    BY DEF Above, N
  <1>10. \A i \in 0 .. N : up[i] = IF i = 0 THEN Parents(p, {n}) ELSE up[i - 1] \cup Parents(p, up[i - 1])
    <2> HIDE DEF up
    <2>1. QED BY <1>8
  <1> HIDE DEF up
  <1>11. up[0] = Parents(p, {n})
    <2>1. 0 \in 0 .. N
      BY <1>1
    <2>2. QED BY <1>10, <2>1, Zenon
  <1>12. ASSUME NEW i \in 1 .. N PROVE up[i] = up[i - 1] \cup Parents(p, up[i - 1])
    <2>1. i \in 0 .. N /\ i # 0
      BY <1>1
    <2>2. QED BY <1>10, <2>1
  <1> DEFINE T == {i \in Nat : i <= N => up[i] \subseteq Mac}
  <1>13. Nat \subseteq T
    <2>1. 0 \in T
      BY <1>11, ParentsOf
    <2>2. ASSUME NEW k \in Nat, k \in T PROVE k + 1 \in T
      <3>1. k + 1 <= N => up[k + 1] = up[k] \cup Parents(p, up[k]) /\ up[k] \subseteq Mac
        <4>1. k + 1 <= N => k + 1 \in 1 .. N /\ (k + 1) - 1 = k /\ k <= N
          BY <1>1
        <4>2. QED BY <1>12, <2>2, <4>1
      <3>2. QED BY <3>1, ParentsOf
    <2> HIDE DEF T
    <2>3. QED BY <2>1, <2>2, SetInduction
  <1>14. \A i \in 0 .. N : up[i] \in SUBSET Mac
    BY <1>1, <1>13
  <1>15. up = [i \in 0 .. N |-> up[i]]
    BY <1>8, Zenon
  <1>16. up \in [0 .. N -> SUBSET Mac]
    BY <1>14, <1>15
  <1>17. QED BY <1>9, <1>11, <1>12, <1>16 DEF N

LEMMA StrictSubsetIsSmaller ==
    ASSUME NEW R, IsFiniteSet(R), NEW S \in SUBSET R, S # R
    PROVE  /\ Cardinality(S) \in Nat /\ Cardinality(R) \in Nat
           /\ Cardinality(S) + 1 <= Cardinality(R)
  <1>1. IsFiniteSet(S) /\ Cardinality(S) <= Cardinality(R) /\ Cardinality(S) # Cardinality(R)
    BY FS_Subset
  <1>2. QED BY <1>1, FS_CardinalityType

\* Above(p, n) is the least set that holds the parents of n and those of its members.
LEMMA AboveIsClosed ==
    ASSUME NEW p \in Graph, NEW n
    PROVE  /\ Above(p, n) \subseteq Mac
           /\ Parents(p, {n}) \subseteq Above(p, n)
           /\ Parents(p, Above(p, n)) \subseteq Above(p, n)
  <1> DEFINE N == Cardinality(Mac)
             Closed(S) == Parents(p, S) \subseteq S
  <1>1. N \in Nat /\ IsFiniteSet(Mac)
    BY TopologyAssumption, FS_CardinalityType
  <1> HIDE DEF N
  <1>2. PICK up \in [0 .. N -> SUBSET Mac] :
            /\ up[0] = Parents(p, {n})
            /\ \A i \in 1 .. N : up[i] = up[i - 1] \cup Parents(p, up[i - 1])
            /\ Above(p, n) = up[N]
    BY UpSteps DEF N
  <1>3. \A i \in 0 .. N : up[i] \subseteq Mac /\ IsFiniteSet(up[i]) /\ Cardinality(up[i]) \in Nat
    BY <1>1, <1>2, FS_Subset, FS_CardinalityType
  <1>4. ASSUME NEW k \in Nat, k + 1 <= N
        PROVE  k \in 0 .. N /\ k + 1 \in 0 .. N /\ up[k + 1] = up[k] \cup Parents(p, up[k])
    <2>1. k \in 0 .. N /\ k + 1 \in 0 .. N /\ k + 1 \in 1 .. N /\ (k + 1) - 1 = k
      BY <1>1, <1>4
    <2>2. QED BY <1>2, <2>1
  <1> DEFINE Done(i) == /\ Parents(p, {n}) \subseteq up[i]
                        /\ Closed(up[i]) \/ Cardinality(up[i]) >= i + 1
             T == {i \in Nat : i <= N => Done(i)}
  <1>5. Done(0)
    <2>1. 0 \in 0 .. N
      BY <1>1
    <2>2. up[0] = {} => Closed(up[0])
      BY ParentsOf
    <2>3. up[0] # {} => Cardinality(up[0]) # 0
      BY <1>3, <2>1, FS_EmptySet
    <2>4. Cardinality(up[0]) \in Nat
      BY <1>3, <2>1
    <2> DEFINE c == Cardinality(up[0])
    <2> HIDE DEF Closed, c
    <2>5. up[0] # {} => c >= 0 + 1
      BY <2>3, <2>4 DEF c
    <2>6. QED BY <1>2, <2>2, <2>5 DEF c
  <1>6. ASSUME NEW k \in Nat, k + 1 <= N, Done(k) PROVE Done(k + 1)
    <2>1. up[k + 1] = up[k] \cup Parents(p, up[k]) /\ k \in 0 .. N /\ k + 1 \in 0 .. N
      BY <1>4, <1>6
    <2>2. Closed(up[k]) => up[k + 1] = up[k]
      BY <2>1
    <2>3. ~Closed(up[k]) => up[k] \subseteq up[k + 1] /\ up[k] # up[k + 1]
      BY <2>1
    <2> HIDE DEF Closed
    <2>4. up[k] \subseteq up[k + 1] /\ up[k] # up[k + 1] => Cardinality(up[k]) + 1 <= Cardinality(up[k + 1])
      BY <1>3, <2>1, StrictSubsetIsSmaller
    <2>5. Cardinality(up[k]) \in Nat /\ Cardinality(up[k + 1]) \in Nat
      BY <1>3, <2>1
    <2> DEFINE c == Cardinality(up[k])
               d == Cardinality(up[k + 1])
    <2> HIDE DEF c, d
    <2>6. c + 1 <= d /\ c >= k + 1 => d >= (k + 1) + 1
      BY <2>5 DEF c, d
    <2>7. QED BY <1>6, <2>1, <2>2, <2>3, <2>4, <2>6 DEF c, d
  <1>7. Done(N)
    <2> HIDE DEF Done
    <2>1. 0 \in T /\ \A k \in Nat : k \in T => k + 1 \in T
      BY <1>1, <1>5, <1>6
    <2> HIDE DEF T
    <2>2. N \in T
      BY <1>1, <2>1, SetInduction
    <2>3. QED BY <1>1, <2>2 DEF T
  <1>8. N \in 0 .. N /\ Cardinality(up[N]) \in Nat /\ Cardinality(up[N]) <= N
    BY <1>1, <1>2, <1>3, FS_Subset DEF N
  <1>9. Parents(p, {n}) \subseteq up[N] /\ Closed(up[N])
    <2> HIDE DEF Closed
    <2>1. ~(Cardinality(up[N]) >= N + 1)
      BY <1>1, <1>8
    <2>2. QED BY <1>7, <2>1
  <1>10. QED BY <1>2, <1>3, <1>8, <1>9

LEMMA AboveIsLeast ==
    ASSUME NEW p \in Graph, NEW n, NEW S, Parents(p, {n}) \subseteq S, Parents(p, S) \subseteq S
    PROVE  Above(p, n) \subseteq S
  <1> DEFINE N == Cardinality(Mac)
  <1>1. N \in Nat
    BY TopologyAssumption, FS_CardinalityType
  <1> HIDE DEF N
  <1>2. PICK up \in [0 .. N -> SUBSET Mac] :
            /\ up[0] = Parents(p, {n})
            /\ \A i \in 1 .. N : up[i] = up[i - 1] \cup Parents(p, up[i - 1])
            /\ Above(p, n) = up[N]
    BY UpSteps DEF N
  <1> DEFINE T == {i \in Nat : i <= N => up[i] \subseteq S}
  <1>3. 0 \in T
    BY <1>2
  <1>4. ASSUME NEW k \in Nat, k \in T PROVE k + 1 \in T
    <2>1. SUFFICES ASSUME k + 1 <= N PROVE up[k + 1] \subseteq S
      OBVIOUS
    <2>2. k <= N /\ k + 1 \in 1 .. N /\ (k + 1) - 1 = k
      BY <1>1, <2>1
    <2>3. up[k + 1] = up[k] \cup Parents(p, up[k]) /\ up[k] \subseteq S
      BY <1>2, <1>4, <2>2
    <2>4. Parents(p, up[k]) \subseteq Parents(p, S)
      BY <2>3, ParentsOf
    <2>5. QED BY <2>3, <2>4
  <1>5. N \in T
    <2> HIDE DEF T
    <2>1. QED BY <1>1, <1>3, <1>4, SetInduction
  <1>6. QED BY <1>1, <1>2, <1>5

\* Above is transitive, grows with the edges, and leads over the parents.
LEMMA AboveTransitive ==
    ASSUME NEW p \in Graph, NEW n, NEW m \in Above(p, n)
    PROVE  Above(p, m) \subseteq Above(p, n)
  <1>1. Parents(p, Above(p, n)) \subseteq Above(p, n)
    BY AboveIsClosed
  <1>2. Parents(p, {m}) \subseteq Parents(p, Above(p, n))
    BY ParentsOf
  <1>3. QED BY <1>1, <1>2, AboveIsLeast

LEMMA AboveGrows ==
    ASSUME NEW p \in Graph, NEW q \in SUBSET p, NEW n
    PROVE  Above(q, n) \subseteq Above(p, n)
  <1>1. q \in Graph
    BY DEF Graph
  <1>2. Parents(p, {n}) \subseteq Above(p, n) /\ Parents(p, Above(p, n)) \subseteq Above(p, n)
    BY AboveIsClosed
  <1>3. \A S : Parents(q, S) \subseteq Parents(p, S)
    BY DEF Parents
  <1>4. QED BY <1>1, <1>2, <1>3, AboveIsLeast

LEMMA ParentsAreAbove ==
    ASSUME NEW p \in Graph, NEW n, NEW m, <<n, m>> \in p
    PROVE  m \in Above(p, n) /\ Above(p, m) \subseteq Above(p, n)
  <1>1. m \in Parents(p, {n})
    BY ParentsOf
  <1>2. m \in Above(p, n)
    BY <1>1, AboveIsClosed
  <1>3. QED BY <1>2, AboveTransitive

LEMMA AboveOfParents ==
    ASSUME NEW p \in Graph, NEW n, NEW m \in Above(p, n)
    PROVE  \E k : <<n, k>> \in p /\ (m = k \/ m \in Above(p, k))
  <1> DEFINE S == {x \in Mac : \E k : <<n, k>> \in p /\ (x = k \/ x \in Above(p, k))}
  <1>1. Parents(p, {n}) \subseteq S
    BY ParentsOf
  <1> HIDE DEF S
  <1>2. ASSUME NEW y \in Parents(p, S) PROVE y \in S
    <2>0. y \in Mac
      BY <1>2, ParentsOf
    <2>1. PICK x \in S : <<x, y>> \in p
      BY <1>2, ParentsOf
    <2>2. PICK k : <<n, k>> \in p /\ (x = k \/ x \in Above(p, k))
      BY DEF S
    <2>3. y \in Above(p, x)
      BY <2>1, ParentsAreAbove
    <2>4. y \in Above(p, k)
      BY <2>2, <2>3, AboveTransitive
    <2>5. QED BY <2>0, <2>2, <2>4 DEF S
  <1>3. Above(p, n) \subseteq S
    BY <1>1, <1>2, AboveIsLeast
  <1>4. QED BY <1>3 DEF S

-----------------------------------------------------------------------------
(* _break_parent_cycles: the walk from start clears what start leads to of     *)
(* cycles, and taking away edges brings none back.                             *)

Clear(p, start) == \A n \in {start} \cup Above(p, start) : n \notin Above(p, n)

LEMMA ClearStays ==
    ASSUME NEW p \in Graph, NEW q \in SUBSET p, NEW start, Clear(p, start)
    PROVE  Clear(q, start)
  <1>1. \A n : Above(q, n) \subseteq Above(p, n)
    BY AboveGrows
  <1>2. QED BY <1>1 DEF Clear

LEMMA BreakFromClears ==
    ASSUME NEW p \in Graph, NEW start
    PROVE  BreakFrom(p, start) \subseteq p /\ Clear(BreakFrom(p, start), start)
  <1> DEFINE q     == BreakFrom(p, start)
             Trail == {start} \cup Above(p, start)
             Loop  == {n \in Trail : n \in Above(p, n)}
             Entry == {n \in Loop : n = start \/ \E m \in Trail \ Loop : <<m, n>> \in p}
  <1>1. q = {e \in p : e[1] \notin Entry}
    BY DEF BreakFrom
  <1>2. q \subseteq p /\ q \in Graph
    BY <1>1 DEF Graph
  <1>3. \A x, y : <<x, y>> \in q => <<x, y>> \in p /\ x \notin Entry
    BY <1>1
  <1> HIDE DEF q
  <1>4. \A n : Above(q, n) \subseteq Above(p, n)
    BY <1>2, AboveGrows
  <1>5. \A n, m : m \in Above(q, n) => n \notin Entry
    BY <1>2, <1>3, AboveOfParents
  <1>6. ASSUME NEW n \in {start} \cup Above(q, start), n \in Above(q, n) PROVE FALSE
    <2>1. n \in Loop /\ n \notin Entry
      BY <1>4, <1>5, <1>6
    <2>2. n \in Above(q, start) /\ start \notin Loop
      BY <1>5, <1>6, <2>1
    <2> DEFINE S == {x \in Above(q, start) : x \in Loop => x \in Entry}
    <2>3. \A x, y : x \in Trail \ Loop /\ <<x, y>> \in p /\ y \in Loop => y \in Entry
      OBVIOUS
    <2>4. \A x : x \in Above(q, start) => x \in Trail
      BY <1>4
    <2> HIDE DEF Entry, Loop, Trail
    <2>5. Parents(q, {start}) \subseteq S
      <3>1. ASSUME NEW y \in Parents(q, {start}) PROVE <<start, y>> \in q /\ y \in Above(q, start)
        <4>1. <<start, y>> \in q
          BY <1>2, <3>1, ParentsOf
        <4>2. QED BY <1>2, <4>1, ParentsAreAbove
      <3>2. start \in Trail
        BY DEF Trail
      <3>3. QED BY <1>3, <2>2, <2>3, <3>1, <3>2
    <2>6. Parents(q, S) \subseteq S
      <3>1. ASSUME NEW y \in Parents(q, S) PROVE y \in S
        <4>1. PICK x \in S : <<x, y>> \in q
          BY <1>2, <3>1, ParentsOf
        <4>2. x \in Above(q, start) /\ x \notin Entry /\ x \notin Loop
          BY <1>3, <4>1
        <4>3. y \in Above(q, start)
          BY <1>2, <4>1, <4>2, ParentsAreAbove, AboveTransitive
        <4>4. QED BY <1>3, <2>3, <2>4, <4>1, <4>2, <4>3
      <3>2. QED BY <3>1
    <2>7. Above(q, start) \subseteq S
      <3> HIDE DEF S
      <3>1. QED BY <1>2, <2>5, <2>6, AboveIsLeast
    <2>8. QED BY <2>1, <2>2, <2>7
  <1>7. Clear(q, start)
    BY <1>6 DEF Clear
  <1>8. QED BY <1>2, <1>7 DEF q

\* A function on the subsets of a finite set may be defined by its value for the empty
\* set and a step that takes out one element, chosen by c.
Recursions(I, D, x, c, G) ==
    {f \in [SUBSET I -> D] :
        \A s \in SUBSET I : f[s] = IF s = {} THEN x ELSE G[<<f[s \ {c[s]}], c[s]>>]}

LEMMA SetRecursion ==
    ASSUME NEW I, IsFiniteSet(I), NEW D, NEW x \in D, NEW c, NEW G \in [D \X I -> D],
           \A s \in SUBSET I : s # {} => c[s] \in s
    PROVE  Recursions(I, D, x, c, G) # {}
  <1> DEFINE E    == [SUBSET I -> D]
             N    == Cardinality(I)
             Step == [f \in E |-> [s \in SUBSET I |-> IF s = {} THEN x ELSE G[<<f[s \ {c[s]}], c[s]>>]]]
             zero == [s \in SUBSET I |-> x]
  <1>1. N \in Nat /\ \A s \in SUBSET I : IsFiniteSet(s) /\ Cardinality(s) \in Nat /\ Cardinality(s) <= N
    BY FS_CardinalityType, FS_Subset
  <1>2. \A f \in E : \A s \in SUBSET I : s # {} => G[<<f[s \ {c[s]}], c[s]>>] \in D
    OBVIOUS
  <1>3. zero \in E /\ Step \in [E -> E]
    BY <1>2
  <1>4. \A f \in E, s \in SUBSET I : Step[f][s] = IF s = {} THEN x ELSE G[<<f[s \ {c[s]}], c[s]>>]
    OBVIOUS
  <1>4a. \A f \in E, s \in SUBSET I : s # {} => Step[f][s] = G[<<f[s \ {c[s]}], c[s]>>]
    BY <1>4
  <1>5. \A s \in SUBSET I : zero[s] = x
    OBVIOUS
  <1> HIDE DEF Step, zero, N
  <1>6. PICK F \in [0 .. N + 1 -> E] : F[0] = zero /\ \A i \in 1 .. N + 1 : F[i] = Step[F[i - 1]]
    <2> HIDE DEF E
    <2> DEFINE M == N + 1
    <2>1. M \in Nat
      BY <1>1
    <2> HIDE DEF M
    <2>2. Iterates(E, zero, Step, M) # {}
      BY <1>3, <2>1, Iteration
    <2>3. QED BY <2>2 DEF M, Iterates
  <1> DEFINE Stable(k) == \A s \in SUBSET I : Cardinality(s) <= k => F[k + 1][s] = F[k][s]
             T == {k \in Nat : k <= N => Stable(k)}
  <1>7. \A k \in Nat : k <= N => F[k] \in E /\ F[k + 1] \in E /\ F[k + 1] = Step[F[k]]
    <2> TAKE k \in Nat
    <2> HAVE k <= N
    <2> HIDE DEF E
    <2>1. k \in 0 .. N + 1 /\ k + 1 \in 0 .. N + 1 /\ k + 1 \in 1 .. N + 1 /\ (k + 1) - 1 = k
      BY <1>1
    <2>2. QED BY <1>6, <2>1
  <1>8. Stable(0)
    <2>1. ASSUME NEW s \in SUBSET I, Cardinality(s) <= 0 PROVE F[0 + 1][s] = F[0][s]
      <3>1. s = {}
        BY <1>1, <2>1, FS_EmptySet
      <3> HIDE DEF E
      <3>2. F[0 + 1] = Step[F[0]] /\ F[0] \in E
        <4>1. 0 \in Nat /\ 0 <= N
          BY <1>1
        <4>2. QED BY <1>7, <4>1, Zenon
      <3>3. F[0 + 1][s] = x
        BY <1>4, <3>1, <3>2
      <3>4. QED BY <1>5, <1>6, <3>3
    <2>2. QED BY <2>1
  <1>9. ASSUME NEW k \in Nat, k + 1 <= N, Stable(k) PROVE Stable(k + 1)
    <2>1. ASSUME NEW s \in SUBSET I, Cardinality(s) <= k + 1 PROVE F[(k + 1) + 1][s] = F[k + 1][s]
      <3>1. /\ F[k] \in E /\ F[k + 1] \in E
            /\ F[k + 1] = Step[F[k]] /\ F[(k + 1) + 1] = Step[F[k + 1]]
        <4> HIDE DEF E
        <4>1. k + 1 \in Nat /\ k <= N
          BY <1>1, <1>9
        <4>2. QED BY <1>7, <1>9, <4>1
      <3>2. CASE s = {}
        BY <1>4, <3>1, <3>2
      <3>3. CASE s # {}
        <4> DEFINE r == s \ {c[s]}
        <4>1. r \in SUBSET I /\ Cardinality(r) <= k
          <5>1. r \in SUBSET s /\ r # s
            BY <3>3
          <5>2. Cardinality(r) + 1 <= Cardinality(s) /\ Cardinality(r) \in Nat /\ Cardinality(s) \in Nat
            <6> HIDE DEF r
            <6>1. QED BY <1>1, <5>1, StrictSubsetIsSmaller
          <5>3. QED BY <2>1, <5>1, <5>2
        <4>2. F[k + 1][r] = F[k][r]
          <5> HIDE DEF r
          <5>1. QED BY <1>9, <4>1
        <4>3. F[(k + 1) + 1][s] = G[<<F[k + 1][r], c[s]>>]
          <5>1. Step[F[k + 1]][s] = G[<<F[k + 1][r], c[s]>>]
            BY <1>4a, <3>1, <3>3, Zenon
          <5>2. QED BY <3>1, <5>1
        <4>4. F[k + 1][s] = G[<<F[k][r], c[s]>>]
          <5>1. Step[F[k]][s] = G[<<F[k][r], c[s]>>]
            BY <1>4a, <3>1, <3>3, Zenon
          <5>2. QED BY <3>1, <5>1
        <4>5. QED BY <4>2, <4>3, <4>4
      <3>4. QED BY <3>2, <3>3
    <2>2. QED BY <2>1
  <1>10. Stable(N)
    <2> HIDE DEF Stable
    <2>1. 0 \in T /\ \A k \in Nat : k \in T => k + 1 \in T
      BY <1>1, <1>8, <1>9
    <2> HIDE DEF T
    <2>2. N \in T
      BY <1>1, <2>1, SetInduction
    <2>3. QED BY <1>1, <2>2 DEF T
  <1>11. F[N] \in E /\ F[N + 1] = Step[F[N]]
    <2> HIDE DEF E
    <2>1. QED BY <1>1, <1>7
  <1>12. ASSUME NEW s \in SUBSET I
         PROVE  F[N][s] = IF s = {} THEN x ELSE G[<<F[N][s \ {c[s]}], c[s]>>]
    <2>1. F[N][s] = F[N + 1][s]
      BY <1>1, <1>10
    <2>2. CASE s = {}
      BY <1>4, <1>11, <2>1, <2>2
    <2>3. CASE s # {}
      <3>1. Step[F[N]][s] = G[<<F[N][s \ {c[s]}], c[s]>>]
        BY <1>4a, <1>11, <2>3, Zenon
      <3>2. QED BY <1>11, <2>1, <2>3, <3>1, Zenon
    <2>4. QED BY <2>2, <2>3
  <1>13. QED BY <1>11, <1>12 DEF Recursions

LEMMA MaxOfSet ==
    ASSUME NEW N \in Nat, NEW s \in SUBSET (1 .. N), s # {}
    PROVE  Max(s) \in s /\ \A y \in s : Max(s) >= y
  <1> DEFINE T == {N - i : i \in s}
  <1>1. T \in SUBSET Nat
    OBVIOUS
  <1>0. T # {}
    OBVIOUS
  <1> HIDE DEF T
  <1>2. PICK t \in T : \A u \in T : t <= u
    BY <1>0, <1>1, LeastNat
  <1> USE DEF T
  <1>3. PICK x \in s : t = N - x
    BY <1>2
  <1>4. ASSUME NEW y \in s PROVE x >= y
    <2>1. N - x <= N - y
      BY <1>2, <1>3
    <2>2. QED BY <2>1
  <1>5. QED BY <1>4 DEF Max

LEMMA OrderIsSequence ==
    /\ Len(Order) \in Nat /\ DOMAIN Order = 1 .. Len(Order)
    /\ Order \in [1 .. Len(Order) -> Int]
    /\ Host = {Order[i] : i \in 1 .. Len(Order)}
  <1>1. <<Gateway>> \in Seq(Int) /\ ap_hosts \in Seq(Int) /\ switch_hosts \in Seq(Int)
    BY TopologyAssumption
  <1>2. Order \in Seq(Int)
    BY <1>1 DEF Order
  <1>3. QED BY <1>2 DEF Host, ToSet

\* What the loop over self_macs goes through.
LEMMA BreakSteps ==
    ASSUME NEW p \in Graph
    PROVE  \E r : /\ r[0] = p
                  /\ \A k \in 1 .. Len(Order) : r[k] = BreakFrom(r[k - 1], Order[k])
                  /\ BreakCycles(p) = r[Len(Order)]
  <1> DEFINE N == Len(Order)
             I == 1 .. N
             D == SUBSET p
             c == [s \in SUBSET I |-> Max(s)]
             G == [d \in D \X I |-> BreakFrom(d[1], Order[d[2]])]
             IsIter(f) == f = [s \in SUBSET I |->
                                 IF s = {} THEN p ELSE BreakFrom(f[s \ {Max(s)}], Order[Max(s)])]
             iter == CHOOSE f : IsIter(f)
             r    == [k \in 0 .. N |-> iter[1 .. k]]
  <1>1. N \in Nat /\ IsFiniteSet(I)
    BY OrderIsSequence, FS_Interval
  <1>2. ASSUME NEW s \in SUBSET I, s # {} PROVE Max(s) \in s /\ Max(s) \in I
    BY <1>1, <1>2, MaxOfSet
  <1>3. \A d \in D, i \in I : BreakFrom(d, Order[i]) \in D
    BY BreakFromClears DEF Graph
  <1>4. G \in [D \X I -> D] /\ p \in D /\ \A s \in SUBSET I : s # {} => c[s] \in s
    BY <1>2, <1>3
  <1>5. PICK f \in Recursions(I, D, p, c, G) : TRUE
    <2> HIDE DEF I, D, c, G
    <2>1. QED BY <1>1, <1>4, SetRecursion
  <1>6. f \in [SUBSET I -> D]
    BY <1>5 DEF Recursions
  <1>7. \A s \in SUBSET I : f[s] = IF s = {} THEN p ELSE G[<<f[s \ {c[s]}], c[s]>>]
    BY <1>5 DEF Recursions
  <1>8. ASSUME NEW s \in SUBSET I
        PROVE  f[s] = IF s = {} THEN p ELSE BreakFrom(f[s \ {Max(s)}], Order[Max(s)])
    <2>1. CASE s = {}
      BY <1>7, <2>1
    <2>2. CASE s # {}
      <3>1. f[s] = G[<<f[s \ {Max(s)}], Max(s)>>]
        BY <1>7, <2>2
      <3>2. f[s \ {Max(s)}] \in D /\ Max(s) \in I
        BY <1>2, <1>6, <2>2
      <3>3. QED BY <2>2, <3>1, <3>2
    <2>3. QED BY <2>1, <2>2
  <1> HIDE DEF I
  <1>9. IsIter(f)
    <2> HIDE DEF D
    <2>1. f = [s \in SUBSET I |-> f[s]]
      BY <1>6
    <2>2. QED BY <1>8, <2>1
  <1>10. IsIter(iter)
    BY <1>9
  <1>11. BreakCycles(p) = iter[I]
    BY OrderIsSequence DEF BreakCycles, FoldLeft, MapThenFoldSet, I
  <1> HIDE DEF iter, IsIter
  <1>12. \A s \in SUBSET I : iter[s] = IF s = {} THEN p ELSE BreakFrom(iter[s \ {Max(s)}], Order[Max(s)])
    BY <1>10 DEF IsIter
  <1> HIDE DEF IsIter, G, c, D
  <1>13. r[0] = p
    <2>1. 1 .. 0 = {} /\ {} \in SUBSET I
      OBVIOUS
    <2>2. iter[{}] = p
      BY <1>12, <2>1
    <2>3. QED BY <1>1, <2>1, <2>2
  <1>14. ASSUME NEW k \in 1 .. N PROVE r[k] = BreakFrom(r[k - 1], Order[k])
    <2> DEFINE s == 1 .. k
    <2>1. s \in SUBSET I /\ s # {} /\ k \in Nat /\ k \in s /\ s \ {k} = 1 .. k - 1
      BY <1>1 DEF I
    <2>2. Max(s) = k
      <3>1. \A i \in s : i <= k
        OBVIOUS
      <3>2. Max(s) \in s /\ Max(s) >= k
        <4> HIDE DEF s
        <4>1. s \in SUBSET (1 .. N)
          BY <2>1 DEF I
        <4>2. QED BY <1>1, <2>1, <4>1, MaxOfSet
      <3>3. QED BY <3>1, <3>2
    <2>3. r[k] = iter[s] /\ r[k - 1] = iter[1 .. k - 1]
      BY <1>1, <1>14
    <2> HIDE DEF s, r
    <2>4. iter[s] = BreakFrom(iter[s \ {Max(s)}], Order[Max(s)])
      BY <1>12, <2>1
    <2>5. QED BY <2>1, <2>2, <2>3, <2>4
  <1>15. r[N] = iter[I]
    BY <1>1 DEF I
  <1> HIDE DEF r
  <1>16. QED BY <1>11, <1>13, <1>14, <1>15 DEF N

\* "The result is guaranteed acyclic", and a set of the edges there were.
LEMMA BreakCyclesClears ==
    ASSUME NEW p \in Graph
    PROVE  BreakCycles(p) \subseteq p /\ \A h \in Host : Clear(BreakCycles(p), h)
  <1>1. PICK r : /\ r[0] = p
                 /\ \A k \in 1 .. Len(Order) : r[k] = BreakFrom(r[k - 1], Order[k])
                 /\ BreakCycles(p) = r[Len(Order)]
    BY BreakSteps
  <1> DEFINE N == Len(Order)
             Done(k) == r[k] \subseteq p /\ \A i \in 1 .. k : Clear(r[k], Order[i])
             T == {k \in Nat : k <= N => Done(k)}
  <1>2. N \in Nat
    BY OrderIsSequence
  <1>3. Done(0)
    BY <1>1
  <1>4. ASSUME NEW k \in Nat, k + 1 <= N, Done(k) PROVE Done(k + 1)
    <2>1. k + 1 \in 1 .. N /\ (k + 1) - 1 = k /\ \A i \in 1 .. k + 1 : i \in 1 .. k \/ i = k + 1
      BY <1>2, <1>4
    <2>2. r[k + 1] = BreakFrom(r[k], Order[k + 1]) /\ r[k] \in Graph /\ r[k] \subseteq p
      BY <1>1, <1>4, <2>1 DEF Graph
    <2>3. r[k + 1] \subseteq r[k] /\ Clear(r[k + 1], Order[k + 1])
      BY <2>2, BreakFromClears
    <2>4. \A i \in 1 .. k : Clear(r[k + 1], Order[i])
      BY <1>4, <2>2, <2>3, ClearStays
    <2>5. QED BY <2>1, <2>2, <2>3, <2>4
  <1>5. Done(N)
    <2> HIDE DEF Done, N
    <2>1. 0 \in T /\ \A k \in Nat : k \in T => k + 1 \in T
      BY <1>2, <1>3, <1>4
    <2> HIDE DEF T
    <2>2. N \in T
      BY <1>2, <2>1, SetInduction
    <2>3. QED BY <1>2, <2>2 DEF T
  <1>6. QED BY <1>1, <1>5, OrderIsSequence

-----------------------------------------------------------------------------
(* Least elements by a key of integers, in Python's order of tuples.         *)

Tuples(n) == [1 .. n -> Int]

LEMMA LessIsOrder ==
    ASSUME NEW n \in Nat, NEW a \in Tuples(n), NEW b \in Tuples(n), NEW c \in Tuples(n)
    PROVE  /\ ~Less(a, a)
           /\ a # b => Less(a, b) \/ Less(b, a)
           /\ Less(a, b) /\ Less(b, c) => Less(a, c)
  <1>0. a \in [1 .. n -> Int] /\ b \in [1 .. n -> Int] /\ c \in [1 .. n -> Int]
    BY DEF Tuples
  <1>1. ~Less(a, a)
    BY <1>0 DEF Less
  <1>2. ASSUME a # b PROVE Less(a, b) \/ Less(b, a)
    <2> DEFINE T == {i \in 1 .. n : a[i] # b[i]}
    <2>1. T \in SUBSET Nat
      OBVIOUS
    <2>2. T # {}
      <3>1. a = [i \in 1 .. n |-> a[i]] /\ b = [i \in 1 .. n |-> b[i]]
        BY <1>0
      <3>2. \E i \in 1 .. n : a[i] # b[i]
        BY <1>2, <3>1, Zenon
      <3>3. QED BY <3>2
    <2> HIDE DEF T
    <2>3. PICK i \in T : \A j \in T : i <= j
      BY <2>1, <2>2, LeastNat
    <2> USE DEF T
    <2>4. i \in 1 .. n /\ a[i] # b[i] /\ \A j \in 1 .. i - 1 : a[j] = b[j]
      BY <2>3
    <2>5. a[i] < b[i] \/ b[i] < a[i]
      BY <1>0, <2>4
    <2>6. QED BY <1>0, <2>4, <2>5 DEF Less
  <1>3. ASSUME Less(a, b), Less(b, c) PROVE Less(a, c)
    <2>1. PICK i \in 1 .. n : a[i] < b[i] /\ \A j \in 1 .. i - 1 : a[j] = b[j]
      BY <1>0, <1>3 DEF Less
    <2>2. PICK k \in 1 .. n : b[k] < c[k] /\ \A j \in 1 .. k - 1 : b[j] = c[j]
      BY <1>0, <1>3 DEF Less
    <2>0. a[i] \in Int /\ b[i] \in Int /\ c[i] \in Int /\ a[k] \in Int /\ b[k] \in Int /\ c[k] \in Int
      BY <1>0
    <2>3. CASE i <= k
      <3>1. b[i] <= c[i]
        BY <2>0, <2>1, <2>2, <2>3
      <3>2. a[i] < c[i]
        BY <2>0, <2>1, <3>1
      <3>3. \A j \in 1 .. i - 1 : a[j] = c[j]
        BY <2>1, <2>2, <2>3
      <3>4. QED BY <1>0, <3>2, <3>3 DEF Less
    <2>4. CASE k < i
      <3>1. a[k] < c[k] /\ \A j \in 1 .. k - 1 : a[j] = c[j]
        BY <2>0, <2>1, <2>2, <2>4
      <3>2. QED BY <1>0, <3>1 DEF Less
    <2>5. QED BY <2>3, <2>4
  <1>4. QED BY <1>1, <1>2, <1>3

\* Of finitely many elements with different keys one is the least.
LEMMA LeastExists ==
    ASSUME NEW n \in Nat, NEW S, S # {}, IsFiniteSet(S), NEW key \in [S -> Tuples(n)],
           \A x, y \in S : key[x] = key[y] => x = y
    PROVE  \E x \in S : \A y \in S \ {x} : Less(key[x], key[y])
  <1> DEFINE under(x) == {y \in S : y = x \/ Less(key[y], key[x])}
             F == {under(x) : x \in S}
  <1>1. F # {} /\ \A R \in F : IsFiniteSet(R)
    <2>1. \A x \in S : IsFiniteSet(under(x))
      BY FS_Subset
    <2>2. \A R \in F : \E x \in S : R = under(x)
      OBVIOUS
    <2>3. F # {}
      <3>1. PICK x \in S : TRUE
        OBVIOUS
      <3>2. under(x) \in F
        OBVIOUS
      <3> HIDE DEF F
      <3>3. QED BY <3>2
    <2> HIDE DEF F, under
    <2>4. QED BY <2>1, <2>2, <2>3
  <1>2. \A x, y, z \in S : Less(key[x], key[y]) /\ Less(key[y], key[z]) => Less(key[x], key[z])
    BY LessIsOrder
  <1>3. \A x, y \in S : ~Less(key[x], key[x]) /\ (x = y \/ Less(key[x], key[y]) \/ Less(key[y], key[x]))
    BY LessIsOrder
  <1> HIDE DEF F
  <1>4. PICK R \in F : \A Q \in F : ~(Q \subseteq R /\ Q # R)
    BY <1>1, MinimalSet
  <1> USE DEF F
  <1>5. PICK x \in S : R = under(x)
    BY <1>4
  <1>6. ASSUME NEW y \in S, Less(key[y], key[x]) PROVE FALSE
    <2>1. under(y) \subseteq under(x)
      BY <1>2, <1>6
    <2>2. x \in under(x) /\ x \notin under(y)
      BY <1>2, <1>3, <1>6
    <2>3. under(y) \in F
      OBVIOUS
    <2>4. QED BY <1>4, <1>5, <2>1, <2>2, <2>3
  <1>7. QED BY <1>3, <1>6

-----------------------------------------------------------------------------
(* The cables: a tree below the gateway.                                     *)

Path(m) == {m} \cup Uphill(m)

LEMMA HostsAreMacs ==
    /\ Gateway \in Host /\ Host \subseteq Mac /\ Client \subseteq Mac
    /\ Host \cap Client = {} /\ Mac \subseteq Int /\ IsFiniteSet(Mac) /\ IsFiniteSet(Host)
  <1>1. <<Gateway>> \in Seq(Int) /\ ap_hosts \in Seq(Int) /\ switch_hosts \in Seq(Int)
    BY TopologyAssumption
  <1>2. 1 \in 1 .. Len(Order) /\ Order[1] = Gateway
    BY <1>1 DEF Order
  <1>3. QED BY <1>2, OrderIsSequence, TopologyAssumption, FS_Subset DEF Mac

LEMMA CableEdges ==
    ASSUME uplink \in Wirings
    PROVE  /\ Cables(uplink) \in Graph
           /\ \A x, y : <<x, y>> \in Cables(uplink) <=> x \in Mac \ {Gateway} /\ y = uplink[x]
           /\ \A x \in Mac \ {Gateway} : uplink[x] \in Host
  <1>1. uplink \in [Mac \ {Gateway} -> Host] /\ Host \subseteq Mac
    BY HostsAreMacs DEF Wirings
  <1>2. \A x \in Mac \ {Gateway} : uplink[x] \in Host
    BY <1>1
  <1>3. \A x, y : <<x, y>> \in Cables(uplink) <=> x \in Mac \ {Gateway} /\ y = uplink[x]
    BY DEF Cables
  <1>4. \A e \in Cables(uplink) : e \in Mac \X Mac
    BY <1>1, <1>2 DEF Cables
  <1>5. QED BY <1>2, <1>3, <1>4 DEF Graph

LEMMA UphillOfUplink ==
    ASSUME uplink \in Wirings
    PROVE  /\ \A x \in Mac \ {Gateway} : Uphill(x) = {uplink[x]} \cup Uphill(uplink[x])
           /\ \A x, y : y \in Uphill(x) => y \in Host /\ Uphill(y) \subseteq Uphill(x)
           /\ \A x : x \notin Mac \ {Gateway} => Uphill(x) = {}
           /\ \A x \in Mac : x \notin Uphill(x)
  <1> DEFINE p == Cables(uplink)
  <1>1. p \in Graph /\ \A x, y : <<x, y>> \in p <=> x \in Mac \ {Gateway} /\ y = uplink[x]
    BY CableEdges
  <1>2. ASSUME NEW x, NEW y \in Above(p, x)
        PROVE  x \in Mac \ {Gateway} /\ (y = uplink[x] \/ y \in Above(p, uplink[x]))
    <2> HIDE DEF p
    <2>1. PICK k : <<x, k>> \in p /\ (y = k \/ y \in Above(p, k))
      BY <1>1, AboveOfParents
    <2>2. QED BY <1>1, <2>1
  <1>3. ASSUME NEW x \in Mac \ {Gateway}
        PROVE  uplink[x] \in Above(p, x) /\ Above(p, uplink[x]) \subseteq Above(p, x)
    <2> HIDE DEF p
    <2>1. QED BY <1>1, ParentsAreAbove
  <1>4. ASSUME NEW x, NEW y \in Above(p, x) PROVE y \in Host
    <2>1. Parents(p, {x}) \subseteq Host /\ Parents(p, Host) \subseteq Host
      <3>1. \A S : Parents(p, S) \subseteq Host
        <4>1. \A k, y1 : <<k, y1>> \in p => y1 \in Host
          BY <1>1, CableEdges
        <4> HIDE DEF p
        <4>2. QED BY <1>1, <4>1, ParentsOf
      <3>2. QED BY <3>1
    <2> HIDE DEF p
    <2>2. Above(p, x) \subseteq Host
      BY <1>1, <2>1, AboveIsLeast
    <2>3. QED BY <1>4, <2>2
  <1>5. ASSUME NEW x, NEW y \in Above(p, x) PROVE Above(p, y) \subseteq Above(p, x)
    <2> HIDE DEF p
    <2>1. QED BY <1>1, <1>5, AboveTransitive
  <1>6. ASSUME NEW x \in Mac PROVE x \notin Above(p, x)
    <2>1. CASE x = Gateway
      BY <1>2, <2>1
    <2>2. CASE x # Gateway
      <3>1. <<x, uplink[x]>> \in p /\ IsForest(p)
        BY <2>2, <1>1 DEF Wirings
      <3>2. <<x, uplink[x]>>[1] = x
        OBVIOUS
      <3> HIDE DEF p
      <3>3. QED BY <3>1, <3>2 DEF IsForest
    <2>3. QED BY <2>1, <2>2
  <1>7. \A x : Uphill(x) = Above(p, x)
    BY DEF Uphill
  <1> HIDE DEF p
  <1>8. QED BY <1>2, <1>3, <1>4, <1>5, <1>6, <1>7

\* A walk uphill ends at the gateway.
LEMMA GatewayIsOnTop ==
    ASSUME uplink \in Wirings, NEW m \in Mac
    PROVE  Gateway \in Path(m)
  <1> DEFINE F == {Uphill(x) : x \in Path(m)}
  <1>1. Path(m) \subseteq Mac
    BY UphillOfUplink, HostsAreMacs DEF Path
  <1>2. \A S \in F : IsFiniteSet(S)
    <2>1. \A x : Uphill(x) \in SUBSET Mac
      BY UphillOfUplink, HostsAreMacs
    <2>2. \A S \in F : S \in SUBSET Mac
      BY <2>1
    <2> HIDE DEF F
    <2>3. QED BY <2>2, HostsAreMacs, FS_Subset
  <1>3. Uphill(m) \in F
    BY DEF Path
  <1> HIDE DEF F
  <1>4. PICK S \in F : \A R \in F : ~(R \subseteq S /\ R # S)
    BY <1>2, <1>3, MinimalSet
  <1> USE DEF F
  <1>5. PICK x \in Path(m) : S = Uphill(x)
    BY <1>4
  <1>6. CASE x # Gateway
    <2>1. x \in Mac \ {Gateway}
      BY <1>1, <1>6
    <2>2. Uphill(x) = {uplink[x]} \cup Uphill(uplink[x]) /\ uplink[x] \notin Uphill(uplink[x])
      BY <2>1, UphillOfUplink, CableEdges, HostsAreMacs
    <2>3. uplink[x] \in Path(m)
      BY <2>2, UphillOfUplink DEF Path
    <2>4. QED BY <1>4, <1>5, <2>2, <2>3
  <1>7. QED BY <1>5, <1>6

\* Of two devices on a walk, one is uphill of the other.
LEMMA PathIsLinear ==
    ASSUME uplink \in Wirings, NEW m \in Mac, NEW x \in Path(m), NEW y \in Path(m)
    PROVE  x = y \/ x \in Uphill(y) \/ y \in Uphill(x)
  <1> DEFINE p == Cables(uplink)
             S == {z \in Mac : z = x \/ x \in Uphill(z) \/ z \in Uphill(x)}
  <1>1. p \in Graph /\ (\A k, l : <<k, l>> \in p <=> k \in Mac \ {Gateway} /\ l = uplink[k])
    BY CableEdges
  <1>2. CASE x = m \/ y = m
    BY <1>2 DEF Path
  <1>3. CASE x \in Uphill(m)
    <2>1. m \in S
      BY <1>3
    <2>2. ASSUME NEW k \in S, NEW l, <<k, l>> \in p PROVE l \in S
      <3>1. k \in Mac \ {Gateway} /\ l = uplink[k] /\ l \in Mac
        <4>1. k \in Mac \ {Gateway} /\ l = uplink[k]
          BY <1>1, <2>2, Zenon
        <4>2. QED BY <4>1, CableEdges, HostsAreMacs
      <3>2. Uphill(k) = {l} \cup Uphill(l)
        BY <3>1, UphillOfUplink
      <3>3. k \in Uphill(x) => l \in Uphill(x)
        BY <3>2, UphillOfUplink
      <3>4. QED BY <2>2, <3>1, <3>2, <3>3
    <2> HIDE DEF S, p
    <2>3. Parents(p, S) \subseteq S /\ Parents(p, {m}) \subseteq S
      BY <1>1, <2>1, <2>2, ParentsOf
    <2>4. Above(p, m) \subseteq S
      BY <1>1, <2>3, AboveIsLeast
    <2>5. y \in S
      BY <2>1, <2>4 DEF Path, Uphill, p
    <2>6. QED BY <2>5 DEF S
  <1>4. QED BY <1>2, <1>3 DEF Path

-----------------------------------------------------------------------------
(* What the hosts have learned                                               *)

\* Behind a port that faces down is the device on the walk that is plugged in there;
\* a host learns all other devices on the port that faces up.
LEMMA TowardDown ==
    ASSUME uplink \in Wirings, NEW m \in Mac, NEW h \in Uphill(m)
    PROVE  /\ Toward(h, m) \in Path(m) \ {Gateway} /\ uplink[Toward(h, m)] = h
           /\ \A n \in Path(m) \ {Gateway} : uplink[n] = h => n = Toward(h, m)
  <1> DEFINE p == Cables(uplink)
             P == Path(m) \ {Gateway}
             S == {y \in Host : \E n \in P : uplink[n] = y}
  <1>1. p \in Graph /\ (\A k, l : <<k, l>> \in p <=> k \in Mac \ {Gateway} /\ l = uplink[k])
    BY CableEdges
  <1>2. P \subseteq Mac \ {Gateway}
    BY UphillOfUplink, HostsAreMacs DEF Path
  <1>3. \E n \in P : uplink[n] = h
    <2>1. ASSUME NEW k, NEW l, <<k, l>> \in p, k \in Path(m) PROVE l \in S
      <3>1. k \in Mac \ {Gateway} /\ l = uplink[k]
        BY <1>1, <2>1, Zenon
      <3>2. QED BY <2>1, <3>1, CableEdges
    <2>2. S \subseteq Path(m)
      <3>1. ASSUME NEW n \in P PROVE uplink[n] \in Path(m)
        <4>1. uplink[n] \in Uphill(n)
          BY <1>2, UphillOfUplink
        <4>2. QED BY <4>1, UphillOfUplink DEF Path
      <3>2. QED BY <3>1
    <2> HIDE DEF S, p
    <2>3. Parents(p, S) \subseteq S /\ Parents(p, {m}) \subseteq S
      <3>1. ASSUME NEW k, NEW l, <<k, l>> \in p, k \in S \/ k = m PROVE l \in S
        BY <2>1, <2>2, <3>1 DEF Path
      <3>2. Parents(p, S) \subseteq S
        BY <1>1, <3>1, ParentsOf
      <3>3. Parents(p, {m}) \subseteq S
        BY <1>1, <3>1, ParentsOf
      <3>4. QED BY <3>2, <3>3
    <2>4. Above(p, m) \subseteq S
      BY <1>1, <2>3, AboveIsLeast
    <2>5. h \in S
      BY <2>4 DEF Uphill, p
    <2>6. QED BY <2>5 DEF S
  <1>4. ASSUME NEW n \in P, NEW k \in P, uplink[n] = h, uplink[k] = h PROVE n = k
    <2>1. Uphill(n) = {h} \cup Uphill(h) /\ Uphill(k) = {h} \cup Uphill(h)
      BY <1>2, <1>4, UphillOfUplink
    <2>2. n \notin Uphill(n) /\ k \notin Uphill(k)
      BY <1>2, UphillOfUplink
    <2>3. QED BY <2>1, <2>2, PathIsLinear
  <1>5. Toward(h, m) = CHOOSE n \in P : uplink[n] = h
    BY DEF Toward, Path, Uphill
  <1>6. QED BY <1>3, <1>4, <1>5

LEMMA TowardUp ==
    ASSUME uplink \in Wirings, NEW m \in Mac, NEW h \in Host, h \notin Path(m)
    PROVE  h \in Mac \ {Gateway} /\ Toward(h, m) = uplink[h]
  BY GatewayIsOnTop, HostsAreMacs DEF Toward, Path, Uphill

LEMMA TowardIsMac ==
    ASSUME uplink \in Wirings, NEW m \in Mac, NEW h \in Host, h # m
    PROVE  Toward(h, m) \in Mac
  <1>1. CASE h \in Uphill(m)
    <2>1. Toward(h, m) \in Path(m)
      BY <1>1, TowardDown
    <2>2. QED BY <2>1, UphillOfUplink, HostsAreMacs DEF Path
  <1>2. CASE h \notin Path(m)
    <2>1. h \in Mac \ {Gateway} /\ Toward(h, m) = uplink[h]
      BY <1>2, TowardUp
    <2>2. QED BY <2>1, CableEdges, HostsAreMacs
  <1>3. h \in Uphill(m) \/ h \notin Path(m)
    BY DEF Path
  <1>4. QED BY <1>1, <1>2, <1>3, Zenon

\* An entry of a table, and every entry that a table has.
Learns(hs, f) ==
    /\ f.at \in hs /\ f.at \in Host /\ f.mac \in Mac /\ f.at # f.mac
    /\ f.port = Toward(f.at, f.mac) /\ f.port \in Mac

LEMMA TableEntries ==
    ASSUME uplink \in Wirings, NEW hs \in SUBSET Host
    PROVE  /\ \A f \in Tables(hs) : Learns(hs, f)
           /\ \A f, g \in Tables(hs) : f.at = g.at /\ f.mac = g.mac => f = g
           /\ \A h \in hs, m \in Mac : h # m => \E f \in Tables(hs) : f.at = h /\ f.mac = m
           /\ IsFiniteSet(Tables(hs))
  <1>1. ASSUME NEW f \in Tables(hs)
        PROVE  Learns(hs, f) /\ f = [at |-> f.at, mac |-> f.mac, port |-> Toward(f.at, f.mac)]
    <2>1. PICK e \in hs \X Mac : e[1] # e[2] /\ f = [at |-> e[1], mac |-> e[2], port |-> Toward(e[1], e[2])]
      BY DEF Tables
    <2>2. f.at = e[1] /\ f.mac = e[2] /\ f.port = Toward(e[1], e[2]) /\ e[1] \in Host
      BY <2>1
    <2>3. Toward(e[1], e[2]) \in Mac
      BY <2>1, <2>2, TowardIsMac
    <2>4. QED BY <2>1, <2>2, <2>3 DEF Learns
  <1>2. \A f, g \in Tables(hs) : f.at = g.at /\ f.mac = g.mac => f = g
    BY <1>1
  <1>3. ASSUME NEW h \in hs, NEW m \in Mac, h # m PROVE \E f \in Tables(hs) : f.at = h /\ f.mac = m
    <2> DEFINE e == <<h, m>>
               f == [at |-> e[1], mac |-> e[2], port |-> Toward(e[1], e[2])]
    <2>1. e \in hs \X Mac /\ e[1] # e[2]
      BY <1>3
    <2>2. f \in Tables(hs)
      BY <2>1 DEF Tables
    <2>3. f.at = h /\ f.mac = m
      OBVIOUS
    <2> HIDE DEF f
    <2>4. QED BY <2>2, <2>3
  <1>4. IsFiniteSet(Tables(hs))
    <2> DEFINE key == [f \in Tables(hs) |-> <<f.at, f.mac>>]
               T   == hs \X Mac
    <2>1. IsFiniteSet(T)
      BY HostsAreMacs, FS_Subset, FS_Product
    <2>2. key \in [Tables(hs) -> T]
      BY <1>1 DEF Learns
    <2>3. \A f, g \in Tables(hs) : key[f] = key[g] => f = g
      BY <1>2
    <2> HIDE DEF key, T
    <2>4. key \in Injection(Tables(hs), T)
      BY <2>2, <2>3 DEF Injection, IsInjective
    <2>5. QED BY <2>1, <2>4, FS_Injection
  <1>5. QED BY <1>1, <1>2, <1>3, <1>4

-----------------------------------------------------------------------------
(* The parents a scan claims                                                 *)

LEMMA RankIsKey ==
    ASSUME uplink \in Wirings, NEW hs \in SUBSET Host, NEW fdb \in SUBSET Tables(hs), NEW f \in fdb
    PROVE  /\ PortMacs(fdb, f) \subseteq Mac /\ IsFiniteSet(PortMacs(fdb, f))
           /\ Cardinality(PortMacs(fdb, f)) \in Nat
           /\ PortRank(fdb, f) \in Tuples(3)
           /\ \E l \in Int : PortRank(fdb, f) = <<Cardinality(PortMacs(fdb, f)), l, f.at>>
           /\ f.at \in Int
           /\ PortRank(fdb, f)[1] = Cardinality(PortMacs(fdb, f)) /\ PortRank(fdb, f)[3] = f.at
  <1>1. PortMacs(fdb, f) \subseteq Mac
    BY TableEntries DEF PortMacs, Learns
  <1>2. IsFiniteSet(PortMacs(fdb, f)) /\ Cardinality(PortMacs(fdb, f)) \in Nat
    BY <1>1, HostsAreMacs, FS_Subset, FS_CardinalityType
  <1>3. f.at \in Int /\ Plain(f.at) \in Int
    <2>1. Learns(hs, f)
      BY TableEntries
    <2>2. f.at \in Int
      BY <2>1, HostsAreMacs DEF Learns
    <2>3. QED BY <2>2 DEF Plain
  <1> DEFINE c == Cardinality(PortMacs(fdb, f))
             a == f.at
             l == Plain(f.at)
  <1>4. PortRank(fdb, f) = <<c, l, a>>
    BY DEF PortRank
  <1>5. c \in Int /\ l \in Int /\ a \in Int
    BY <1>2, <1>3
  <1> HIDE DEF c, a, l
  <1>6. <<c, l, a>> \in Tuples(3)
    BY <1>5 DEF Tuples
  <1>7. <<c, l, a>>[1] = c /\ <<c, l, a>>[3] = a
    OBVIOUS
  <1>8. QED BY <1>1, <1>2, <1>3, <1>4, <1>5, <1>6, <1>7 DEF c, a

LEMMA PrependToKey ==
    ASSUME NEW s \in Seq(Int), NEW t \in Seq(Int), Len(s) = 1, Len(t) = 3
    PROVE  s \o t \in Tuples(4) /\ (s \o t)[1] = s[1] /\ (s \o t)[4] = t[3]
  <1> DEFINE w == s \o t
  <1>1. /\ w \in Seq(Int) /\ Len(w) = Len(s) + Len(t)
        /\ \A i \in 1 .. Len(s) + Len(t) : w[i] = IF i <= Len(s) THEN s[i] ELSE t[i - Len(s)]
    BY ConcatProperties
  <1> HIDE DEF w
  <1>2. Len(w) = 4 /\ \A i \in 1 .. 4 : w[i] = IF i <= 1 THEN s[i] ELSE t[i - 1]
    BY <1>1
  <1>3. w[1] = s[1] /\ w[4] = t[3]
    BY <1>2
  <1>4. w \in [1 .. Len(w) -> Int]
    BY <1>1
  <1>5. w \in Tuples(4)
    BY <1>2, <1>4 DEF Tuples
  <1>6. QED BY <1>3, <1>5 DEF w

ClaimKey(fdb, hs, f) == <<Cardinality(Shared(fdb, hs, f))>> \o PortRank(fdb, f)

LEMMA ClaimKeyIsKey ==
    ASSUME uplink \in Wirings, NEW hs \in SUBSET Host, NEW fdb \in SUBSET Tables(hs), NEW f \in fdb
    PROVE  /\ Shared(fdb, hs, f) \subseteq Host /\ IsFiniteSet(Shared(fdb, hs, f))
           /\ Cardinality(Shared(fdb, hs, f)) \in Nat
           /\ ClaimKey(fdb, hs, f) \in Tuples(4)
           /\ ClaimKey(fdb, hs, f)[1] = Cardinality(Shared(fdb, hs, f))
           /\ ClaimKey(fdb, hs, f)[4] = f.at
  <1>1. Shared(fdb, hs, f) \subseteq Host
    BY DEF Shared
  <1>2. IsFiniteSet(Shared(fdb, hs, f)) /\ Cardinality(Shared(fdb, hs, f)) \in Nat
    BY <1>1, HostsAreMacs, FS_Subset, FS_CardinalityType
  <1> DEFINE c == Cardinality(Shared(fdb, hs, f))
             b == Cardinality(PortMacs(fdb, f))
             a == f.at
  <1>3. c \in Int /\ b \in Int /\ a \in Int
    <2>1. Cardinality(PortMacs(fdb, f)) \in Int /\ f.at \in Int
      BY RankIsKey
    <2>2. Cardinality(Shared(fdb, hs, f)) \in Int
      BY <1>2
    <2>3. QED BY <2>1, <2>2
  <1>4. PICK l \in Int : PortRank(fdb, f) = <<b, l, a>>
    BY RankIsKey
  <1> HIDE DEF a, b, c
  <1> DEFINE s == <<c>>
             t == <<b, l, a>>
  <1>5. /\ s \in Seq(Int) /\ Len(s) = 1 /\ s[1] = c
        /\ t \in Seq(Int) /\ Len(t) = 3 /\ t[3] = a
    BY <1>3
  <1>6. ClaimKey(fdb, hs, f) = s \o t
    BY <1>4 DEF ClaimKey, c
  <1> HIDE DEF s, t
  <1>7. s \o t \in Tuples(4) /\ (s \o t)[1] = c /\ (s \o t)[4] = a
    BY <1>5, PrependToKey
  <1>8. QED BY <1>1, <1>2, <1>6, <1>7 DEF c, a

\* The parent of each host is the one offer of which the key is the least.
BestOffer(fdb, hs, h, f) ==
    /\ f \in Offers(fdb, hs, h)
    /\ \A g \in Offers(fdb, hs, h) \ {f} : Less(ClaimKey(fdb, hs, f), ClaimKey(fdb, hs, g))

LEMMA OffersOf ==
    ASSUME uplink \in Wirings, NEW hs \in SUBSET Host, NEW fdb \in SUBSET Tables(hs), NEW h
    PROVE  /\ Offers(fdb, hs, h) \subseteq fdb
           /\ \A f \in Offers(fdb, hs, h) : Learns(hs, f) /\ f.mac = h
           /\ \A f, g \in Offers(fdb, hs, h) : f.at = g.at => f = g
           /\ IsFiniteSet(Offers(fdb, hs, h))
  <1>1. Offers(fdb, hs, h) \subseteq fdb /\ \A f \in Offers(fdb, hs, h) : f.mac = h
    BY DEF Offers, Learned
  <1>2. QED BY <1>1, TableEntries, FS_Subset

LEMMA BestOfferExists ==
    ASSUME uplink \in Wirings, NEW hs \in SUBSET Host, NEW fdb \in SUBSET Tables(hs), NEW h,
           Offers(fdb, hs, h) # {}
    PROVE  \E f : BestOffer(fdb, hs, h, f)
  <1> DEFINE S   == Offers(fdb, hs, h)
             key == [f \in S |-> ClaimKey(fdb, hs, f)]
  <1>1. S \subseteq fdb /\ IsFiniteSet(S) /\ \A f, g \in S : f.at = g.at => f = g
    BY OffersOf
  <1>2. \A f \in S : ClaimKey(fdb, hs, f) \in Tuples(4) /\ ClaimKey(fdb, hs, f)[4] = f.at
    BY <1>1, ClaimKeyIsKey
  <1>3. key \in [S -> Tuples(4)] /\ \A f, g \in S : key[f] = key[g] => f = g
    BY <1>1, <1>2
  <1>4. \A f \in S : key[f] = ClaimKey(fdb, hs, f)
    OBVIOUS
  <1> HIDE DEF S, key
  <1>5. PICK f \in S : \A g \in S \ {f} : Less(key[f], key[g])
    BY <1>1, <1>3, LeastExists DEF S
  <1>6. QED BY <1>4, <1>5 DEF BestOffer, S

LEMMA ClaimedEdges ==
    ASSUME uplink \in Wirings, NEW hs \in SUBSET Host, NEW fdb \in SUBSET Tables(hs)
    PROVE  /\ \A e \in Claimed(fdb, hs) :
                 /\ e \in Edge /\ e[1] \in hs /\ e[2] \in hs
                 /\ \E f : BestOffer(fdb, hs, e[1], f) /\ e = <<e[1], f.at>>
           /\ \A e, f \in Claimed(fdb, hs) : e[1] = f[1] => e = f
           /\ \A h \in hs \ {Gateway} :
                 Offers(fdb, hs, h) # {} => \E e \in Claimed(fdb, hs) : e[1] = h
  <1> DEFINE best(h) == CHOOSE f \in Offers(fdb, hs, h) :
                            \A g \in Offers(fdb, hs, h) \ {f} :
                                Less(ClaimKey(fdb, hs, f), ClaimKey(fdb, hs, g))
             H == {h \in hs \ {Gateway} : Offers(fdb, hs, h) # {}}
  <1>1. Claimed(fdb, hs) = {<<h, best(h).at>> : h \in H}
    BY DEF Claimed, Least, ClaimKey
  <1>2. \A h \in H : BestOffer(fdb, hs, h, best(h))
    <2> TAKE h \in H
    <2>1. \E f \in Offers(fdb, hs, h) : \A g \in Offers(fdb, hs, h) \ {f} :
              Less(ClaimKey(fdb, hs, f), ClaimKey(fdb, hs, g))
      BY BestOfferExists DEF BestOffer
    <2>2. QED BY <2>1 DEF BestOffer
  <1> HIDE DEF best
  <1>3. ASSUME NEW h \in H PROVE best(h).at \in hs /\ best(h).at # h
    BY <1>2, OffersOf DEF BestOffer, Learns
  <1>4. ASSUME NEW e \in Claimed(fdb, hs)
        PROVE  e[1] \in H /\ e = <<e[1], best(e[1]).at>>
    BY <1>1
  <1>5. ASSUME NEW e \in Claimed(fdb, hs)
        PROVE  /\ e \in Edge /\ e[1] \in hs /\ e[2] \in hs
               /\ \E f : BestOffer(fdb, hs, e[1], f) /\ e = <<e[1], f.at>>
    <2>1. PICK h \in H : e = <<h, best(h).at>> /\ e[1] = h /\ e[2] = best(h).at
      BY <1>4
    <2>2. QED BY <1>2, <1>3, <2>1 DEF Edge
  <1>6. \A e, f \in Claimed(fdb, hs) : e[1] = f[1] => e = f
    BY <1>4
  <1>7. ASSUME NEW h \in H PROVE \E e \in Claimed(fdb, hs) : e[1] = h
    <2>1. <<h, best(h).at>> \in Claimed(fdb, hs) /\ <<h, best(h).at>>[1] = h
      BY <1>1
    <2>2. QED BY <2>1
  <1>8. QED BY <1>5, <1>6, <1>7

\* What a scan resolves: claimed parents, and a forest.
Functional(p) == \A e, f \in p : e[1] = f[1] => e = f

LEMMA EdgesAreGraph ==
    ASSUME NEW p \in SUBSET Edge
    PROVE  p \in Graph /\ \A e \in p : e[1] \in Host /\ e[2] \in Host /\ e = <<e[1], e[2]>>
  <1>1. \A e \in p : e[1] \in Host /\ e[2] \in Host /\ e = <<e[1], e[2]>>
    BY DEF Edge
  <1>2. \A e \in p : e \in Mac \X Mac
    BY <1>1, HostsAreMacs
  <1>3. QED BY <1>1, <1>2 DEF Graph

LEMMA ResolvedParents ==
    ASSUME uplink \in Wirings, NEW hs \in SUBSET Host, NEW fdb \in SUBSET Tables(hs)
    PROVE  LET r == resolve_infra_parents(fdb, hs) IN
           /\ r \subseteq Claimed(fdb, hs) /\ r \subseteq Edge /\ Functional(r) /\ IsForest(r)
  <1> DEFINE c == Claimed(fdb, hs)
             r == BreakCycles(c)
  <1>1. c \in SUBSET Edge /\ Functional(c)
    BY ClaimedEdges DEF Functional
  <1> HIDE DEF c
  <1>2. c \in Graph
    BY <1>1, EdgesAreGraph
  <1>3. r \subseteq c /\ \A h \in Host : Clear(r, h)
    BY <1>2, BreakCyclesClears
  <1> HIDE DEF r
  <1>4. r \in SUBSET Edge /\ Functional(r)
    BY <1>1, <1>3 DEF Functional
  <1>5. IsForest(r)
    BY <1>3, <1>4, EdgesAreGraph DEF IsForest, Clear
  <1>6. QED BY <1>3, <1>4, <1>5 DEF resolve_infra_parents, r, c

-----------------------------------------------------------------------------
(* The access ports a scan finds                                             *)

AccessPorts(fdb, m) == {f \in Learned(fdb, m) : Cardinality(PortMacs(fdb, f)) <= Threshold}

\* The winner among them is the one of which the rank is the least.
Wins(fdb, m, f) ==
    /\ f \in AccessPorts(fdb, m)
    /\ \A g \in AccessPorts(fdb, m) \ {f} : Less(PortRank(fdb, f), PortRank(fdb, g))

LEMMA AccessPortsOf ==
    ASSUME uplink \in Wirings, NEW hs \in SUBSET Host, NEW fdb \in SUBSET Tables(hs), NEW m
    PROVE  /\ AccessPorts(fdb, m) \subseteq fdb
           /\ \A f \in AccessPorts(fdb, m) : Learns(hs, f) /\ f.mac = m
           /\ \A f, g \in AccessPorts(fdb, m) : f.at = g.at => f = g
           /\ IsFiniteSet(AccessPorts(fdb, m))
  <1>1. AccessPorts(fdb, m) \subseteq fdb /\ \A f \in AccessPorts(fdb, m) : f.mac = m
    BY DEF AccessPorts, Learned
  <1>2. QED BY <1>1, TableEntries, FS_Subset

LEMMA WinnerExists ==
    ASSUME uplink \in Wirings, NEW hs \in SUBSET Host, NEW fdb \in SUBSET Tables(hs), NEW m,
           AccessPorts(fdb, m) # {}
    PROVE  \E f : Wins(fdb, m, f)
  <1> DEFINE S   == AccessPorts(fdb, m)
             key == [f \in S |-> PortRank(fdb, f)]
  <1>1. S \subseteq fdb /\ IsFiniteSet(S) /\ \A f, g \in S : f.at = g.at => f = g
    BY AccessPortsOf
  <1>2. \A f \in S : PortRank(fdb, f) \in Tuples(3) /\ PortRank(fdb, f)[3] = f.at
    BY <1>1, RankIsKey
  <1>3. key \in [S -> Tuples(3)] /\ \A f, g \in S : key[f] = key[g] => f = g
    BY <1>1, <1>2
  <1>4. \A f \in S : key[f] = PortRank(fdb, f)
    OBVIOUS
  <1> HIDE DEF S, key
  <1>5. PICK f \in S : \A g \in S \ {f} : Less(key[f], key[g])
    BY <1>1, <1>3, LeastExists DEF S
  <1>6. QED BY <1>4, <1>5 DEF Wins, S

LEMMA SwitchPorts ==
    ASSUME uplink \in Wirings, NEW hs \in SUBSET Host, NEW fdb \in SUBSET Tables(hs)
    PROVE  /\ resolve_switch_ports(fdb) \subseteq Client \X Host \X Mac
           /\ \A s \in resolve_switch_ports(fdb) :
                 \E f : Wins(fdb, s[1], f) /\ s = <<s[1], f.at, f.port>>
           /\ \A m \in Client : AccessPorts(fdb, m) # {} => \E s \in resolve_switch_ports(fdb) : s[1] = m
  <1> DEFINE best(m) == CHOOSE f \in AccessPorts(fdb, m) :
                            \A g \in AccessPorts(fdb, m) \ {f} : Less(PortRank(fdb, f), PortRank(fdb, g))
             M == {m \in Client : AccessPorts(fdb, m) # {}}
  <1>1. resolve_switch_ports(fdb) = {<<m, best(m).at, best(m).port>> : m \in M}
    BY DEF resolve_switch_ports, Least, AccessPorts
  <1>2. \A m \in M : Wins(fdb, m, best(m))
    <2> TAKE m \in M
    <2>1. \E f \in AccessPorts(fdb, m) : \A g \in AccessPorts(fdb, m) \ {f} :
              Less(PortRank(fdb, f), PortRank(fdb, g))
      BY WinnerExists DEF Wins
    <2>2. QED BY <2>1 DEF Wins
  <1> HIDE DEF best
  <1>3. ASSUME NEW m \in M PROVE best(m).at \in Host /\ best(m).port \in Mac
    BY <1>2, AccessPortsOf DEF Wins, Learns
  <1>4. ASSUME NEW s \in resolve_switch_ports(fdb)
        PROVE  /\ s \in Client \X Host \X Mac
               /\ \E f : Wins(fdb, s[1], f) /\ s = <<s[1], f.at, f.port>>
    <2>1. PICK m \in M : s = <<m, best(m).at, best(m).port>> /\ s[1] = m
      BY <1>1
    <2>2. QED BY <1>2, <1>3, <2>1
  <1>5. ASSUME NEW m \in M PROVE \E s \in resolve_switch_ports(fdb) : s[1] = m
    <2>1. <<m, best(m).at, best(m).port>> \in resolve_switch_ports(fdb) /\ <<m, best(m).at, best(m).port>>[1] = m
      BY <1>1
    <2>2. QED BY <2>1
  <1>6. QED BY <1>4, <1>5

-----------------------------------------------------------------------------
(* Recabling *)

\* A device may be plugged in wherever that is not downhill of itself.
LEMMA RewiredIsWiring ==
    ASSUME uplink \in Wirings, NEW n \in Mac \ {Gateway}, NEW h \in Host, h # n, n \notin Uphill(h),
           NEW w, w = [uplink EXCEPT ![n] = h]
    PROVE  w \in Wirings
  <1> DEFINE p == Cables(uplink)
             q == Cables(w)
             A == {h} \cup Above(p, h)
  <1>1. p \in Graph /\ (\A x, y : <<x, y>> \in p <=> x \in Mac \ {Gateway} /\ y = uplink[x])
    BY CableEdges
  <1>2. w \in [Mac \ {Gateway} -> Host] /\ w[n] = h /\ \A x \in (Mac \ {Gateway}) \ {n} : w[x] = uplink[x]
    BY DEF Wirings
  <1>3. \A x, y : <<x, y>> \in q <=> x \in Mac \ {Gateway} /\ y = w[x]
    BY DEF Cables
  <1>4. q \in Graph
    BY <1>2, HostsAreMacs DEF Cables, Graph
  <1>5. \A x, y : <<x, y>> \in q => <<x, y>> \in p \/ (x = n /\ y = h)
    BY <1>1, <1>2, <1>3
  <1>6. n \notin A
    BY DEF Uphill
  <1>7. \A x \in Mac : x \notin Above(p, x)
    BY UphillOfUplink DEF Uphill
  <1> HIDE DEF p, q
  <1>8. Parents(q, A) \subseteq A
    <2>1. ASSUME NEW y \in Parents(q, A) PROVE y \in A
      <3>1. PICK x \in A : <<x, y>> \in q
        BY <1>4, <2>1, ParentsOf
      <3>2. <<x, y>> \in p
        BY <1>5, <1>6, <3>1
      <3>3. y \in Above(p, x) /\ (x = h \/ Above(p, x) \subseteq Above(p, h))
        BY <1>1, <3>1, <3>2, ParentsAreAbove, AboveTransitive
      <3>4. QED BY <3>3
    <2>2. QED BY <2>1
  <1>9. ASSUME NEW x \in Mac PROVE x \notin Above(q, x)
    <2>1. CASE x \in A
      <3> DEFINE S == Above(p, x) \cap A
      <3>1. ASSUME NEW k \in {x} \cup S, NEW y, <<k, y>> \in q PROVE y \in S
        <4>1. k \in A /\ <<k, y>> \in p
          BY <1>5, <1>6, <2>1, <3>1
        <4>2. y \in Above(p, x)
          BY <1>1, <3>1, <4>1, ParentsAreAbove, AboveTransitive
        <4>3. y \in A
          <5>1. y \in Parents(q, A)
            BY <1>4, <3>1, <4>1, ParentsOf
          <5>2. QED BY <1>8, <5>1
        <4>4. QED BY <4>2, <4>3
      <3> HIDE DEF S
      <3>2. Above(q, x) \subseteq S
        <4>1. Parents(q, {x}) \subseteq S /\ Parents(q, S) \subseteq S
          BY <1>4, <3>1, ParentsOf
        <4>2. QED BY <1>4, <4>1, AboveIsLeast
      <3>3. QED BY <1>7, <3>2 DEF S
    <2>2. CASE x \notin A
      <3> DEFINE S == Above(p, x) \cup A
      <3>1. ASSUME NEW k \in {x} \cup S, NEW y, <<k, y>> \in q PROVE y \in S
        <4>1. CASE k \in A
          <5>1. y \in Parents(q, A)
            BY <1>4, <3>1, <4>1, ParentsOf
          <5>2. QED BY <1>8, <5>1
        <4>2. CASE k = n
          BY <1>2, <1>3, <3>1, <4>2
        <4>3. CASE k \notin A /\ k # n
          <5>1. <<k, y>> \in p /\ k \in {x} \cup Above(p, x)
            BY <1>5, <3>1, <4>3
          <5>2. y \in Above(p, x)
            BY <1>1, <5>1, ParentsAreAbove, AboveTransitive
          <5>3. QED BY <5>2
        <4>4. QED BY <4>1, <4>2, <4>3
      <3>2. x \notin S
        BY <1>7, <2>2
      <3> HIDE DEF S
      <3>3. Above(q, x) \subseteq S
        <4>1. Parents(q, {x}) \subseteq S /\ Parents(q, S) \subseteq S
          BY <1>4, <3>1, ParentsOf
        <4>2. QED BY <1>4, <4>1, AboveIsLeast
      <3>4. QED BY <3>2, <3>3
    <2>3. QED BY <2>1, <2>2
  <1>10. \A e \in q : e[1] \in Mac
    BY <1>4 DEF Graph
  <1>11. IsForest(q)
    BY <1>9, <1>10 DEF IsForest
  <1>12. QED BY <1>2, <1>11 DEF Wirings, q

-----------------------------------------------------------------------------
(* The gateway gives direction: a port that faces down carries what hangs    *)
(* from the device plugged into it, and every other port the gateway.        *)

Below(n) == {x \in Mac : n \in Path(x)}

LEMMA PathOfPath ==
    ASSUME uplink \in Wirings, NEW x, NEW y \in Path(x)
    PROVE  Path(y) \subseteq Path(x)
  BY UphillOfUplink DEF Path

\* No device is above itself, by however many steps.
LEMMA NoneAboveItself ==
    ASSUME uplink \in Wirings, NEW x \in Mac, NEW y, y \in Uphill(x)
    PROVE  x \notin Path(y) /\ y # x
  <1>1. Uphill(y) \subseteq Uphill(x) /\ x \notin Uphill(x)
    BY UphillOfUplink
  <1>2. QED BY <1>1 DEF Path

LEMMA PortFacingDown ==
    ASSUME uplink \in Wirings, NEW hs \in SUBSET Host, NEW f \in Tables(hs), f.at \in Uphill(f.mac)
    PROVE  /\ f.port \in Path(f.mac) \ {Gateway} /\ uplink[f.port] = f.at
           /\ PortMacs(Tables(hs), f) = Below(f.port)
  <1> DEFINE g == f.at
             n == f.port
  <1>1. g \in hs /\ g \in Host /\ g \in Mac /\ f.mac \in Mac /\ n = Toward(g, f.mac) /\ n \in Mac
    BY TableEntries, HostsAreMacs DEF Learns
  <1>2. n \in Path(f.mac) \ {Gateway} /\ uplink[n] = g
    BY <1>1, TowardDown
  <1>3. g \in Uphill(n) /\ n \notin Path(g)
    <2>1. g \in Uphill(n)
      BY <1>1, <1>2, UphillOfUplink
    <2>2. QED BY <1>1, <2>1, NoneAboveItself
  <1> HIDE DEF g, n
  <1>4. ASSUME NEW x \in PortMacs(Tables(hs), f) PROVE x \in Below(n)
    <2>1. PICK e \in Tables(hs) : e.at = g /\ e.port = n /\ e.mac = x
      BY <1>4 DEF PortMacs, g, n
    <2>2. x \in Mac /\ g # x /\ n = Toward(g, x)
      BY <2>1, TableEntries DEF Learns
    <2>3. CASE g \in Uphill(x)
      BY <2>2, <2>3, TowardDown DEF Below
    <2>4. CASE g \notin Path(x)
      <3>1. n = uplink[g] /\ g \in Mac \ {Gateway}
        BY <1>1, <2>2, <2>4, TowardUp
      <3>2. n \in Uphill(g)
        BY <3>1, UphillOfUplink
      <3>3. QED BY <1>3, <3>2 DEF Path
    <2>5. g \in Uphill(x) \/ g \notin Path(x)
      BY <2>2 DEF Path
    <2>6. QED BY <2>3, <2>4, <2>5
  <1>5. ASSUME NEW x \in Below(n) PROVE x \in PortMacs(Tables(hs), f)
    <2>1. x \in Mac /\ n \in Path(x)
      BY <1>5 DEF Below
    <2>2. g \in Uphill(x)
      BY <1>3, <2>1, UphillOfUplink DEF Path
    <2>3. g # x /\ n = Toward(g, x)
      BY <1>1, <1>2, <2>1, <2>2, NoneAboveItself, TowardDown
    <2>4. PICK e \in Tables(hs) : e.at = g /\ e.mac = x
      BY <1>1, <2>1, <2>3, TableEntries
    <2>5. e.port = n
      BY <2>3, <2>4, TableEntries DEF Learns
    <2>6. QED BY <2>4, <2>5 DEF PortMacs, g, n
  <1>6. PortMacs(Tables(hs), f) = Below(n)
    BY <1>4, <1>5
  <1>7. QED BY <1>2, <1>6 DEF n, g

\* A port of h that faces up carries the host it is plugged into, and the gateway.
LEMMA PortFacingUp ==
    ASSUME uplink \in Wirings, NEW hs \in SUBSET Host, NEW f \in Tables(hs), f.at \notin Uphill(f.mac)
    PROVE  /\ f.at \in Mac \ {Gateway} /\ f.port = uplink[f.at]
           /\ uplink[f.at] \in PortMacs(Tables(hs), f) /\ Gateway \in PortMacs(Tables(hs), f)
  <1> DEFINE h == f.at
  <1>1. h \in hs /\ h \in Host /\ f.mac \in Mac /\ h # f.mac /\ f.port = Toward(h, f.mac)
    BY TableEntries DEF Learns
  <1>2. h \notin Path(f.mac)
    BY <1>1 DEF Path
  <1>3. h \in Mac \ {Gateway} /\ f.port = uplink[h]
    BY <1>1, <1>2, TowardUp
  <1>4. ASSUME NEW x \in Uphill(h) PROVE x \in PortMacs(Tables(hs), f)
    <2>1. x \in Mac /\ h \notin Path(x) /\ x # h
      <3>1. x \in Host
        BY <1>4, UphillOfUplink
      <3>2. h \notin Path(x) /\ x # h
        BY <1>3, <1>4, NoneAboveItself
      <3>3. QED BY <3>1, <3>2, HostsAreMacs
    <2>2. Toward(h, x) = uplink[h]
      BY <1>1, <2>1, TowardUp
    <2>3. PICK e \in Tables(hs) : e.at = h /\ e.mac = x
      BY <1>1, <2>1, TableEntries
    <2>4. e.port = f.port
      BY <1>3, <2>2, <2>3, TableEntries DEF Learns
    <2>5. QED BY <2>3, <2>4 DEF PortMacs
  <1>5. uplink[h] \in Uphill(h) /\ Gateway \in Uphill(h)
    BY <1>3, UphillOfUplink, GatewayIsOnTop DEF Path
  <1>6. QED BY <1>3, <1>4, <1>5

LEMMA OffersFaceDown ==
    ASSUME uplink \in Wirings, NEW hs \in SUBSET Host, Gateway \in hs, NEW h \in hs \ {Gateway}
    PROVE  \A f \in Tables(hs) : f \in Offers(Tables(hs), hs, h) <=> f.mac = h /\ f.at \in Uphill(h)
  <1> DEFINE all == Tables(hs)
  <1>1. ASSUME NEW f \in all, f.mac = h, f.at \in Uphill(h) PROVE Gateway \notin PortMacs(all, f)
    <2>1. f.port # Gateway /\ PortMacs(all, f) = Below(f.port)
      BY <1>1, PortFacingDown
    <2>2. Uphill(Gateway) = {}
      BY UphillOfUplink
    <2>3. QED BY <2>1, <2>2 DEF Below, Path
  <1>2. ASSUME NEW f \in all, f.mac = h, f.at \notin Uphill(h)
        PROVE  Gateway \in PortMacs(all, f) /\ f.at # Gateway
    BY <1>2, PortFacingUp
  <1>3. \A f \in all : f \in Offers(all, hs, h) <=>
                          f.mac = h /\ (f.at = Gateway \/ Gateway \notin PortMacs(all, f))
    BY DEF Offers, Learned
  <1>4. Gateway \in Uphill(h)
    BY HostsAreMacs, GatewayIsOnTop DEF Path
  <1> HIDE DEF all
  <1>5. \A f \in all : f \in Offers(all, hs, h) <=> f.mac = h /\ f.at \in Uphill(h)
    BY <1>1, <1>2, <1>3, <1>4
  <1>6. QED BY <1>5 DEF all

LEMMA LessComparesFirst ==
    ASSUME NEW n \in Nat \ {0}, NEW a \in Tuples(n), NEW b \in Tuples(n), Less(a, b)
    PROVE  a[1] <= b[1]
  <1>1. PICK i \in 1 .. n : a[i] < b[i] /\ \A j \in 1 .. i - 1 : a[j] = b[j]
    BY DEF Less, Tuples
  <1>2. a[1] \in Int /\ b[1] \in Int
    BY DEF Tuples
  <1>3. CASE i = 1
    BY <1>1, <1>2, <1>3
  <1>4. CASE i # 1
    <2>1. 1 \in 1 .. i - 1
      BY <1>1, <1>4
    <2>2. QED BY <1>1, <1>2, <2>1
  <1>5. QED BY <1>3, <1>4

\* The nearest member of hs above h: all the others are above it.
Nearest(hs, h, p) == p \in Uphill(h) \cap hs /\ (Uphill(h) \cap hs) \ {p} \subseteq Uphill(p)

LEMMA NearestExists ==
    ASSUME uplink \in Wirings, NEW hs, NEW h \in Mac, Uphill(h) \cap hs # {}
    PROVE  \E p : Nearest(hs, h, p)
  <1> DEFINE U == Uphill(h) \cap hs
             F == {Mac \ Uphill(g) : g \in U}
  <1>1. PICK g0 \in U : TRUE
    OBVIOUS
  <1>2. Mac \ Uphill(g0) \in F
    OBVIOUS
  <1>3. \A S \in F : IsFiniteSet(S)
    <2>1. \A S \in F : S \in SUBSET Mac
      OBVIOUS
    <2> HIDE DEF F
    <2>2. QED BY <2>1, HostsAreMacs, FS_Subset
  <1> HIDE DEF F
  <1>4. PICK S \in F : \A R \in F : ~(R \subseteq S /\ R # S)
    BY <1>2, <1>3, MinimalSet
  <1> USE DEF F
  <1>5. PICK p \in U : S = Mac \ Uphill(p)
    BY <1>4
  <1>6. ASSUME NEW g \in U \ {p} PROVE g \in Uphill(p)
    <2>1. g \in Uphill(p) \/ p \in Uphill(g)
      BY PathIsLinear DEF Path
    <2>2. CASE p \in Uphill(g)
      <3>1. p \in Mac /\ p \notin Uphill(p) /\ Uphill(p) \subseteq Uphill(g)
        BY <2>2, UphillOfUplink, HostsAreMacs
      <3>2. Mac \ Uphill(g) \subseteq S /\ Mac \ Uphill(g) # S
        BY <1>5, <2>2, <3>1
      <3>3. Mac \ Uphill(g) \in F
        BY <1>6
      <3>4. QED BY <1>4, <3>2, <3>3
    <2>3. QED BY <2>1, <2>2
  <1>7. QED BY <1>5, <1>6 DEF Nearest

\* The port of the nearest host shares fewer hosts than that of any other.
LEMMA NearestSharesLess ==
    ASSUME uplink \in Wirings, NEW hs \in SUBSET Host, NEW h \in hs \ {Gateway}, NEW p, Nearest(hs, h, p),
           NEW e \in Tables(hs), e.at = p, e.mac = h,
           NEW f \in Tables(hs), f.at \in Uphill(h), f.mac = h, f.at # p
    PROVE  Cardinality(Shared(Tables(hs), hs, e)) < Cardinality(Shared(Tables(hs), hs, f))
  <1> DEFINE all == Tables(hs)
             g   == f.at
             n   == e.port
             k   == f.port
  <1>1. /\ p \in Uphill(h) /\ p \in hs /\ h \in Mac /\ p \in Mac /\ g \in hs /\ g \in Uphill(p)
    BY TableEntries, HostsAreMacs DEF Nearest, Learns
  <1>2. n \in Path(h) \ {Gateway} /\ uplink[n] = p /\ PortMacs(all, e) = Below(n)
    BY <1>1, PortFacingDown
  <1>3. k \in Path(h) \ {Gateway} /\ uplink[k] = g /\ PortMacs(all, f) = Below(k)
    BY <1>1, PortFacingDown
  <1>4. n \in Mac /\ p \in Uphill(n) /\ n \notin Path(p) /\ Path(p) \subseteq Path(n)
    <2>1. n \in Mac
      BY <1>1, <1>2, UphillOfUplink, HostsAreMacs DEF Path
    <2>2. p \in Uphill(n)
      BY <1>2, <2>1, UphillOfUplink
    <2>3. n \notin Path(p)
      BY <2>1, <2>2, NoneAboveItself
    <2>4. Path(p) \subseteq Path(n)
      BY <2>2, PathOfPath DEF Path
    <2>5. QED BY <2>1, <2>2, <2>3, <2>4
  <1>5. k \in Path(p)
    <2>1. Toward(g, p) \in Path(p) \ {Gateway} /\ uplink[Toward(g, p)] = g
      BY <1>1, TowardDown
    <2>2. Toward(g, p) \in Path(h) \ {Gateway}
      BY <1>1, <2>1, PathOfPath DEF Path
    <2>3. k = Toward(g, h) /\ Toward(g, p) = Toward(g, h)
      BY <1>1, <1>3, <2>1, <2>2, TowardDown
    <2>4. QED BY <2>1, <2>3
  <1> HIDE DEF all, n, k, g
  <1>6. Below(n) \subseteq Below(k)
    <2>1. ASSUME NEW x \in Below(n) PROVE x \in Below(k)
      <3>1. x \in Mac /\ Path(n) \subseteq Path(x)
        BY <2>1, PathOfPath DEF Below
      <3>2. QED BY <1>4, <1>5, <3>1 DEF Below
    <2>2. QED BY <2>1
  <1>7. p \in Below(k) /\ p \notin Below(n) /\ p # h
    <2>1. h \notin Uphill(h)
      BY <1>1, UphillOfUplink
    <2>2. QED BY <1>1, <1>4, <1>5, <2>1 DEF Below
  <1>8. Shared(all, hs, e) = (Below(n) \cap hs) \ {h} /\ Shared(all, hs, f) = (Below(k) \cap hs) \ {h}
    BY <1>2, <1>3 DEF Shared
  <1>9. Shared(all, hs, e) \subseteq Shared(all, hs, f) /\ Shared(all, hs, e) # Shared(all, hs, f)
    BY <1>1, <1>6, <1>7, <1>8
  <1>10. IsFiniteSet(Shared(all, hs, f))
    BY ClaimKeyIsKey DEF all
  <1>11. /\ Cardinality(Shared(all, hs, e)) \in Nat /\ Cardinality(Shared(all, hs, f)) \in Nat
         /\ Cardinality(Shared(all, hs, e)) + 1 <= Cardinality(Shared(all, hs, f))
    BY <1>9, <1>10, StrictSubsetIsSmaller
  <1>12. QED BY <1>11 DEF all

\* So every host that answers claims the nearest host above it.
LEMMA ClaimsNearest ==
    ASSUME uplink \in Wirings, NEW hs \in SUBSET Host, Gateway \in hs
    PROVE  /\ \A h \in hs \ {Gateway} : \E e \in Claimed(Tables(hs), hs) : e[1] = h
           /\ \A e \in Claimed(Tables(hs), hs) : Nearest(hs, e[1], e[2])
  <1> DEFINE all == Tables(hs)
  <1>1. ASSUME NEW h \in hs \ {Gateway}
        PROVE  \E p : Nearest(hs, h, p) /\ \E e \in Offers(all, hs, h) : e.at = p /\ e.mac = h
    <2>1. h \in Mac /\ Gateway \in Uphill(h) \cap hs
      BY GatewayIsOnTop, HostsAreMacs DEF Path
    <2>2. PICK p : Nearest(hs, h, p)
      BY <2>1, NearestExists
    <2>3. p \in hs /\ p \in Uphill(h) /\ p # h
      BY <2>1, <2>2, UphillOfUplink DEF Nearest
    <2>4. PICK e \in all : e.at = p /\ e.mac = h
      BY <2>1, <2>3, TableEntries
    <2>5. e \in Offers(all, hs, h)
      BY <2>3, <2>4, OffersFaceDown
    <2>6. QED BY <2>2, <2>4, <2>5
  <1>2. ASSUME NEW c \in Claimed(all, hs) PROVE Nearest(hs, c[1], c[2])
    <2> DEFINE h == c[1]
    <2>1. PICK f : BestOffer(all, hs, h, f) /\ c = <<h, f.at>>
      BY ClaimedEdges
    <2>2. h \in hs \ {Gateway}
      BY ClaimedEdges DEF Edge
    <2>0. PICK p : Nearest(hs, h, p) /\ \E e \in Offers(all, hs, h) : e.at = p /\ e.mac = h
      BY <1>1, <2>2
    <2>3. PICK e \in Offers(all, hs, h) : e.at = p /\ e.mac = h
      BY <2>0
    <2>4. f \in all /\ e \in all /\ f \in Offers(all, hs, h)
      BY <2>1, <2>3, OffersOf DEF BestOffer
    <2>5. f.mac = h /\ f.at \in Uphill(h)
      BY <2>2, <2>4, OffersFaceDown
    <2>6. f.at = p
      <3>1. SUFFICES ASSUME f.at # p PROVE FALSE
        OBVIOUS
      <3>2. Cardinality(Shared(all, hs, e)) < Cardinality(Shared(all, hs, f))
        BY <2>0, <2>2, <2>3, <2>4, <2>5, <3>1, NearestSharesLess
      <3>3. Less(ClaimKey(all, hs, f), ClaimKey(all, hs, e))
        BY <2>1, <2>3, <3>1 DEF BestOffer
      <3>4. /\ ClaimKey(all, hs, f) \in Tuples(4) /\ ClaimKey(all, hs, e) \in Tuples(4)
            /\ ClaimKey(all, hs, f)[1] = Cardinality(Shared(all, hs, f))
            /\ ClaimKey(all, hs, e)[1] = Cardinality(Shared(all, hs, e))
            /\ Cardinality(Shared(all, hs, f)) \in Nat /\ Cardinality(Shared(all, hs, e)) \in Nat
        BY <2>4, ClaimKeyIsKey
      <3>5. ClaimKey(all, hs, f)[1] <= ClaimKey(all, hs, e)[1]
        BY <3>3, <3>4, LessComparesFirst
      <3>6. QED BY <3>2, <3>4, <3>5
    <2>7. c[2] = p
      BY <2>1, <2>6
    <2>8. QED BY <2>0, <2>7
  <1>3. ASSUME NEW h \in hs \ {Gateway} PROVE \E e \in Claimed(all, hs) : e[1] = h
    BY <1>1, ClaimedEdges
  <1>4. QED BY <1>2, <1>3
-----------------------------------------------------------------------------
(* The gateway's answer leaves nothing to break                            *)

LEMMA NothingToBreak ==
    ASSUME NEW p \in Graph, \A n : n \notin Above(p, n)
    PROVE  BreakCycles(p) = p
  <1>1. \A s : BreakFrom(p, s) = p
    BY DEF BreakFrom
  <1>2. PICK r : /\ r[0] = p
                 /\ \A k \in 1 .. Len(Order) : r[k] = BreakFrom(r[k - 1], Order[k])
                 /\ BreakCycles(p) = r[Len(Order)]
    BY BreakSteps
  <1> DEFINE T == {k \in Nat : k <= Len(Order) => r[k] = p}
  <1>3. 0 \in T
    BY <1>2
  <1>4. ASSUME NEW k \in Nat, k \in T PROVE k + 1 \in T
    <2>1. SUFFICES ASSUME k + 1 <= Len(Order) PROVE r[k + 1] = p
      OBVIOUS
    <2>2. Len(Order) \in Nat
      BY OrderIsSequence
    <2>3. r[k] = p /\ k + 1 \in 1 .. Len(Order) /\ (k + 1) - 1 = k
      BY <1>4, <2>1, <2>2
    <2>4. r[k + 1] = BreakFrom(r[k], Order[k + 1])
      BY <1>2, <2>3
    <2>5. QED BY <1>1, <2>3, <2>4
  <1> HIDE DEF T
  <1>5. Nat \subseteq T
    BY <1>3, <1>4, SetInduction
  <1>6. QED BY <1>2, <1>5, OrderIsSequence DEF T

\* Edges that lead up the cables lead nowhere else.
LEMMA EdgesLeadUp ==
    ASSUME uplink \in Wirings, NEW p \in SUBSET Edge, \A e \in p : e[2] \in Uphill(e[1])
    PROVE  \A n : Above(p, n) \subseteq Uphill(n) /\ n \notin Above(p, n)
  <1>1. p \in Graph /\ \A n, m : <<n, m>> \in p => m \in Uphill(n)
    <2>1. p \in Graph
      BY EdgesAreGraph
    <2>2. ASSUME NEW n, NEW m, <<n, m>> \in p PROVE m \in Uphill(n)
      <3> DEFINE e == <<n, m>>
      <3>1. e \in p /\ e[1] = n /\ e[2] = m
        BY <2>2
      <3>2. QED BY <3>1
    <2>3. QED BY <2>1, <2>2
  <1>2. ASSUME NEW n PROVE Above(p, n) \subseteq Uphill(n)
    <2>1. Parents(p, {n}) \subseteq Uphill(n)
      BY <1>1, ParentsOf
    <2>2. Parents(p, Uphill(n)) \subseteq Uphill(n)
      <3>1. ASSUME NEW k \in Parents(p, Uphill(n)) PROVE k \in Uphill(n)
        <4>1. PICK m \in Uphill(n) : <<m, k>> \in p
          BY <1>1, <3>1, ParentsOf
        <4>2. QED BY <1>1, <4>1, UphillOfUplink
      <3>2. QED BY <3>1
    <2>3. QED BY <1>1, <2>1, <2>2, AboveIsLeast
  <1>3. ASSUME NEW n PROVE n \notin Above(p, n)
    <2>1. n \in Above(p, n) => n \in Uphill(n)
      BY <1>2
    <2>2. n \in Uphill(n) => n \in Mac
      BY UphillOfUplink, HostsAreMacs
    <2>3. QED BY <2>1, <2>2, UphillOfUplink
  <1>4. QED BY <1>2, <1>3

LEMMA ResolvedWithGateway ==
    ASSUME uplink \in Wirings, NEW hs \in SUBSET Host, Gateway \in hs
    PROVE  /\ resolve_infra_parents(Tables(hs), hs) = Claimed(Tables(hs), hs)
           /\ \A e \in Claimed(Tables(hs), hs) : e[2] \in Uphill(e[1])
  <1> DEFINE c == Claimed(Tables(hs), hs)
  <1>1. c \subseteq Edge /\ \A e \in c : e[2] \in Uphill(e[1])
    BY ClaimedEdges, ClaimsNearest DEF Nearest
  <1>2. c \in Graph
    BY <1>1, EdgesAreGraph
  <1> HIDE DEF c
  <1>3. \A n : n \notin Above(c, n)
    BY <1>1, EdgesLeadUp
  <1>4. BreakCycles(c) = c
    BY <1>2, <1>3, NothingToBreak
  <1>5. QED BY <1>1, <1>4 DEF c, resolve_infra_parents

\* Every host that answers has the nearest one above it for its only parent.
LEMMA ParentIsNearest ==
    ASSUME uplink \in Wirings, NEW hs \in SUBSET Host, Gateway \in hs, NEW h \in hs \ {Gateway}
    PROVE  \E p : Nearest(hs, h, p) /\ Parents(resolve_infra_parents(Tables(hs), hs), {h}) = {p}
  <1> DEFINE c == Claimed(Tables(hs), hs)
  <1>1. PICK e \in c : e[1] = h
    BY ClaimsNearest
  <1>2. /\ Nearest(hs, h, e[2]) /\ \A f \in c : f[1] = h => f = e
    BY <1>1, ClaimsNearest, ClaimedEdges
  <1>3. Parents(c, {h}) = {e[2]}
    BY <1>1, <1>2 DEF Parents
  <1>4. QED BY <1>2, <1>3, ResolvedWithGateway
-----------------------------------------------------------------------------
(* Access ports                                                            *)

\* A client shares its own port with nobody, and every other port it is seen on.
LEMMA PortsOfClient ==
    ASSUME uplink \in Wirings, NEW hs \in SUBSET Host, NEW m \in Client, NEW f \in Tables(hs), f.mac = m
    PROVE  /\ f.at = uplink[m] => f.port = m /\ Cardinality(PortMacs(Tables(hs), f)) = 1
           /\ f.at # uplink[m] => Cardinality(PortMacs(Tables(hs), f)) > 1
  <1>1. m \in Mac \ {Gateway} /\ m \notin Host /\ uplink[m] \in Uphill(m)
    BY HostsAreMacs, UphillOfUplink
  <1>2. Learns(hs, f)
    BY TableEntries
  <1>3. /\ IsFiniteSet(PortMacs(Tables(hs), f)) /\ Cardinality(PortMacs(Tables(hs), f)) \in Nat
        /\ m \in PortMacs(Tables(hs), f)
    BY RankIsKey DEF PortMacs
  <1>4. CASE f.at = uplink[m]
    <2>1. f.port = Toward(f.at, m)
      BY <1>2 DEF Learns
    <2>2. m \in Path(m) \ {Gateway}
      BY <1>1 DEF Path
    <2>3. f.port = m
      BY <1>1, <1>4, <2>1, <2>2, TowardDown
    <2>4. PortMacs(Tables(hs), f) = Below(m)
      BY <1>1, <1>4, <2>3, PortFacingDown
    <2>5. Below(m) = {m}
      <3>1. \A x : m \notin Uphill(x)
        BY <1>1, UphillOfUplink
      <3>2. QED BY <1>1, <3>1 DEF Below, Path
    <2>6. Cardinality({m}) = 1
      BY FS_Singleton
    <2>7. QED BY <1>4, <2>3, <2>4, <2>5, <2>6
  <1>5. CASE f.at # uplink[m]
    <2>1. \E k \in PortMacs(Tables(hs), f) : k # m
      <3>1. CASE f.at \in Uphill(m)
        <4>1. f.port \in Path(m) \ {Gateway} /\ uplink[f.port] = f.at /\ PortMacs(Tables(hs), f) = Below(f.port)
          BY <3>1, PortFacingDown
        <4>2. f.port # m /\ f.port \in Mac
          BY <1>1, <1>5, <4>1, UphillOfUplink, HostsAreMacs DEF Path
        <4>3. f.port \in Below(f.port)
          BY <4>2 DEF Below, Path
        <4>4. QED BY <4>1, <4>2, <4>3
      <3>2. CASE f.at \notin Uphill(m)
        <4>1. f.at \in Mac \ {Gateway} /\ uplink[f.at] \in PortMacs(Tables(hs), f)
          BY <3>2, PortFacingUp
        <4>2. uplink[f.at] # m
          BY <1>1, <4>1, CableEdges
        <4>3. QED BY <4>1, <4>2
      <3>3. QED BY <3>1, <3>2
    <2>2. {m} \in SUBSET PortMacs(Tables(hs), f) /\ {m} # PortMacs(Tables(hs), f)
      BY <1>3, <2>1
    <2>3. Cardinality({m}) = 1
      BY FS_Singleton
    <2>4. Cardinality({m}) + 1 <= Cardinality(PortMacs(Tables(hs), f))
      BY <1>3, <2>2, StrictSubsetIsSmaller
    <2>5. QED BY <1>3, <1>5, <2>3, <2>4
  <1>6. QED BY <1>4, <1>5

LEMMA ClientIsPlaced ==
    ASSUME uplink \in Wirings, NEW hs \in SUBSET Host, NEW m \in Client, uplink[m] \in hs, NEW s, s[1] = m
    PROVE  s \in resolve_switch_ports(Tables(hs)) <=> s = <<m, uplink[m], m>>
  <1> DEFINE all == Tables(hs)
  <1>1. m \in Mac /\ uplink[m] # m
    BY HostsAreMacs, CableEdges
  <1>2. PICK f \in all : f.at = uplink[m] /\ f.mac = m
    BY <1>1, TableEntries
  <1>3. f.port = m /\ Cardinality(PortMacs(all, f)) = 1
    BY <1>2, PortsOfClient
  <1>4. f \in AccessPorts(all, m)
    BY <1>2, <1>3, TopologyAssumption DEF AccessPorts, Learned
  <1>5. ASSUME NEW w, Wins(all, m, w) PROVE w = f
    <2>1. w \in AccessPorts(all, m) /\ w \in all /\ w.mac = m
      BY <1>5, AccessPortsOf DEF Wins
    <2>2. SUFFICES ASSUME w # f PROVE FALSE
      OBVIOUS
    <2>3. w.at # uplink[m]
      BY <1>2, <1>4, <2>1, <2>2, AccessPortsOf
    <2>4. Cardinality(PortMacs(all, w)) > 1 /\ Cardinality(PortMacs(all, w)) \in Nat
      BY <2>1, <2>3, PortsOfClient, RankIsKey
    <2>5. Less(PortRank(all, w), PortRank(all, f))
      BY <1>4, <1>5, <2>2 DEF Wins
    <2>6. /\ PortRank(all, w) \in Tuples(3) /\ PortRank(all, w)[1] = Cardinality(PortMacs(all, w))
          /\ PortRank(all, f) \in Tuples(3) /\ PortRank(all, f)[1] = Cardinality(PortMacs(all, f))
      BY <1>2, <2>1, RankIsKey
    <2>7. PortRank(all, w)[1] <= PortRank(all, f)[1]
      BY <2>5, <2>6, LessComparesFirst
    <2>8. QED BY <1>3, <2>4, <2>6, <2>7
  <1>6. ASSUME NEW t \in resolve_switch_ports(all), t[1] = m PROVE t = <<m, uplink[m], m>>
    <2>1. PICK w : Wins(all, t[1], w) /\ t = <<t[1], w.at, w.port>>
      BY SwitchPorts
    <2>2. w = f
      BY <1>5, <1>6, <2>1
    <2>3. QED BY <1>2, <1>3, <1>6, <2>1, <2>2
  <1>7. \E t \in resolve_switch_ports(all) : t[1] = m
    BY <1>4, SwitchPorts
  <1>8. QED BY <1>6, <1>7
-----------------------------------------------------------------------------
(* The steps of the coordinator                                            *)

UphillIsKept == \A x : Uphill(x)' = Uphill(x)

LEMMA UphillUnchanged == uplink' = uplink => UphillIsKept
  BY DEF UphillIsKept, Uphill, Cables

LEMMA OverOf ==
    ASSUME NEW q \in SUBSET Edge, NEW p \in SUBSET Edge, Functional(q), Functional(p)
    PROVE  /\ Over(q, p) \subseteq Edge /\ Functional(Over(q, p))
           /\ Over(q, p) \subseteq q \cup p /\ Over({}, p) = p
           /\ Over(q, Over(q, p)) = Over(q, p)
  <1>1. Over(q, p) \subseteq q \cup p /\ Over({}, p) = p /\ Over(q, Over(q, p)) = Over(q, p)
    BY DEF Over
  <1>2. Functional(Over(q, p))
    BY DEF Over, Functional
  <1>3. QED BY <1>1, <1>2

\* Every scan resolves some part of the tables of the hosts it heard, and says
\* that it heard them only if it has all of it.
Resolves(hs, fdb) ==
    /\ infra_parents' = resolve_infra_parents(fdb, hs)
    /\ cache' = Over(infra_parents', cache)
    /\ host_topology' = Over(infra_parents', cache')
    /\ switch_ports' = resolve_switch_ports(fdb)
    /\ heard' = {} \/ (heard' = hs /\ fdb = Tables(hs))
    /\ anchored' = (anchored /\ (infra_parents' = {} \/ Gateway \in heard'))
    /\ uplink' = uplink

LEMMA ScanResolves ==
    ASSUME Scan
    PROVE  \E hs \in SUBSET Host : \E fdb \in SUBSET Tables(hs) : Resolves(hs, fdb)
  <1>1. PICK hs \in SUBSET Host : \E fdb \in {Tables(hs)} \cup Forgetful(Tables(hs)) :
            /\ infra_parents' = resolve_infra_parents(fdb, hs)
            /\ cache' = Over(infra_parents', cache)
            /\ host_topology' = Over(infra_parents', cache')
            /\ switch_ports' = resolve_switch_ports(fdb)
            /\ heard' = IF fdb = Tables(hs) THEN hs ELSE {}
            /\ anchored' = (anchored /\ (infra_parents' = {} \/ Gateway \in heard'))
            /\ UNCHANGED uplink
    BY DEF Scan
  <1>2. PICK fdb \in {Tables(hs)} \cup Forgetful(Tables(hs)) :
            /\ infra_parents' = resolve_infra_parents(fdb, hs)
            /\ cache' = Over(infra_parents', cache)
            /\ host_topology' = Over(infra_parents', cache')
            /\ switch_ports' = resolve_switch_ports(fdb)
            /\ heard' = IF fdb = Tables(hs) THEN hs ELSE {}
            /\ anchored' = (anchored /\ (infra_parents' = {} \/ Gateway \in heard'))
            /\ UNCHANGED uplink
    BY <1>1
  <1>3. fdb \in SUBSET Tables(hs)
    BY <1>2 DEF Forgetful
  <1>4. heard' = {} \/ (heard' = hs /\ fdb = Tables(hs))
    BY <1>2
  <1>5. Resolves(hs, fdb)
    BY <1>2, <1>4 DEF Resolves
  <1>6. QED BY <1>3, <1>5

-----------------------------------------------------------------------------
(* The invariant.  What is published is what is remembered, so that it is   *)
(* enough to follow the remembered edges.                                   *)

PublishesCache == host_topology = cache
CacheLeadsUp   == anchored => \A e \in cache : e[2] \in Uphill(e[1])

IInv ==
    /\ TypeOK /\ ResolvedIsForest /\ PublishesCache /\ CacheLeadsUp
    /\ GatewayGivesDirection /\ AccessPortIsExact

LEMMA InitEstablishes == Init => IInv
  <1> SUFFICES ASSUME Init PROVE IInv
    OBVIOUS
  <1>1. TypeOK
    BY DEF Init, TypeOK
  <1>2. ResolvedIsForest /\ PublishesCache /\ CacheLeadsUp
    BY DEF Init, ResolvedIsForest, IsForest, PublishesCache, CacheLeadsUp
  <1>3. GatewayGivesDirection /\ AccessPortIsExact
    BY DEF Init, GatewayGivesDirection, AccessPortIsExact
  <1>4. QED BY <1>1, <1>2, <1>3 DEF IInv

LEMMA ScanKeeps ==
    ASSUME IInv, Scan
    PROVE  IInv'
  <1>0. PICK hs \in SUBSET Host : \E fdb \in SUBSET Tables(hs) : Resolves(hs, fdb)
    BY ScanResolves
  <1>1. PICK fdb \in SUBSET Tables(hs) : Resolves(hs, fdb)
    BY <1>0
  <1>2. uplink \in Wirings /\ cache \in SUBSET Edge /\ Functional(cache) /\ anchored \in BOOLEAN
    BY DEF IInv, TypeOK, Functional
  <1>3. /\ infra_parents' \subseteq Edge /\ Functional(infra_parents') /\ IsForest(infra_parents')
        /\ infra_parents' \subseteq Claimed(fdb, hs)
    <2> DEFINE r == resolve_infra_parents(fdb, hs)
    <2>1. /\ r \subseteq Edge /\ Functional(r) /\ IsForest(r)
          /\ r \subseteq Claimed(fdb, hs)
      BY <1>2, ResolvedParents
    <2>2. infra_parents' = r
      BY <1>1 DEF Resolves
    <2>3. QED BY <2>1, <2>2
  <1>4. /\ cache' \subseteq Edge /\ Functional(cache') /\ host_topology' = cache'
        /\ cache' \subseteq infra_parents' \cup cache
        /\ infra_parents' = {} => cache' = cache
    <2> DEFINE q == infra_parents'
    <2>1. q \in SUBSET Edge /\ cache \in SUBSET Edge /\ Functional(q) /\ Functional(cache)
      BY <1>2, <1>3
    <2>2. cache' = Over(q, cache) /\ host_topology' = Over(q, cache')
      BY <1>1 DEF Resolves
    <2> HIDE DEF q
    <2>3. /\ Over(q, cache) \subseteq Edge /\ Functional(Over(q, cache))
          /\ Over(q, cache) \subseteq q \cup cache /\ Over({}, cache) = cache
          /\ Over(q, Over(q, cache)) = Over(q, cache)
      BY <2>1, OverOf
    <2>4. QED BY <2>2, <2>3 DEF q
  <1>5. uplink' = uplink /\ UphillIsKept
    BY <1>1, UphillUnchanged DEF Resolves
  <1>6. TypeOK'
    <2>1. \A p \in {cache', host_topology', infra_parents'} :
             p \subseteq Edge /\ \A e, f \in p : e[1] = f[1] => e = f
      BY <1>3, <1>4 DEF Functional
    <2>2. switch_ports' \subseteq Client \X Host \X Mac
      BY <1>1, <1>2, SwitchPorts DEF Resolves
    <2>3. heard' \subseteq Host /\ anchored' \in BOOLEAN
      BY <1>1, <1>2 DEF Resolves
    <2>4. QED BY <1>2, <1>5, <2>1, <2>2, <2>3 DEF TypeOK
  <1>7. ResolvedIsForest' /\ PublishesCache'
    BY <1>3, <1>4 DEF ResolvedIsForest, PublishesCache
  <1>8. CacheLeadsUp'
    <2>1. SUFFICES ASSUME anchored', NEW e \in cache' PROVE e[2] \in Uphill(e[1])
      BY <1>5 DEF CacheLeadsUp, UphillIsKept
    <2>2. anchored /\ (infra_parents' = {} \/ Gateway \in heard')
      BY <1>1, <2>1 DEF Resolves
    <2>3. \A f \in cache : f[2] \in Uphill(f[1])
      BY <2>2 DEF IInv, CacheLeadsUp
    <2>4. CASE infra_parents' = {}
      BY <1>4, <2>1, <2>3, <2>4
    <2>5. CASE Gateway \in heard'
      <3>1. heard' = hs /\ fdb = Tables(hs) /\ Gateway \in hs
        BY <1>1, <2>5 DEF Resolves
      <3>2. \A f \in infra_parents' : f[2] \in Uphill(f[1])
        BY <1>2, <1>3, <3>1, ResolvedWithGateway
      <3>3. QED BY <1>4, <2>1, <2>3, <3>2
    <2>6. QED BY <2>2, <2>4, <2>5
  <1>9. GatewayGivesDirection'
    <2>1. SUFFICES ASSUME Gateway \in heard', NEW h \in heard' \ {Gateway}
                   PROVE  \E p \in Uphill(h) \cap heard' :
                             /\ Parents(infra_parents', {h}) = {p}
                             /\ (Uphill(h) \cap heard') \ {p} \subseteq Uphill(p)
      BY <1>5 DEF GatewayGivesDirection, UphillIsKept, Parents
    <2>2. /\ heard' = hs /\ Gateway \in hs
          /\ infra_parents' = resolve_infra_parents(Tables(hs), hs)
      BY <1>1, <2>1 DEF Resolves
    <2>3. PICK p : Nearest(hs, h, p) /\ Parents(infra_parents', {h}) = {p}
      BY <1>2, <2>1, <2>2, ParentIsNearest
    <2>4. QED BY <2>2, <2>3 DEF Nearest
  <1>10. AccessPortIsExact'
    <2>1. SUFFICES ASSUME NEW m \in Client, uplink[m] \in heard', NEW s \in Client \X Host \X Mac, s[1] = m
                   PROVE  s \in switch_ports' <=> s = <<m, uplink[m], m>>
      BY <1>5 DEF AccessPortIsExact
    <2>2. heard' = hs /\ switch_ports' = resolve_switch_ports(Tables(hs))
      BY <1>1, <2>1 DEF Resolves
    <2>3. QED BY <1>2, <2>1, <2>2, ClientIsPlaced
  <1>11. QED BY <1>6, <1>7, <1>8, <1>9, <1>10 DEF IInv

\* Until the next scan nothing is claimed of what the last one resolved.
LEMMA NothingHeard ==
    ASSUME infra_parents' = {}, heard' = {}
    PROVE  ResolvedIsForest' /\ GatewayGivesDirection' /\ AccessPortIsExact'
  BY DEF ResolvedIsForest, IsForest, GatewayGivesDirection, AccessPortIsExact

LEMMA RewireKeeps ==
    ASSUME IInv, Rewire
    PROVE  IInv'
  <1>1. PICK n \in Mac \ {Gateway}, h \in Host :
            /\ h \notin {n, uplink[n]} /\ n \notin Above(Cables(uplink), h)
            /\ uplink' = [uplink EXCEPT ![n] = h]
    BY DEF Rewire
  <1>2. /\ infra_parents' = {} /\ switch_ports' = {} /\ heard' = {}
        /\ anchored' = (anchored /\ cache = {}) /\ cache' = cache /\ host_topology' = host_topology
    BY DEF Rewire
  <1>3. uplink' \in Wirings
    BY <1>1, RewiredIsWiring DEF IInv, TypeOK, Uphill
  <1>4. TypeOK'
    BY <1>2, <1>3 DEF IInv, TypeOK
  <1>5. PublishesCache' /\ CacheLeadsUp'
    BY <1>2 DEF IInv, TypeOK, PublishesCache, CacheLeadsUp
  <1>6. QED BY <1>2, <1>4, <1>5, NothingHeard DEF IInv

LEMMA ReloadKeeps ==
    ASSUME IInv, Reload
    PROVE  IInv'
  <1>1. TypeOK'
    BY DEF IInv, Reload, TypeOK
  <1>2. PublishesCache' /\ CacheLeadsUp'
    BY DEF Reload, PublishesCache, CacheLeadsUp
  <1>3. QED BY <1>1, <1>2, NothingHeard DEF IInv, Reload

LEMMA StutterKeeps ==
    ASSUME IInv, UNCHANGED vars
    PROVE  IInv'
  <1>1. uplink' = uplink /\ UphillIsKept
    BY UphillUnchanged DEF vars
  <1>2. TypeOK' /\ ResolvedIsForest' /\ PublishesCache'
    <2>1. TypeOK'
      BY DEF IInv, vars, TypeOK
    <2>2. ResolvedIsForest'
      BY DEF IInv, vars, ResolvedIsForest
    <2>3. PublishesCache'
      BY DEF IInv, vars, PublishesCache
    <2>4. QED BY <2>1, <2>2, <2>3
  <1>3. CacheLeadsUp'
    BY <1>1 DEF IInv, vars, CacheLeadsUp, UphillIsKept
  <1>4. GatewayGivesDirection' /\ AccessPortIsExact'
    BY <1>1 DEF IInv, vars, GatewayGivesDirection, AccessPortIsExact, UphillIsKept, Parents
  <1>5. QED BY <1>2, <1>3, <1>4 DEF IInv

LEMMA Invariance == Spec => []IInv
  <1>1. IInv /\ [Next]_vars => IInv'
    BY ScanKeeps, RewireKeeps, ReloadKeeps, StutterKeeps DEF Next
  <1>2. QED BY InitEstablishes, <1>1, PTL DEF Spec

-----------------------------------------------------------------------------
(* The theorems                                                            *)

\* Every host has at most one parent, resolved, remembered or published, and the
\* cables form a tree whatever is moved.
THEOREM TypeCorrect == Spec => []TypeOK
  <1>1. IInv => TypeOK
    BY DEF IInv
  <1>2. QED BY Invariance, <1>1, PTL

\* "The result is guaranteed acyclic": whichever hosts answer, and whatever their
\* tables lack, the parents resolve_infra_parents returns form a forest.
THEOREM ParentsAreAcyclic == Spec => []ResolvedIsForest
  <1>1. IInv => ResolvedIsForest
    BY DEF IInv
  <1>2. QED BY Invariance, <1>1, PTL

\* With the gateway's answer and complete tables, the one parent a host is given is
\* the nearest host above it that answers, however many hosts are in between.
THEOREM GatewayDirects == Spec => []GatewayGivesDirection
  <1>1. IInv => GatewayGivesDirection
    BY DEF IInv
  <1>2. QED BY Invariance, <1>1, PTL

\* Edges of _infra_parent_cache that stem from different scans, with the gateway and
\* before any cable is moved, all lead towards the gateway.
THEOREM CacheLeadsToGateway == Spec => []RememberedEdgesLeadUp
  <1>1. IInv => RememberedEdgesLeadUp
    BY DEF IInv, PublishesCache, CacheLeadsUp, RememberedEdgesLeadUp
  <1>2. QED BY Invariance, <1>1, PTL

\* A client whose host answers is attributed to exactly the port it is plugged
\* into, for every threshold, since no other port carries so few MACs.
THEOREM ClientsArePlaced == Spec => []AccessPortIsExact
  <1>1. IInv => AccessPortIsExact
    BY DEF IInv
  <1>2. QED BY Invariance, <1>1, PTL
=============================================================================
