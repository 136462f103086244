--------------------------- MODULE DataStructureProofs ---------------------------
(***************************************************************************)
(* A list breaks only where GenericList says, and the sort of one that has *)
(* not sorts, whatever the blocks and the elements are; no letter that all *)
(* names share is missed, whatever the names are.  Recursive functions     *)
(* exist by RecursionDefined, and what they return for every argument      *)
(* follows from the least argument for which it would be wrong.            *)
(***************************************************************************)
EXTENDS GenericList, RockProblem, FiniteSetTheorems, WellFoundedInduction, TLAPS

-----------------------------------------------------------------------------
(* Recursion.                                                              *)

(* A set of numbers that is not empty has a least one: instead of an induction, the
   proofs below look at the least number for which something is wrong. *)
LEMMA Smallest ==
  ASSUME NEW T \in SUBSET Nat, T # {}
  PROVE  \E n \in T : \A m \in T : n <= m
<1>1. IsWellFoundedOn(OpToRel(<, Nat), Nat)
  BY NatLessThanWellFounded
<1>2. PICK R : R = OpToRel(<, Nat)
  OBVIOUS
<1>3. PICK n \in T : \A m \in T : ~(<<m, n>> \in R)
  BY <1>1, <1>2, WFMin
<1>4. \A m, k \in Nat : m < k => <<m, k>> \in R
  BY <1>2 DEF OpToRel
<1>5. \A m \in T : n \in Nat /\ m \in Nat /\ ~(m < n)
  BY <1>3, <1>4
<1> QED BY <1>5

(* G(x, g) looks at g only below x. *)
Local(S, V, size, G) ==
  \A x \in S : \A g, h \in [S -> V] :
    (\A y \in S : size[y] < size[x] => g[y] = h[y]) => G[x][g] = G[x][h]

(* G[x][g] is the body of a recursive function on S with values in V, for the argument x
   and the function g it calls, with arguments of a smaller size. *)
Recursive(S, V, size, G) ==
  /\ V # {}
  /\ size \in [S -> Nat]
  /\ G \in [S -> [[S -> V] -> V]]
  /\ Local(S, V, size, G)

Solved(S, V, G) == \E f \in [S -> V] : \A x \in S : f[x] = G[x][f]

(* f is the function for arguments of a size below n. *)
Solves(S, size, G, n, f) == \A x \in S : size[x] < n => f[x] = G[x][f]

(* Such a function exists. *)
LEMMA RecursionDefined ==
  ASSUME NEW S, NEW V, NEW size, NEW G, Recursive(S, V, size, G)
  PROVE  Solved(S, V, G)
<1>0. /\ V # {} /\ size \in [S -> Nat] /\ G \in [S -> [[S -> V] -> V]]
      /\ Local(S, V, size, G)
  BY DEF Recursive
<1> USE <1>0
<1>1. \A n \in Nat : \E f \in [S -> V] : Solves(S, size, G, n, f)
  <2> DEFINE wrong == {n \in Nat : \A f \in [S -> V] : ~Solves(S, size, G, n, f)}
  <2> SUFFICES ASSUME wrong # {} PROVE FALSE
    OBVIOUS
  <2>1. PICK n \in wrong : \A m \in wrong : n <= m
    <3>1. wrong \in SUBSET Nat
      OBVIOUS
    <3> HIDE DEF wrong
    <3> QED BY <3>1, Smallest
  <2>2. n # 0
    <3>1. PICK v \in V : TRUE
      OBVIOUS
    <3>2. [x \in S |-> v] \in [S -> V]
      OBVIOUS
    <3>3. Solves(S, size, G, 0, [x \in S |-> v])
      BY DEF Solves
    <3> QED BY <3>2, <3>3
  <2>3. n - 1 \in Nat /\ n - 1 \notin wrong
    <3>1. n - 1 \in Nat /\ ~(n <= n - 1)
      BY <2>2
    <3> HIDE DEF wrong
    <3> QED BY <2>1, <3>1
  <2>4. PICK f \in [S -> V] : Solves(S, size, G, n - 1, f)
    BY <2>3
  <2>5. PICK g \in [S -> V] : g = [x \in S |-> G[x][f]]
    <3>1. [x \in S |-> G[x][f]] \in [S -> V]
      OBVIOUS
    <3> QED BY <3>1
  <2>6. ASSUME NEW x \in S, size[x] < n
        PROVE  g[x] = G[x][g]
    <3>1. \A y \in S : size[y] < size[x] => g[y] = f[y]
      BY <2>3, <2>4, <2>5, <2>6 DEF Solves
    <3>2. G[x][g] = G[x][f]
      BY <3>1 DEF Local
    <3> QED BY <2>5, <3>2
  <2> QED BY <2>6 DEF Solves
<1>2. ASSUME NEW m \in Nat, NEW n \in Nat, m <= n, NEW f \in [S -> V], NEW g \in [S -> V],
             Solves(S, size, G, m, f), Solves(S, size, G, n, g)
      PROVE  \A x \in S : size[x] < m => f[x] = g[x]
  <2> DEFINE wrong == {k \in Nat : \E x \in S : size[x] = k /\ k < m /\ f[x] # g[x]}
  <2>1. CASE wrong = {}
    BY <2>1
  <2>2. CASE wrong # {}
    <3>1. PICK k \in wrong : \A i \in wrong : k <= i
      <4>1. wrong \in SUBSET Nat
        OBVIOUS
      <4> HIDE DEF wrong
      <4> QED BY <2>2, <4>1, Smallest
    <3>2. PICK x \in S : size[x] = k /\ k < m /\ f[x] # g[x]
      BY <3>1
    <3>3. \A y \in S : size[y] < size[x] => f[y] = g[y]
      BY <3>1, <3>2
    <3>4. G[x][f] = G[x][g]
      BY <3>3 DEF Local
    <3>5. f[x] = G[x][f] /\ g[x] = G[x][g]
      BY <1>2, <3>2 DEF Solves
    <3> QED BY <3>2, <3>4, <3>5
  <2> QED BY <2>1, <2>2
<1>3. PICK F \in [Nat -> [S -> V]] : \A n \in Nat : Solves(S, size, G, n, F[n])
  <2> DEFINE F == [n \in Nat |-> CHOOSE f \in [S -> V] : Solves(S, size, G, n, f)]
  <2>1. \A n \in Nat : F[n] \in [S -> V] /\ Solves(S, size, G, n, F[n])
    BY <1>1
  <2>2. F \in [Nat -> [S -> V]]
    BY <2>1
  <2> QED BY <2>1, <2>2
<1>4. PICK f \in [S -> V] : \A x \in S : f[x] = F[size[x] + 1][x]
  <2>1. [x \in S |-> F[size[x] + 1][x]] \in [S -> V]
    OBVIOUS
  <2> QED BY <2>1
<1>5. ASSUME NEW x \in S
      PROVE  f[x] = G[x][f]
  <2>0. PICK n \in Nat : n = size[x] + 1 /\ size[x] < n
    <3>1. size[x] \in Nat
      OBVIOUS
    <3> QED BY <3>1
  <2>1. PICK g \in [S -> V] : g = F[n]
    OBVIOUS
  <2>2. Solves(S, size, G, n, g) /\ f[x] = g[x]
    BY <1>3, <1>4, <2>0, <2>1, Zenon
  <2>3. ASSUME NEW y \in S, size[y] < size[x]
        PROVE  f[y] = g[y]
    <3>0. PICK m \in Nat : m = size[y] + 1 /\ m <= n /\ size[y] < m
      <4>1. PICK a \in Nat, b \in Nat : a = size[y] /\ b = size[x]
        OBVIOUS
      <4>2. a + 1 \in Nat /\ a + 1 <= n /\ a < a + 1
        BY <4>1, <2>0, <2>3
      <4> QED BY <4>1, <4>2
    <3>1. PICK h \in [S -> V] : h = F[m]
      OBVIOUS
    <3>2. Solves(S, size, G, m, h) /\ f[y] = h[y]
      BY <1>3, <1>4, <3>0, <3>1, Zenon
    <3>3. \A z \in S : size[z] < m => h[z] = g[z]
      BY <1>2, <2>2, <3>0, <3>2, Zenon
    <3> QED BY <3>0, <3>2, <3>3, Zenon
  <2>4. G[x][f] = G[x][g]
    BY <2>3 DEF Local
  <2>5. g[x] = G[x][g]
    BY <2>0, <2>2 DEF Solves
  <2> QED BY <2>2, <2>4, <2>5
<1> QED BY <1>5 DEF Solved

-----------------------------------------------------------------------------
(* The list as a chain of blocks.                                          *)

Types ==
  /\ head \in Pointer
  /\ next \in [Block -> Pointer]
  /\ data \in [Block -> Value]

(* s holds the blocks of the list from h on, linked by nx. *)
Chain(h, nx, s) ==
  /\ s \in Seq(Block)
  /\ h = HeadOf(s)
  /\ \A i \in 1 .. Len(s) : nx[s[i]] = IF i < Len(s) THEN s[i + 1] ELSE NULL
  /\ \A i, l \in 1 .. Len(s) : s[i] = s[l] => i = l

(* The blocks it holds. *)
Blocks(s) == {s[i] : i \in 1 .. Len(s)}

(* The recursive function of Walk exists. *)
LEMMA WalkDefined ==
  ASSUME Types
  PROVE  \E node \in [1 .. Cardinality(Block) -> Pointer] :
           /\ Walk = [i \in {i \in 1 .. Cardinality(Block) : node[i] # NULL} |-> node[i]]
           /\ \A i \in 1 .. Cardinality(Block) :
                node[i] = IF i = 1 THEN head
                          ELSE IF node[i - 1] = NULL THEN NULL ELSE next[node[i - 1]]
<1>1. PICK S : S = 1 .. Cardinality(Block)
  OBVIOUS
<1> DEFINE body(i, g) == IF i = 1 THEN head ELSE IF g[i - 1] = NULL THEN NULL ELSE next[g[i - 1]]
           Eq(g) == g = [i \in 1 .. Cardinality(Block) |-> body(i, g)]
           node == CHOOSE g : Eq(g)
           G == [i \in S |-> [g \in [S -> Pointer] |-> body(i, g)]]
           size == [i \in S |-> i]
<1>2. S \subseteq Nat /\ \A i \in S : i # 1 => i - 1 \in S /\ i - 1 < i
  <2>1. Cardinality(Block) \in Nat
    BY FS_CardinalityType, ListAssumption DEF ListAssumption
  <2> QED BY <1>1, <2>1
<1>3. \A i \in S : \A g \in [S -> Pointer] : body(i, g) \in Pointer
  BY <1>2 DEF Types, Pointer
<1>4. G \in [S -> [[S -> Pointer] -> Pointer]] /\ size \in [S -> Nat] /\ Pointer # {}
  BY <1>2, <1>3 DEF Pointer
<1>5. \A i \in S : \A g \in [S -> Pointer] : G[i][g] = body(i, g)
  OBVIOUS
<1>6. Local(S, Pointer, size, G)
  <2> SUFFICES ASSUME NEW i \in S, NEW g \in [S -> Pointer], NEW h \in [S -> Pointer],
                      \A y \in S : size[y] < size[i] => g[y] = h[y]
               PROVE  G[i][g] = G[i][h]
    BY DEF Local
  <2>1. i # 1 => g[i - 1] = h[i - 1]
    BY <1>2
  <2>2. body(i, g) = body(i, h)
    BY <2>1
  <2> HIDE DEF G, body
  <2> QED BY <1>5, <2>2
<1>7. PICK f \in [S -> Pointer] : \A i \in S : f[i] = G[i][f]
  <2>1. Recursive(S, Pointer, size, G)
    BY <1>4, <1>6 DEF Recursive
  <2> HIDE DEF G, size
  <2> QED BY <2>1, RecursionDefined DEF Solved
<1>8. Eq(f)
  <2>1. \A i \in S : f[i] = body(i, f)
    BY <1>5, <1>7
  <2> HIDE DEF body
  <2> QED BY <1>1, <2>1
<1>9. Eq(node)
  <2> HIDE DEF Eq
  <2> QED BY <1>8
<1>10. Walk = [i \in {i \in 1 .. Cardinality(Block) : node[i] # NULL} |-> node[i]]
  BY Zenon DEF Walk
<1> HIDE DEF node
<1>11. \A i \in 1 .. Cardinality(Block) : node[i] = body(i, node)
  BY <1>9
<1>12. node \in [1 .. Cardinality(Block) -> Pointer]
  <2> DEFINE wrong == {i \in S : node[i] \notin Pointer}
  <2>1. CASE wrong # {}
    <3>1. PICK i \in wrong : \A m \in wrong : i <= m
      <4>1. wrong \in SUBSET Nat
        BY <1>2
      <4> HIDE DEF wrong
      <4> QED BY <2>1, <4>1, Smallest
    <3>2. i # 1 => node[i - 1] \in Pointer
      BY <1>2, <3>1
    <3>3. node[i] \in Pointer
      BY <1>1, <1>11, <3>2 DEF Types, Pointer
    <3> QED BY <3>1, <3>3
  <2>2. CASE wrong = {}
    BY <1>1, <1>9, <2>2
  <2> QED BY <2>1, <2>2
<1> QED BY <1>10, <1>11, <1>12

(* A chain meets no block twice, so it is no longer than there are blocks. *)
LEMMA ChainCounted ==
  ASSUME NEW h, NEW nx, NEW s, Chain(h, nx, s)
  PROVE  /\ Len(s) \in Nat /\ DOMAIN s = 1 .. Len(s) /\ \A i \in 1 .. Len(s) : s[i] \in Block
         /\ IsFiniteSet(Blocks(s)) /\ Cardinality(Blocks(s)) = Len(s)
         /\ Len(s) <= Cardinality(Block) /\ Cardinality(Block) \in Nat
<1>1. s \in Seq(Block) /\ \A i, l \in 1 .. Len(s) : s[i] = s[l] => i = l
  BY DEF Chain
<1>2. Len(s) \in Nat /\ DOMAIN s = 1 .. Len(s) /\ \A i \in 1 .. Len(s) : s[i] \in Block
  BY <1>1
<1>3. s \in Bijection(1 .. Len(s), Blocks(s))
  <2>1. s \in [1 .. Len(s) -> Blocks(s)]
    BY <1>1 DEF Blocks
  <2>2. s \in Injection(1 .. Len(s), Blocks(s))
    BY <1>1, <2>1 DEF Injection, IsInjective
  <2>3. s \in Surjection(1 .. Len(s), Blocks(s))
    BY <2>1 DEF Surjection, Blocks
  <2> QED BY <2>2, <2>3 DEF Bijection
<1>4. ExistsBijection(1 .. Len(s), Blocks(s))
  BY <1>3 DEF ExistsBijection
<1>5. Cardinality(Blocks(s)) = Len(s)
  BY <1>2, <1>4, FS_CountingElements
<1>6. Blocks(s) \subseteq Block
  BY <1>2 DEF Blocks
<1>7. IsFiniteSet(Blocks(s)) /\ Cardinality(Blocks(s)) <= Cardinality(Block)
  BY <1>6, ListAssumption, FS_Subset DEF ListAssumption
<1>8. Cardinality(Block) \in Nat
  BY ListAssumption, FS_CardinalityType DEF ListAssumption
<1> QED BY <1>2, <1>5, <1>7, <1>8

(* The walk along a chain visits all of it. *)
LEMMA WalkIsChain ==
  ASSUME Types, NEW s, Chain(head, next, s)
  PROVE  Walk = s
<1>1. PICK N \in Nat, n \in Nat : N = Cardinality(Block) /\ n = Len(s) /\ n <= N
  BY ChainCounted
<1>2. PICK node \in [1 .. N -> Pointer] :
        /\ Walk = [i \in {i \in 1 .. N : node[i] # NULL} |-> node[i]]
        /\ \A i \in 1 .. N :
             node[i] = IF i = 1 THEN head
                       ELSE IF node[i - 1] = NULL THEN NULL ELSE next[node[i - 1]]
  BY <1>1, WalkDefined
<1>3. /\ s \in Seq(Block) /\ \A i \in 1 .. n : s[i] \in Block
      /\ head = IF n = 0 THEN NULL ELSE s[1]
      /\ \A i \in 1 .. n : next[s[i]] = IF i < n THEN s[i + 1] ELSE NULL
      /\ NULL \notin Block
  <2>1. head = HeadOf(s)
    BY DEF Chain
  <2>2. s = <<>> <=> n = 0
    BY <1>1 DEF Chain
  <2> QED BY <1>1, <2>1, <2>2, ChainCounted, ListAssumption DEF Chain, HeadOf, ListAssumption
<1>4. \A i \in 1 .. N : node[i] = IF i <= n THEN s[i] ELSE NULL
  <2> DEFINE wrong == {i \in 1 .. N : node[i] # IF i <= n THEN s[i] ELSE NULL}
  <2> SUFFICES ASSUME wrong # {} PROVE FALSE
    OBVIOUS
  <2>1. PICK i \in wrong : \A m \in wrong : i <= m
    <3>1. wrong \in SUBSET Nat
      OBVIOUS
    <3> HIDE DEF wrong
    <3> QED BY <3>1, Smallest
  <2>2. CASE i = 1
    BY <1>2, <1>3, <2>1, <2>2
  <2>3. CASE i # 1
    <3>1. i - 1 \in 1 .. N /\ i - 1 \notin wrong
      BY <2>1, <2>3
    <3>2. node[i - 1] = IF i - 1 <= n THEN s[i - 1] ELSE NULL
      BY <3>1
    <3>3. node[i] = IF node[i - 1] = NULL THEN NULL ELSE next[node[i - 1]]
      BY <1>2, <2>1, <2>3
    <3>4. CASE i - 1 <= n
      BY <1>3, <2>1, <3>1, <3>2, <3>3, <3>4
    <3>5. CASE ~(i - 1 <= n)
      BY <1>3, <2>1, <3>1, <3>2, <3>3, <3>5
    <3> QED BY <3>4, <3>5
  <2> QED BY <2>2, <2>3
<1>5. {i \in 1 .. N : node[i] # NULL} = 1 .. n
  BY <1>1, <1>3, <1>4
<1>6. Walk = [i \in 1 .. n |-> s[i]]
  <2>1. DOMAIN Walk = 1 .. n
    BY <1>2, <1>5
  <2>2. \A i \in 1 .. n : Walk[i] = s[i]
    BY <1>1, <1>2, <1>4, <1>5
  <2>3. Walk = [i \in DOMAIN Walk |-> Walk[i]]
    BY <1>2
  <2> QED BY <2>1, <2>2, <2>3
<1> QED BY <1>1, <1>3, <1>6

-----------------------------------------------------------------------------
(* Adding, deleting the first block, relinking.                            *)

Counters ==
  /\ listCount \in Nat /\ addCount \in Nat /\ delCount \in Nat /\ listHighMark \in Nat
  /\ listCount = addCount - delCount
  /\ listHighMark >= listCount

(* s is the list: all blocks in use and no other. *)
Listed(s) ==
  /\ Chain(head, next, s)
  /\ Blocks(s) = live
  /\ listCount = Len(s)

ListInv ==
  /\ Types
  /\ Counters
  /\ \E s \in Seq(Block) : Listed(s)

(* sListReset, sListDestroy, sListNew *)
LEMMA EmptyListed ==
  ASSUME head = NULL, live = {}, listCount = 0
  PROVE  Listed(<<>>) /\ <<>> \in Seq(Block)
BY DEF Listed, Chain, HeadOf, Blocks

(* A block is put before the others. *)
LEMMA AddListed ==
  ASSUME ListInv, NEW v \in Value, sListItemAdd(v), ~FirstUnwritten
  PROVE  ListInv'
<1>1. PICK s \in Seq(Block) : Listed(s)
  BY DEF ListInv
<1>2. PICK b \in Block \ live :
        /\ live' = live \cup {b}
        /\ data' = [data EXCEPT ![b] = v]
        /\ next' = [next EXCEPT ![b] = head]
        /\ head' = b
  <2>1. PICK b \in Block \ live :
          /\ live' = live \cup {b}
          /\ data' = [data EXCEPT ![b] = v]
          /\ \/ head = NULL /\ \E junk \in Pointer : next' = [next EXCEPT ![b] = junk]
             \/ head # NULL /\ next' = [next EXCEPT ![b] = head]
          /\ head' = b
    BY DEF sListItemAdd
  <2>2. CASE head = NULL
    <3>1. PICK junk \in Pointer : next' = [next EXCEPT ![b] = junk]
      BY <2>1, <2>2
    <3>2. next'[b] = junk /\ b # NULL
      BY <3>1, ListAssumption DEF ListInv, Types, ListAssumption
    <3>3. junk = head
      BY <2>1, <2>2, <3>2 DEF FirstUnwritten
    <3> QED BY <2>1, <3>1, <3>3
  <2> QED BY <2>1, <2>2
<1>3. Types' /\ Counters'
  BY <1>2 DEF sListItemAdd, ListInv, Types, Counters, Pointer
<1>4. PICK t : t = <<b>> \o s
  OBVIOUS
<1>5. /\ Len(s) \in Nat /\ \A i \in 1 .. Len(s) : s[i] \in Block /\ s[i] # b
      /\ \A i, l \in 1 .. Len(s) : s[i] = s[l] => i = l
      /\ \A i \in 1 .. Len(s) : next[s[i]] = IF i < Len(s) THEN s[i + 1] ELSE NULL
      /\ head = IF Len(s) = 0 THEN NULL ELSE s[1]
  <2>1. s = <<>> <=> Len(s) = 0
    OBVIOUS
  <2> QED BY <1>1, <1>2, <2>1, ChainCounted DEF Listed, Chain, Blocks, HeadOf
<1>6. /\ t \in Seq(Block) /\ Len(t) = Len(s) + 1 /\ t[1] = b
      /\ \A i \in 1 .. Len(s) : i + 1 \in 1 .. Len(t) /\ t[i + 1] = s[i]
      /\ \A i \in 1 .. Len(t) : i # 1 => i - 1 \in 1 .. Len(s) /\ t[i] = s[i - 1]
  BY <1>4, <1>5
<1>7. Chain(head', next', t)
  <2>1. head' = HeadOf(t)
    BY <1>2, <1>6 DEF HeadOf
  <2>2. ASSUME NEW i \in 1 .. Len(t)
        PROVE  next'[t[i]] = IF i < Len(t) THEN t[i + 1] ELSE NULL
    <3>1. CASE i = 1
      <4>1. next'[b] = head
        BY <1>2 DEF ListInv, Types
      <4> QED BY <1>5, <1>6, <3>1, <4>1
    <3>2. CASE i # 1
      <4>1. PICK k \in 1 .. Len(s) : k = i - 1 /\ t[i] = s[k]
        BY <1>5, <1>6, <3>2
      <4>2. next'[s[k]] = next[s[k]]
        BY <1>2, <1>5 DEF ListInv, Types
      <4>3. k < Len(s) <=> i < Len(t)
        BY <1>5, <1>6, <4>1
      <4>4. k < Len(s) => t[i + 1] = s[k + 1]
        <5>1. k < Len(s) => k + 1 \in 1 .. Len(s) /\ (k + 1) + 1 = i + 1
          BY <1>5, <4>1
        <5> QED BY <1>6, <5>1
      <4> QED BY <1>5, <4>1, <4>2, <4>3, <4>4
    <3> QED BY <3>1, <3>2
  <2>3. ASSUME NEW i \in 1 .. Len(t), NEW l \in 1 .. Len(t), t[i] = t[l]
        PROVE  i = l
    <3>0. \A m \in 1 .. Len(t) : t[m] = b => m = 1
      <4> SUFFICES ASSUME NEW m \in 1 .. Len(t), m # 1 PROVE t[m] # b
        OBVIOUS
      <4>1. m - 1 \in 1 .. Len(s) /\ t[m] = s[m - 1]
        BY <1>6
      <4> QED BY <1>5, <4>1
    <3>1. CASE i = 1 \/ l = 1
      BY <1>6, <2>3, <3>0, <3>1
    <3>2. CASE i # 1 /\ l # 1
      <4>1. i - 1 \in 1 .. Len(s) /\ l - 1 \in 1 .. Len(s) /\ s[i - 1] = s[l - 1]
        BY <1>6, <2>3, <3>2
      <4>2. i - 1 = l - 1
        BY <1>5, <4>1
      <4> QED BY <4>2
    <3> QED BY <3>1, <3>2
  <2> QED BY <1>6, <2>1, <2>2, <2>3 DEF Chain
<1>8. Blocks(t) = live'
  <2>1. \A x \in Blocks(t) : x \in live'
    BY <1>1, <1>2, <1>5, <1>6 DEF Blocks, Listed
  <2>2. \A x \in Blocks(s) : x \in Blocks(t)
    <3> SUFFICES ASSUME NEW i \in 1 .. Len(s) PROVE s[i] \in Blocks(t)
      BY DEF Blocks
    <3>1. i + 1 \in 1 .. Len(t) /\ t[i + 1] = s[i]
      BY <1>5, <1>6
    <3> QED BY <3>1 DEF Blocks
  <2>3. b \in Blocks(t)
    BY <1>5, <1>6 DEF Blocks
  <2> QED BY <1>1, <1>2, <2>1, <2>2, <2>3 DEF Listed
<1>9. listCount' = Len(t)
  BY <1>1, <1>6 DEF Listed, sListItemAdd
<1> QED BY <1>3, <1>6, <1>7, <1>8, <1>9 DEF ListInv, Listed

(* The first block is cut off. *)
LEMMA DelHeadListed ==
  ASSUME ListInv, NEW v \in Value, DelHead(v)
  PROVE  ListInv'
<1>1. PICK s \in Seq(Block) : Listed(s)
  BY DEF ListInv
<1>2. /\ head # NULL /\ head' = next[head] /\ live' = live \ {head} /\ data' = data /\ next' = next
      /\ listCount' = listCount - 1 /\ delCount' = delCount + 1
      /\ addCount' = addCount /\ listHighMark' = listHighMark
  BY DEF DelHead
<1>3. /\ Len(s) \in Nat /\ Len(s) # 0 /\ head = s[1]
      /\ \A i \in 1 .. Len(s) : s[i] \in Block
      /\ \A i, l \in 1 .. Len(s) : s[i] = s[l] => i = l
      /\ \A i \in 1 .. Len(s) : next[s[i]] = IF i < Len(s) THEN s[i + 1] ELSE NULL
  <2>1. s # <<>>
    BY <1>1, <1>2 DEF Listed, Chain, HeadOf
  <2> QED BY <1>1, <2>1, ChainCounted DEF Listed, Chain, HeadOf
<1>4. PICK t : t = Tail(s)
  OBVIOUS
<1>5. t \in Seq(Block) /\ Len(t) = Len(s) - 1 /\ \A i \in 1 .. Len(t) : t[i] = s[i + 1]
  BY <1>3, <1>4
<1>6. Types' /\ Counters'
  <2>1. head \in Block
    BY <1>3
  <2>2. listCount = Len(s)
    BY <1>1 DEF Listed
  <2> QED BY <1>2, <1>3, <2>1, <2>2 DEF ListInv, Types, Counters
<1>7. Chain(head', next', t)
  <2>1. head' = HeadOf(t)
    <3>1. t = <<>> <=> Len(s) = 1
      BY <1>3, <1>5
    <3> QED BY <1>2, <1>3, <1>5, <3>1 DEF HeadOf
  <2>2. \A i \in 1 .. Len(t) : next[t[i]] = IF i < Len(t) THEN t[i + 1] ELSE NULL
    BY <1>3, <1>5
  <2>3. \A i, l \in 1 .. Len(t) : t[i] = t[l] => i = l
    BY <1>3, <1>5
  <2> QED BY <1>2, <1>5, <2>1, <2>2, <2>3 DEF Chain
<1>8. Blocks(t) = live'
  <2>1. \A i \in 1 .. Len(s) : s[i] # head => s[i] \in Blocks(t)
    <3> SUFFICES ASSUME NEW i \in 1 .. Len(s), i # 1 PROVE s[i] \in Blocks(t)
      BY <1>3
    <3>1. i - 1 \in 1 .. Len(t) /\ t[i - 1] = s[i]
      BY <1>3, <1>5
    <3> QED BY <3>1 DEF Blocks
  <2>2. \A x \in Blocks(t) : x \in Blocks(s) /\ x # head
    BY <1>3, <1>5 DEF Blocks
  <2> QED BY <1>1, <1>2, <2>1, <2>2 DEF Listed, Blocks
<1>9. listCount' = Len(t)
  BY <1>1, <1>2, <1>5 DEF Listed
<1> QED BY <1>5, <1>6, <1>7, <1>8, <1>9 DEF ListInv, Listed

(* Any order of the same blocks. *)
LEMMA RelinkListed ==
  ASSUME ListInv, NEW s, Listed(s), NEW t \in Seq(Block), Len(t) = Len(s), Blocks(t) = Blocks(s),
         Relinked(t)
  PROVE  ListInv'
<1>1. /\ head' = HeadOf(t) /\ next' = Linked(t) /\ live' = live /\ data' = data
      /\ UNCHANGED <<listCount, listHighMark, addCount, delCount>>
  BY DEF Relinked
<1>2. Cardinality(Blocks(t)) = Len(t) /\ IsFiniteSet(Blocks(t)) /\ Len(t) \in Nat
  BY ChainCounted DEF Listed
<1>3. \A i, l \in 1 .. Len(t) : t[i] = t[l] => i = l
  <2>1. IsFiniteSet(1 .. Len(t)) /\ Cardinality(1 .. Len(t)) = Len(t)
    <3>1. PICK n \in Int : n = Len(t) /\ n >= 0
      BY <1>2
    <3>2. IsFiniteSet(1 .. n) /\ Cardinality(1 .. n) = IF 1 > n THEN 0 ELSE n - 1 + 1
      BY FS_Interval
    <3>3. Cardinality(1 .. n) = n
      BY <3>1, <3>2
    <3> QED BY <3>1, <3>2, <3>3, Zenon
  <2>2. t \in Surjection(1 .. Len(t), Blocks(t))
    BY DEF Surjection, Blocks
  <2>3. t \in Injection(1 .. Len(t), Blocks(t))
    BY <1>2, <2>1, <2>2, FS_Surjection, Zenon
  <2> QED BY <2>3 DEF Injection, IsInjective
<1>4. \A i \in 1 .. Len(t) : next'[t[i]] = IF i < Len(t) THEN t[i + 1] ELSE NULL
  <2> SUFFICES ASSUME NEW i \in 1 .. Len(t)
               PROVE  next'[t[i]] = IF i < Len(t) THEN t[i + 1] ELSE NULL
    OBVIOUS
  <2>1. DOMAIN t = 1 .. Len(t) /\ t[i] \in Block
    OBVIOUS
  <2>2. \A k \in DOMAIN t : t[k] = t[i] => k = i
    BY <1>3, <2>1
  <2>3. (CHOOSE k \in DOMAIN t : t[k] = t[i]) = i
    BY <2>1, <2>2
  <2> QED BY <1>1, <2>1, <2>3 DEF Linked
<1>5. Chain(head', next', t)
  BY <1>1, <1>3, <1>4 DEF Chain
<1>6. Types'
  <2>1. head' \in Pointer
    <3>1. t # <<>> => t[1] \in Block
      OBVIOUS
    <3> QED BY <1>1, <3>1 DEF HeadOf, Pointer
  <2>2. \A b \in Block : Linked(t)[b] \in Pointer
    <3> SUFFICES ASSUME NEW b \in Block PROVE Linked(t)[b] \in Pointer
      OBVIOUS
    <3>1. CASE \E i \in DOMAIN t : t[i] = b
      <4>1. PICK i \in 1 .. Len(t) : t[i] = b
        BY <3>1
      <4>2. next'[b] \in Pointer
        <5>1. i < Len(t) => t[i + 1] \in Block
          BY <4>1
        <5> QED BY <1>4, <4>1, <5>1 DEF Pointer
      <4> QED BY <1>1, <4>2
    <3>2. CASE ~\E i \in DOMAIN t : t[i] = b
      BY <3>2 DEF Linked, ListInv, Types
    <3> QED BY <3>1, <3>2
  <2>3. next' \in [Block -> Pointer]
    BY <1>1, <2>2 DEF Linked
  <2> QED BY <1>1, <2>1, <2>3 DEF ListInv, Types
<1>7. Counters' /\ Listed(t)'
  BY <1>1, <1>5 DEF ListInv, Counters, Listed, Chain, Blocks, HeadOf
<1> QED BY <1>6, <1>7 DEF ListInv

-----------------------------------------------------------------------------
(* Deleting behind the head.                                               *)

(* t without its k-th block. *)
Cut(t, k) == [l \in 1 .. Len(t) - 1 |-> IF l < k THEN t[l] ELSE t[l + 1]]

(* The pointer of the block before is all that has to change. *)
LEMMA CutLinked ==
  ASSUME NEW h, NEW nx \in [Block -> Pointer], NEW t, Chain(h, nx, t), NEW k \in 2 .. Len(t),
         NEW ny, ny = [nx EXCEPT ![t[k - 1]] = nx[t[k]]]
  PROVE  /\ Chain(h, ny, Cut(t, k))
         /\ Blocks(Cut(t, k)) = Blocks(t) \ {t[k]}
         /\ Len(Cut(t, k)) = Len(t) - 1
<1>1. PICK n \in Nat : n = Len(t)
  BY ChainCounted
<1>2. PICK u : u = Cut(t, k)
  OBVIOUS
<1>3. /\ \A i \in 1 .. n : t[i] \in Block
      /\ \A i, l \in 1 .. n : t[i] = t[l] => i = l
      /\ \A i \in 1 .. n : nx[t[i]] = IF i < n THEN t[i + 1] ELSE NULL
      /\ k \in 2 .. n /\ k - 1 \in 1 .. n
  BY <1>1, ChainCounted DEF Chain
<1>4. u \in Seq(Block) /\ Len(u) = n - 1
  <2>1. \A l \in 1 .. n - 1 : (IF l < k THEN t[l] ELSE t[l + 1]) \in Block
    BY <1>1, <1>3
  <2> QED BY <1>1, <1>2, <1>3, <2>1 DEF Cut
<1>5. \A l \in 1 .. n - 1 : u[l] = IF l < k THEN t[l] ELSE t[l + 1]
  BY <1>1, <1>2 DEF Cut
<1>6. h = HeadOf(u)
  <2>1. h = t[1]
    <3>1. t # <<>>
      BY <1>1, <1>3
    <3> QED BY <3>1 DEF Chain, HeadOf
  <2>2. u # <<>> /\ u[1] = t[1]
    BY <1>3, <1>4, <1>5
  <2> QED BY <2>1, <2>2 DEF HeadOf
<1>7. ASSUME NEW i \in 1 .. n - 1
      PROVE  ny[u[i]] = IF i < n - 1 THEN u[i + 1] ELSE NULL
  <2>1. CASE i = k - 1
    <3>1. u[i] = t[k - 1] /\ ny[t[k - 1]] = nx[t[k]]
      BY <1>3, <1>5, <2>1
    <3>2. nx[t[k]] = IF k < n THEN t[k + 1] ELSE NULL
      BY <1>3
    <3>3. i < n - 1 => u[i + 1] = t[k + 1]
      BY <1>3, <1>5, <2>1
    <3> QED BY <1>3, <2>1, <3>1, <3>2, <3>3
  <2>2. CASE i < k - 1
    <3>1. u[i] = t[i] /\ u[i + 1] = t[i + 1] /\ i < n - 1 /\ i < n
      BY <1>3, <1>5, <2>2
    <3>2. t[i] # t[k - 1]
      BY <1>3, <2>2
    <3>3. ny[t[i]] = nx[t[i]]
      BY <1>3, <3>2
    <3> QED BY <1>3, <3>1, <3>3
  <2>3. CASE i > k - 1
    <3>1. u[i] = t[i + 1] /\ i + 1 \in 1 .. n /\ (i + 1 < n => u[i + 1] = t[i + 2])
      BY <1>3, <1>5, <2>3
    <3>2. t[i + 1] # t[k - 1]
      BY <1>3, <2>3, <3>1
    <3>3. ny[t[i + 1]] = nx[t[i + 1]]
      BY <1>3, <3>1, <3>2
    <3>4. nx[t[i + 1]] = IF i + 1 < n THEN t[(i + 1) + 1] ELSE NULL
      BY <1>3, <3>1
    <3> QED BY <3>1, <3>3, <3>4
  <2> QED BY <1>3, <2>1, <2>2, <2>3
<1>8. ASSUME NEW i \in 1 .. n - 1, NEW l \in 1 .. n - 1, u[i] = u[l]
      PROVE  i = l
  <2> DEFINE at(x) == IF x < k THEN x ELSE x + 1
  <2>1. at(i) \in 1 .. n /\ at(l) \in 1 .. n /\ u[i] = t[at(i)] /\ u[l] = t[at(l)]
    BY <1>5
  <2>2. at(i) = at(l)
    <3> HIDE DEF at
    <3> QED BY <1>3, <1>8, <2>1
  <2> QED BY <1>3, <2>2
<1>9. Chain(h, ny, u)
  BY <1>4, <1>6, <1>7, <1>8 DEF Chain
<1>10. Blocks(u) = Blocks(t) \ {t[k]}
  <2>1. \A x \in Blocks(u) : x \in Blocks(t) /\ x # t[k]
    <3> SUFFICES ASSUME NEW i \in 1 .. n - 1 PROVE u[i] \in Blocks(t) /\ u[i] # t[k]
      BY <1>4 DEF Blocks
    <3>1. CASE i < k
      BY <1>1, <1>3, <1>5, <3>1 DEF Blocks
    <3>2. CASE ~(i < k)
      <4>1. i + 1 \in 1 .. n /\ i + 1 # k /\ u[i] = t[i + 1]
        BY <1>3, <1>5, <3>2
      <4> QED BY <1>1, <1>3, <4>1 DEF Blocks
    <3> QED BY <3>1, <3>2
  <2>2. \A x \in Blocks(t) : x # t[k] => x \in Blocks(u)
    <3> SUFFICES ASSUME NEW i \in 1 .. n, i # k PROVE t[i] \in Blocks(u)
      BY <1>1, <1>3 DEF Blocks
    <3>1. CASE i < k
      <4>1. i \in 1 .. Len(u) /\ u[i] = t[i]
        BY <1>3, <1>4, <1>5, <3>1
      <4> QED BY <4>1 DEF Blocks
    <3>2. CASE ~(i < k)
      <4>1. i - 1 \in 1 .. Len(u) /\ u[i - 1] = t[i]
        BY <1>3, <1>4, <1>5, <3>2
      <4> QED BY <4>1 DEF Blocks
    <3> QED BY <3>1, <3>2
  <2> QED BY <2>1, <2>2
<1> QED BY <1>1, <1>2, <1>4, <1>9, <1>10, Zenon

(* What the loop of sListItemDel keeps. *)
DelState == [node : Pointer, prev : Pointer, next : [Block -> Pointer], freed : SUBSET Block]
DelStart == [node |-> head, prev |-> NULL, next |-> next, freed |-> {}]

(* What a pass through the loop makes of it. *)
Stepped(v, s, t) ==
  /\ t \in DelState
  /\ s.node = NULL => t = s
  /\ s.node # NULL =>
       /\ s.node \in Block
       /\ t.node = s.next[s.node] /\ t.prev = s.node
       /\ data[s.node] # v => t.next = s.next /\ t.freed = s.freed
       /\ data[s.node] = v => /\ t.next = [s.next EXCEPT ![s.prev] = s.next[s.node]]
                              /\ t.freed = s.freed \cup {s.node}

LEMMA DelStepType ==
  ASSUME Types, NEW v, NEW s \in DelState
  PROVE  DelStep(v, s) \in DelState /\ Stepped(v, s, DelStep(v, s))
<1>0. SUFFICES
         /\ DelStep(v, s) \in DelState
         /\ s.node = NULL => DelStep(v, s) = s
         /\ s.node # NULL =>
              /\ s.node \in Block
              /\ DelStep(v, s).node = s.next[s.node] /\ DelStep(v, s).prev = s.node
              /\ data[s.node] # v => DelStep(v, s).next = s.next /\ DelStep(v, s).freed = s.freed
              /\ data[s.node] = v =>
                   /\ DelStep(v, s).next = [s.next EXCEPT ![s.prev] = s.next[s.node]]
                   /\ DelStep(v, s).freed = s.freed \cup {s.node}
  BY Zenon DEF Stepped
<1>1. /\ s.node \in Pointer /\ s.prev \in Pointer /\ s.next \in [Block -> Pointer]
      /\ s.freed \in SUBSET Block
      /\ s = [node |-> s.node, prev |-> s.prev, next |-> s.next, freed |-> s.freed]
  BY DEF DelState
<1>2. CASE s.node = NULL
  BY <1>2 DEF DelStep
<1>3. CASE s.node # NULL /\ data[s.node] # v
  <2>1. DelStep(v, s) = [node |-> s.next[s.node], prev |-> s.node, next |-> s.next, freed |-> s.freed]
    BY <1>1, <1>3 DEF DelStep
  <2>2. s.node \in Block /\ s.next[s.node] \in Pointer
    BY <1>1, <1>3 DEF Pointer
  <2>3. DelStep(v, s) \in DelState
    BY <1>1, <2>1, <2>2 DEF DelState
  <2> QED BY <1>3, <2>1, <2>2, <2>3
<1>4. CASE s.node # NULL /\ data[s.node] = v
  <2>1. PICK nx : nx = [s.next EXCEPT ![s.prev] = s.next[s.node]]
    OBVIOUS
  <2>2. s.node \in Block /\ s.next[s.node] \in Pointer
    BY <1>1, <1>4 DEF Pointer
  <2>3. nx \in [Block -> Pointer]
    BY <1>1, <2>1, <2>2
  <2>4. DelStep(v, s) = [node |-> s.next[s.node], prev |-> s.node, next |-> nx,
                         freed |-> s.freed \cup {s.node}]
    BY <1>1, <1>4, <2>1 DEF DelStep
  <2>5. DelStep(v, s) \in DelState
    BY <1>1, <2>2, <2>3, <2>4 DEF DelState
  <2> QED BY <1>4, <2>1, <2>2, <2>4, <2>5
<1> QED BY <1>2, <1>3, <1>4

(* The steps of the loop. *)
Steps(v, N, walk) ==
  /\ walk \in [0 .. N -> DelState]
  /\ DelWalk(v) = walk[N]
  /\ walk[0] = DelStart
  /\ \A i \in 1 .. N : walk[i] = DelStep(v, walk[i - 1])

(* The recursive function of DelWalk exists. *)
LEMMA DelWalkDefined ==
  ASSUME Types, NEW v, NEW N \in Nat, N = Cardinality(Block)
  PROVE  \E walk : Steps(v, N, walk)
<1>1. PICK S : S = 0 .. N
  OBVIOUS
<1> DEFINE body(i, g) == IF i = 0 THEN [node |-> head, prev |-> NULL, next |-> next, freed |-> {}]
                         ELSE DelStep(v, g[i - 1])
           Eq(g) == g = [i \in 0 .. Cardinality(Block) |-> body(i, g)]
           walk == CHOOSE g : Eq(g)
           G == [i \in S |-> [g \in [S -> DelState] |-> body(i, g)]]
           size == [i \in S |-> i]
<1>2. S \subseteq Nat /\ \A i \in S : i # 0 => i - 1 \in S /\ i - 1 < i
  BY <1>1
<1>0. DelStart \in DelState
  BY DEF DelStart, DelState, Types, Pointer
<1>3. \A i \in S : \A g \in [S -> DelState] : body(i, g) \in DelState
  BY <1>0, <1>2, DelStepType DEF DelStart
<1>4. G \in [S -> [[S -> DelState] -> DelState]] /\ size \in [S -> Nat] /\ DelState # {}
  BY <1>0, <1>2, <1>3
<1>5. \A i \in S : \A g \in [S -> DelState] : G[i][g] = body(i, g)
  OBVIOUS
<1>6. Local(S, DelState, size, G)
  <2> SUFFICES ASSUME NEW i \in S, NEW g \in [S -> DelState], NEW h \in [S -> DelState],
                      \A y \in S : size[y] < size[i] => g[y] = h[y]
               PROVE  G[i][g] = G[i][h]
    BY DEF Local
  <2>1. i # 0 => g[i - 1] = h[i - 1]
    BY <1>2
  <2>2. body(i, g) = body(i, h)
    BY <2>1
  <2> HIDE DEF G, body
  <2> QED BY <1>5, <2>2
<1>7. PICK f \in [S -> DelState] : \A i \in S : f[i] = G[i][f]
  <2>1. Recursive(S, DelState, size, G)
    BY <1>4, <1>6 DEF Recursive
  <2> HIDE DEF G, size
  <2> QED BY <2>1, RecursionDefined DEF Solved
<1>8. Eq(f)
  <2>1. \A i \in S : f[i] = body(i, f)
    BY <1>5, <1>7
  <2> HIDE DEF body
  <2> QED BY <1>1, <2>1
<1>9. Eq(walk)
  <2> HIDE DEF Eq
  <2> QED BY <1>8
<1>10. DelWalk(v) = walk[N]
  BY Zenon DEF DelWalk
<1> HIDE DEF walk
<1>11. \A i \in S : walk[i] = body(i, walk)
  BY <1>1, <1>9
<1>12. walk \in [S -> DelState]
  <2> DEFINE wrong == {i \in S : walk[i] \notin DelState}
  <2>1. CASE wrong # {}
    <3>1. PICK i \in wrong : \A m \in wrong : i <= m
      <4>1. wrong \in SUBSET Nat
        BY <1>2
      <4> HIDE DEF wrong
      <4> QED BY <2>1, <4>1, Smallest
    <3>2. i # 0 => walk[i - 1] \in DelState
      BY <1>2, <3>1
    <3>3. walk[i] \in DelState
      <4>1. CASE i = 0
        BY <1>0, <1>11, <3>1, <4>1 DEF DelStart
      <4>2. CASE i # 0
        <5>1. walk[i] = DelStep(v, walk[i - 1])
          BY <1>11, <3>1, <4>2
        <5>2. DelStep(v, walk[i - 1]) \in DelState
          BY <3>2, <4>2, DelStepType, Zenon
        <5> QED BY <5>1, <5>2, Zenon
      <4> QED BY <4>1, <4>2
    <3> QED BY <3>1, <3>3
  <2>2. CASE wrong = {}
    <3>1. \A i \in S : walk[i] \in DelState
      BY <2>2
    <3>2. walk = [i \in S |-> walk[i]]
      BY <1>1, <1>9
    <3> QED BY <3>1, <3>2
  <2> QED BY <2>1, <2>2
<1>13. walk[0] = DelStart
  BY <1>1, <1>11 DEF DelStart
<1>14. \A i \in 1 .. N : walk[i] = DelStep(v, walk[i - 1])
  BY <1>1, <1>11
<1> QED BY <1>1, <1>10, <1>12, <1>13, <1>14 DEF Steps

(* After i passes: t is what is left of s.  The block the loop is at, and every block after
   it, is where it was but for the blocks freed before it, and prev is the block before,
   unless that one has just been freed. *)
Deleted(s, v, i, st, t) ==
  /\ Chain(head, st.next, t)
  /\ Blocks(t) = live \ st.freed /\ st.freed \subseteq live
  /\ IsFiniteSet(st.freed) /\ Len(t) + Cardinality(st.freed) = Len(s)
  /\ st.node = IF i < Len(s) THEN s[i + 1] ELSE NULL
  /\ \A l \in i + 1 .. Len(s) : /\ l - Cardinality(st.freed) \in 1 .. Len(t)
                                /\ t[l - Cardinality(st.freed)] = s[l]
  /\ 0 < i /\ i < Len(s) /\ data[s[i]] # v =>
       /\ st.prev = s[i]
       /\ i - Cardinality(st.freed) \in 1 .. Len(t)
       /\ t[i - Cardinality(st.freed)] = s[i]

LEMMA DeletedStart ==
  ASSUME ListInv, NEW s, Listed(s), NEW v
  PROVE  Deleted(s, v, 0, DelStart, s)
<1>1. PICK n \in Nat : n = Len(s)
  BY ChainCounted DEF Listed
<1>2. Chain(head, next, s) /\ Blocks(s) = live
  BY DEF Listed
<1>3. head = IF 0 < n THEN s[0 + 1] ELSE NULL
  BY <1>1, <1>2 DEF Chain, HeadOf
<1>4. IsFiniteSet({}) /\ Cardinality({}) = 0
  BY FS_EmptySet
<1>5. /\ DelStart.next = next /\ DelStart.freed = {} /\ DelStart.node = head
  BY DEF DelStart
<1>6. PICK z : z = {} /\ Cardinality(z) = 0 /\ IsFiniteSet(z) /\ DelStart.freed = z
  BY <1>4, <1>5
<1> QED BY <1>1, <1>2, <1>3, <1>5, <1>6 DEF Deleted

(* Of two neighbours that both match, the second would be linked to through the first,
   which is gone: hence the assumption. *)
LEMMA DeletedStep ==
  ASSUME ListInv, NEW s, Listed(s), NEW v, head # NULL => data[head] # v,
         \A i \in 1 .. Len(s) - 1 : ~(data[s[i]] = v /\ data[s[i + 1]] = v),
         NEW i \in Nat, NEW st \in DelState, NEW t, Deleted(s, v, i, st, t)
  PROVE  \E u : Deleted(s, v, i + 1, DelStep(v, st), u)
<1>0. Types /\ \A l \in 1 .. Len(s) : s[l] \in Block
  BY ChainCounted DEF ListInv, Listed
<1>1. PICK n \in Nat, c \in Nat, m \in Nat :
        n = Len(s) /\ c = Cardinality(st.freed) /\ m = Len(t) /\ m + c = n
  BY ChainCounted, FS_CardinalityType DEF Deleted, Listed
<1>2. PICK sn : sn = DelStep(v, st)
  OBVIOUS
<1>3. /\ Chain(head, st.next, t)
      /\ Blocks(t) = live \ st.freed /\ st.freed \subseteq live
      /\ IsFiniteSet(st.freed)
      /\ st.node = IF i < n THEN s[i + 1] ELSE NULL
      /\ \A l \in i + 1 .. n : l - c \in 1 .. m /\ t[l - c] = s[l]
      /\ 0 < i /\ i < n /\ data[s[i]] # v => st.prev = s[i] /\ i - c \in 1 .. m /\ t[i - c] = s[i]
  BY <1>1 DEF Deleted
<1>4. /\ \A l \in 1 .. m : t[l] \in Block
      /\ \A l, k \in 1 .. m : t[l] = t[k] => l = k
      /\ \A l \in 1 .. m : st.next[t[l]] = IF l < m THEN t[l + 1] ELSE NULL
  BY <1>1, <1>3, ChainCounted DEF Chain
<1>7. Stepped(v, st, sn)
  BY <1>0, <1>2, DelStepType, Zenon
<1>5. CASE ~(i < n)
  <2>1. sn = st
    BY <1>3, <1>5, <1>7 DEF Stepped
  <2> QED BY <1>1, <1>2, <1>3, <1>5, <2>1 DEF Deleted
<1>6. CASE i < n
  <2>1. PICK k \in 1 .. m : k = i + 1 - c /\ t[k] = s[i + 1] /\ st.node = t[k]
    <3>1. i + 1 \in i + 1 .. n
      BY <1>1, <1>6
    <3>2. i + 1 - c \in 1 .. m /\ t[i + 1 - c] = s[i + 1]
      BY <1>3, <3>1
    <3> QED BY <1>3, <1>6, <3>2
  <2>2. st.node \in Block /\ st.node # NULL
    BY <1>4, <2>1, ListAssumption DEF ListAssumption
  <2>3. sn.node = st.next[st.node] /\ sn.prev = st.node
    BY <1>7, <2>2 DEF Stepped
  <2>4. sn.node = IF i + 1 < n THEN s[(i + 1) + 1] ELSE NULL
    <3>1. k < m <=> i + 1 < n
      BY <1>1, <2>1
    <3>2. i + 1 < n => t[k + 1] = s[(i + 1) + 1]
      <4>1. i + 1 < n => (i + 1) + 1 \in i + 1 .. n /\ (i + 1) + 1 - c = k + 1
        BY <1>1, <2>1
      <4> QED BY <1>3, <4>1
    <3> QED BY <1>4, <2>1, <2>3, <3>1, <3>2
  <2>5. CASE data[st.node] # v
    <3>1. sn.next = st.next /\ sn.freed = st.freed
      BY <1>7, <2>2, <2>5 DEF Stepped
    <3>2. sn.prev = s[i + 1] /\ (i + 1) - c \in 1 .. m /\ t[(i + 1) - c] = s[i + 1]
      BY <2>1, <2>3
    <3>3. Deleted(s, v, i + 1, sn, t)
      BY <1>1, <1>3, <2>4, <3>1, <3>2 DEF Deleted
    <3> QED BY <1>2, <3>3
  <2>6. CASE data[st.node] = v
    <3>1. 0 < i
      <4>1. i = 0 => st.node = s[1] /\ head = s[1]
        BY <1>1, <1>3, <1>6 DEF Listed, Chain, HeadOf
      <4> QED BY <2>2, <2>6, <4>1
    <3>2. data[s[i]] # v
      BY <1>1, <1>6, <2>1, <2>6, <3>1
    <3>3. k \in 2 .. m /\ t[k - 1] = s[i] /\ st.prev = t[k - 1]
      <4>1. i - c \in 1 .. m /\ t[i - c] = s[i] /\ st.prev = s[i]
        BY <1>3, <1>6, <3>1, <3>2
      <4>2. i - c = k - 1
        BY <2>1
      <4> QED BY <4>1, <4>2
    <3>4. PICK ny : ny = [st.next EXCEPT ![t[k - 1]] = st.next[t[k]]]
      OBVIOUS
    <3>5. sn.next = ny /\ sn.freed = st.freed \cup {t[k]}
      <4>1. sn.next = [st.next EXCEPT ![st.prev] = st.next[st.node]] /\ sn.freed = st.freed \cup {st.node}
        BY <1>7, <2>2, <2>6, Zenon DEF Stepped
      <4> QED BY <2>1, <3>3, <3>4, <4>1, Zenon
    <3>6. PICK u : u = Cut(t, k)
      OBVIOUS
    <3>7. Chain(head, ny, u) /\ Blocks(u) = Blocks(t) \ {t[k]} /\ Len(u) = m - 1
      <4>1. st.next \in [Block -> Pointer]
        BY DEF DelState
      <4>2. k \in 2 .. Len(t)
        BY <1>1, <3>3
      <4>3. /\ Chain(head, ny, Cut(t, k)) /\ Blocks(Cut(t, k)) = Blocks(t) \ {t[k]}
            /\ Len(Cut(t, k)) = Len(t) - 1
        <5>1. PICK nx \in [Block -> Pointer] : nx = st.next
          BY <4>1
        <5>2. Chain(head, nx, t)
          BY <1>3, <5>1, Zenon
        <5>3. ny = [nx EXCEPT ![t[k - 1]] = nx[t[k]]]
          BY <3>4, <5>1, Zenon
        <5> QED BY <4>2, <5>2, <5>3, CutLinked
      <4>4. Len(Cut(t, k)) = m - 1
        BY <1>1, <4>3, Zenon
      <4> QED BY <3>6, <4>3, <4>4, Zenon
    <3>8. /\ IsFiniteSet(sn.freed) /\ Cardinality(sn.freed) = c + 1
          /\ sn.freed \subseteq live /\ Blocks(u) = live \ sn.freed
      <4>1. t[k] \in Blocks(t)
        BY <1>1, <2>1 DEF Blocks
      <4>2. t[k] \notin st.freed /\ t[k] \in live
        BY <1>3, <4>1
      <4>3. IsFiniteSet(sn.freed) /\ Cardinality(sn.freed) = c + 1
        <5>1. PICK z : z = st.freed \cup {t[k]}
          OBVIOUS
        <5>2. IsFiniteSet(z) /\ Cardinality(z) = Cardinality(st.freed) + 1
          BY <1>3, <4>2, <5>1, FS_AddElement, Zenon
        <5>3. Cardinality(z) = c + 1
          BY <1>1, <5>2, Zenon
        <5> QED BY <3>5, <5>1, <5>2, <5>3, Zenon
      <4> QED BY <1>3, <3>5, <3>7, <4>2, <4>3
    <3>9. ASSUME NEW l \in (i + 1) + 1 .. n
          PROVE  l - (c + 1) \in 1 .. m - 1 /\ u[l - (c + 1)] = s[l]
      <4>1. l - c \in 1 .. m /\ t[l - c] = s[l]
        BY <1>3
      <4>2. PICK x \in 1 .. m - 1 : x = l - (c + 1) /\ ~(x < k) /\ x + 1 = l - c
        BY <1>1, <2>1, <4>1
      <4>3. u[x] = t[x + 1]
        BY <1>1, <3>6, <4>2 DEF Cut
      <4> QED BY <4>1, <4>2, <4>3
    <3>10. data[s[i + 1]] = v
      BY <2>1, <2>6
    <3>11. Deleted(s, v, i + 1, sn, u)
      <4>1. PICK d \in Nat : d = Cardinality(sn.freed) /\ d = c + 1
        BY <3>8
      <4>2. Len(u) + d = Len(s) /\ Len(u) = m - 1 /\ n = Len(s)
        BY <1>1, <3>7, <4>1
      <4>3. \A l \in (i + 1) + 1 .. n : l - d \in 1 .. Len(u) /\ u[l - d] = s[l]
        BY <3>9, <4>1, <4>2
      <4>4. Chain(head, sn.next, u)
        BY <3>5, <3>7, Zenon
      <4> QED BY <2>4, <3>8, <3>10, <4>1, <4>2, <4>3, <4>4 DEF Deleted
    <3> QED BY <1>2, <3>11
  <2> QED BY <2>5, <2>6
<1> QED BY <1>5, <1>6

(* sListItemDel behind the head. *)
LEMMA DelRestListed ==
  ASSUME ListInv, NEW v \in Value, DelRest(v), ~Twins(v)
  PROVE  ListInv'
<1>1. PICK s \in Seq(Block) : Listed(s)
  BY DEF ListInv
<1>2. PICK N \in Nat : N = Cardinality(Block)
  BY FS_CardinalityType, ListAssumption DEF ListAssumption
<1>3. PICK walk \in [0 .. N -> DelState] :
        /\ DelWalk(v) = walk[N]
        /\ walk[0] = DelStart
        /\ \A i \in 1 .. N : walk[i] = DelStep(v, walk[i - 1])
  <2>1. Types
    BY DEF ListInv
  <2>2. PICK walk : Steps(v, N, walk)
    BY <1>2, <2>1, DelWalkDefined
  <2> QED BY <2>2 DEF Steps
<1>4. /\ head # NULL /\ data[head] # v
      /\ \A i \in 1 .. Len(s) - 1 : ~(data[s[i]] = v /\ data[s[i + 1]] = v)
  <2>1. Walk = s
    BY <1>1, WalkIsChain DEF Listed, ListInv
  <2>2. /\ head # NULL /\ data[head] # v
        /\ ~\E i \in 1 .. Len(Walk) - 1 : data[Walk[i]] = v /\ data[Walk[i + 1]] = v
    BY DEF DelRest, Twins
  <2> QED BY <2>1, <2>2
<1>5. \A i \in 0 .. N : \E t : Deleted(s, v, i, walk[i], t)
  <2> DEFINE wrong == {i \in 0 .. N : \A t : ~Deleted(s, v, i, walk[i], t)}
  <2> SUFFICES ASSUME wrong # {} PROVE FALSE
    OBVIOUS
  <2>1. PICK i \in wrong : \A m \in wrong : i <= m
    <3>1. wrong \in SUBSET Nat
      OBVIOUS
    <3> HIDE DEF wrong
    <3> QED BY <3>1, Smallest
  <2>2. i # 0
    <3>1. Deleted(s, v, 0, walk[0], s)
      BY <1>1, <1>3, DeletedStart, Zenon
    <3> QED BY <2>1, <3>1
  <2>3. PICK l \in Nat : l + 1 = i /\ l = i - 1 /\ l \in 0 .. N /\ i \in 1 .. N
    BY <2>1, <2>2
  <2>4. l \notin wrong
    <3>1. ~(i <= l)
      BY <2>3
    <3> HIDE DEF wrong
    <3> QED BY <2>1, <3>1
  <2>5. PICK t : Deleted(s, v, l, walk[l], t)
    BY <2>3, <2>4
  <2>6. \E u : Deleted(s, v, l + 1, DelStep(v, walk[l]), u)
    <3>1. PICK st \in DelState : st = walk[l]
      BY <2>3
    <3>2. Deleted(s, v, l, st, t)
      BY <2>5, <3>1, Zenon
    <3>3. \E u : Deleted(s, v, l + 1, DelStep(v, st), u)
      BY <1>1, <1>4, <3>2, DeletedStep
    <3> QED BY <3>1, <3>3, Zenon
  <2>7. walk[i] = DelStep(v, walk[l])
    BY <1>3, <2>3
  <2> QED BY <2>1, <2>3, <2>6, <2>7
<1>6. PICK st \in DelState : st = walk[N]
  BY <1>2, <1>3
<1>7. PICK t : Deleted(s, v, N, st, t)
  BY <1>2, <1>5, <1>6
<1>8. PICK c \in Nat : c = Cardinality(st.freed)
  BY <1>7, FS_CardinalityType DEF Deleted
<1>9. /\ next' = st.next /\ live' = live \ st.freed
      /\ listCount' = listCount - c /\ delCount' = delCount + c
      /\ data' = data /\ head' = head /\ listHighMark' = listHighMark /\ addCount' = addCount
  BY <1>3, <1>6, <1>8 DEF DelRest
<1>10. Chain(head, st.next, t) /\ Blocks(t) = live \ st.freed /\ Len(t) + c = Len(s)
  BY <1>7, <1>8 DEF Deleted
<1>11. Len(t) \in Nat /\ t \in Seq(Block)
  BY <1>10, ChainCounted DEF Chain
<1>12. Chain(head', next', t) /\ Blocks(t) = live'
  BY <1>9, <1>10, Zenon
<1>13. listCount' = Len(t)
  BY <1>1, <1>9, <1>10, <1>11, ChainCounted DEF Listed
<1>14. Types' /\ Counters'
  <2>1. st.next \in [Block -> Pointer]
    BY DEF DelState
  <2>2. listCount - c \in Nat
    BY <1>9, <1>11, <1>13
  <2> QED BY <1>9, <2>1, <2>2 DEF ListInv, Types, Counters
<1> QED BY <1>11, <1>12, <1>13, <1>14 DEF ListInv, Listed

-----------------------------------------------------------------------------
(* Merging and sorting.                                                    *)

Ascending(s) == \A i \in 1 .. Len(s) - 1 : data[s[i]] <= data[s[i + 1]]

(* A block in front of a sequence of blocks ... *)
LEMMA Prepended ==
  ASSUME NEW b \in Block, NEW r \in Seq(Block)
  PROVE  /\ <<b>> \o r \in Seq(Block) /\ Len(<<b>> \o r) = Len(r) + 1
         /\ Blocks(<<b>> \o r) = {b} \cup Blocks(r)
         /\ (<<b>> \o r)[1] = b
         /\ (r # <<>> => data[b] <= data[r[1]]) /\ Ascending(r) => Ascending(<<b>> \o r)
<1>1. PICK t : t = <<b>> \o r
  OBVIOUS
<1>2. /\ Len(r) \in Nat /\ t \in Seq(Block) /\ Len(t) = Len(r) + 1 /\ t[1] = b
      /\ \A i \in 1 .. Len(r) : i + 1 \in 1 .. Len(t) /\ t[i + 1] = r[i]
      /\ \A i \in 1 .. Len(t) : i # 1 => i - 1 \in 1 .. Len(r) /\ t[i] = r[i - 1]
  BY <1>1
<1>3. Blocks(t) = {b} \cup Blocks(r)
  <2>1. \A x \in Blocks(t) : x = b \/ x \in Blocks(r)
    BY <1>2 DEF Blocks
  <2>2. \A x \in Blocks(r) : x \in Blocks(t)
    <3> SUFFICES ASSUME NEW i \in 1 .. Len(r) PROVE r[i] \in Blocks(t)
      BY DEF Blocks
    <3>1. i + 1 \in 1 .. Len(t) /\ t[i + 1] = r[i]
      BY <1>2
    <3> QED BY <3>1 DEF Blocks
  <2>3. b \in Blocks(t)
    BY <1>2 DEF Blocks
  <2> QED BY <2>1, <2>2, <2>3
<1>4. ASSUME r # <<>> => data[b] <= data[r[1]], Ascending(r)
      PROVE  Ascending(t)
  <2> SUFFICES ASSUME NEW i \in 1 .. Len(t) - 1
               PROVE  data[t[i]] <= data[t[i + 1]]
    BY DEF Ascending
  <2>1. CASE i = 1
    <3>1. r # <<>> /\ 1 \in 1 .. Len(r) /\ t[i + 1] = r[1] /\ t[i] = b
      BY <1>2, <2>1
    <3> QED BY <1>4, <3>1
  <2>2. CASE i # 1
    <3>1. PICK k \in 1 .. Len(r) - 1 : k = i - 1 /\ t[i] = r[k] /\ t[i + 1] = r[k + 1]
      <4>1. i - 1 \in 1 .. Len(r) - 1 /\ i \in 1 .. Len(r) /\ (i - 1) + 1 = i
        BY <1>2, <2>2
      <4> QED BY <1>2, <2>2, <4>1
    <3> QED BY <1>4, <3>1 DEF Ascending
  <2> QED BY <2>1, <2>2
<1> QED BY <1>1, <1>2, <1>3, <1>4

(* ... and a sequence without its first. *)
LEMMA Rest ==
  ASSUME NEW p \in Seq(Block), p # <<>>
  PROVE  /\ Head(p) \in Block /\ Head(p) = p[1] /\ Tail(p) \in Seq(Block)
         /\ Len(Tail(p)) = Len(p) - 1
         /\ Blocks(p) = {Head(p)} \cup Blocks(Tail(p))
         /\ Ascending(p) => /\ Ascending(Tail(p))
                            /\ Tail(p) # <<>> => data[Head(p)] <= data[Tail(p)[1]]
<1>1. PICK t : t = Tail(p)
  OBVIOUS
<1>2. /\ Len(p) \in Nat /\ Len(p) > 0
      /\ Head(p) \in Block /\ Head(p) = p[1] /\ t \in Seq(Block) /\ Len(t) = Len(p) - 1
      /\ \A i \in 1 .. Len(t) : i + 1 \in 1 .. Len(p) /\ t[i] = p[i + 1]
      /\ \A i \in 1 .. Len(p) : i # 1 => i - 1 \in 1 .. Len(t) /\ p[i] = t[i - 1]
  BY <1>1
<1>3. Blocks(p) = {Head(p)} \cup Blocks(t)
  <2>1. \A x \in Blocks(p) : x = Head(p) \/ x \in Blocks(t)
    BY <1>2 DEF Blocks
  <2>2. \A x \in Blocks(t) : x \in Blocks(p)
    BY <1>2 DEF Blocks
  <2>3. Head(p) \in Blocks(p)
    BY <1>2 DEF Blocks
  <2> QED BY <2>1, <2>2, <2>3
<1>4. ASSUME Ascending(p)
      PROVE  Ascending(t) /\ (t # <<>> => data[Head(p)] <= data[t[1]])
  <2>1. ASSUME NEW i \in 1 .. Len(t) - 1
        PROVE  data[t[i]] <= data[t[i + 1]]
    <3>1. i + 1 \in 1 .. Len(p) - 1 /\ t[i] = p[i + 1] /\ t[i + 1] = p[(i + 1) + 1]
      BY <1>2
    <3> QED BY <1>4, <3>1 DEF Ascending
  <2>2. ASSUME t # <<>>
        PROVE  data[Head(p)] <= data[t[1]]
    <3>1. 1 \in 1 .. Len(p) - 1 /\ t[1] = p[1 + 1]
      BY <1>2, <2>2
    <3> QED BY <1>2, <1>4, <3>1 DEF Ascending
  <2> QED BY <2>1, <2>2 DEF Ascending
<1> QED BY <1>1, <1>2, <1>3, <1>4

(* What sortMerge returns. *)
Merged(p, q, r) ==
  /\ r \in Seq(Block)
  /\ Len(r) = Len(p) + Len(q)
  /\ Blocks(r) = Blocks(p) \cup Blocks(q)
  /\ r # <<>> => (p # <<>> /\ r[1] = p[1]) \/ (q # <<>> /\ r[1] = q[1])
  /\ Ascending(p) /\ Ascending(q) => Ascending(r)

(* One step of the recursion, rest being what the call it makes returns. *)
MergeStep(p, q, left, right) ==
  IF p = <<>> THEN q ELSE IF q = <<>> THEN p
  ELSE IF comparatorFn(Head(p), Head(q)) = -1 THEN <<Head(p)>> \o left ELSE <<Head(q)>> \o right

(* If the recursive calls merge, the call does. *)
LEMMA MergeStepMerges ==
  ASSUME Types, NEW p \in Seq(Block), NEW q \in Seq(Block), NEW left, NEW right,
         p # <<>> /\ q # <<>> => Merged(Tail(p), q, left) /\ Merged(p, Tail(q), right)
  PROVE  Merged(p, q, MergeStep(p, q, left, right))
<1>0. /\ Len(<<>>) = 0 /\ Blocks(<<>>) = {} /\ Len(p) \in Nat /\ Len(q) \in Nat
  BY DEF Blocks
<1>1. CASE p = <<>>
  <2>1. MergeStep(p, q, left, right) = q
    BY <1>1 DEF MergeStep
  <2>2. Blocks(q) = Blocks(p) \cup Blocks(q) /\ Len(q) = Len(p) + Len(q)
    BY <1>0, <1>1
  <2> QED BY <2>1, <2>2, Zenon DEF Merged
<1>2. CASE p # <<>> /\ q = <<>>
  <2>1. MergeStep(p, q, left, right) = p
    BY <1>2 DEF MergeStep
  <2>2. Blocks(p) = Blocks(p) \cup Blocks(q) /\ Len(p) = Len(p) + Len(q)
    BY <1>0, <1>2
  <2> QED BY <2>1, <2>2, Zenon DEF Merged
<1>3. CASE p # <<>> /\ q # <<>>
  <2>1. /\ Head(p) \in Block /\ Head(q) \in Block
        /\ data[Head(p)] \in Int /\ data[Head(q)] \in Int
    BY <1>3, Rest, ListAssumption DEF Types, ListAssumption
  <2>2. comparatorFn(Head(p), Head(q)) = -1 <=> data[Head(p)] < data[Head(q)]
    BY <2>1 DEF comparatorFn
  <2>3. CASE data[Head(p)] < data[Head(q)]
    <3>1. MergeStep(p, q, left, right) = <<Head(p)>> \o left
      BY <1>3, <2>2, <2>3 DEF MergeStep
    <3>2. PICK b \in Block, t \in Seq(Block), n \in Nat, m \in Nat :
            b = Head(p) /\ t = Tail(p) /\ n = Len(t) /\ m = Len(q) /\ b = p[1] /\ Len(p) = n + 1
      <4>1. PICK b \in Block, t \in Seq(Block) : b = Head(p) /\ t = Tail(p) /\ b = p[1]
        <5>1. Head(p) \in Block /\ Tail(p) \in Seq(Block) /\ Head(p) = p[1]
          BY <1>3, Rest
        <5> QED BY <5>1, Zenon
      <4>2. Len(t) \in Nat /\ Len(p) = Len(t) + 1
        BY <1>3, <4>1
      <4> QED BY <1>0, <4>1, <4>2
    <3>3. /\ left \in Seq(Block) /\ Len(left) = n + m /\ Blocks(left) = Blocks(t) \cup Blocks(q)
          /\ left # <<>> => (t # <<>> /\ left[1] = t[1]) \/ (q # <<>> /\ left[1] = q[1])
          /\ Ascending(t) /\ Ascending(q) => Ascending(left)
      BY <1>3, <3>2, Zenon DEF Merged
    <3>4. /\ Blocks(p) = {b} \cup Blocks(t)
          /\ Ascending(p) => Ascending(t) /\ (t # <<>> => data[b] <= data[t[1]])
      BY <1>3, <3>2, Rest, Zenon
    <3>5. data[b] <= data[q[1]]
      BY <1>3, <2>1, <2>3, <3>2, Rest
    <3>6. PICK r : r = <<b>> \o left
      OBVIOUS
    <3>7. /\ r \in Seq(Block) /\ Len(r) = Len(left) + 1 /\ Blocks(r) = {b} \cup Blocks(left) /\ r[1] = b
          /\ (left # <<>> => data[b] <= data[left[1]]) /\ Ascending(left) => Ascending(r)
      BY <3>3, <3>6, Prepended, Zenon
    <3>8. Len(r) = Len(p) + Len(q)
      BY <3>2, <3>3, <3>7
    <3>9. Blocks(r) = Blocks(p) \cup Blocks(q)
      <4>1. PICK B, C, D : B = Blocks(t) /\ C = Blocks(q) /\ D = Blocks(left)
        OBVIOUS
      <4>2. {b} \cup (B \cup C) = ({b} \cup B) \cup C
        OBVIOUS
      <4> QED BY <3>3, <3>4, <3>7, <4>1, <4>2, Zenon
    <3>10. Ascending(p) /\ Ascending(q) => Ascending(r)
      BY <3>3, <3>4, <3>5, <3>7, Zenon
    <3>11. Merged(p, q, r)
      BY <1>3, <3>2, <3>7, <3>8, <3>9, <3>10, Zenon DEF Merged
    <3> QED BY <3>1, <3>2, <3>6, <3>11, Zenon
  <2>4. CASE ~(data[Head(p)] < data[Head(q)])
    <3>1. MergeStep(p, q, left, right) = <<Head(q)>> \o right
      BY <1>3, <2>2, <2>4 DEF MergeStep
    <3>2. PICK b \in Block, t \in Seq(Block), n \in Nat, m \in Nat :
            b = Head(q) /\ t = Tail(q) /\ n = Len(t) /\ m = Len(p) /\ b = q[1] /\ Len(q) = n + 1
      <4>1. PICK b \in Block, t \in Seq(Block) : b = Head(q) /\ t = Tail(q) /\ b = q[1]
        <5>1. Head(q) \in Block /\ Tail(q) \in Seq(Block) /\ Head(q) = q[1]
          BY <1>3, Rest
        <5> QED BY <5>1, Zenon
      <4>2. Len(t) \in Nat /\ Len(q) = Len(t) + 1
        BY <1>3, <4>1
      <4> QED BY <1>0, <4>1, <4>2
    <3>3. /\ right \in Seq(Block) /\ Len(right) = m + n /\ Blocks(right) = Blocks(p) \cup Blocks(t)
          /\ right # <<>> => (p # <<>> /\ right[1] = p[1]) \/ (t # <<>> /\ right[1] = t[1])
          /\ Ascending(p) /\ Ascending(t) => Ascending(right)
      BY <1>3, <3>2, Zenon DEF Merged
    <3>4. /\ Blocks(q) = {b} \cup Blocks(t)
          /\ Ascending(q) => Ascending(t) /\ (t # <<>> => data[b] <= data[t[1]])
      BY <1>3, <3>2, Rest, Zenon
    <3>5. data[b] <= data[p[1]]
      BY <1>3, <2>1, <2>4, <3>2, Rest
    <3>6. PICK r : r = <<b>> \o right
      OBVIOUS
    <3>7. /\ r \in Seq(Block) /\ Len(r) = Len(right) + 1 /\ Blocks(r) = {b} \cup Blocks(right) /\ r[1] = b
          /\ (right # <<>> => data[b] <= data[right[1]]) /\ Ascending(right) => Ascending(r)
      BY <3>3, <3>6, Prepended, Zenon
    <3>8. Len(r) = Len(p) + Len(q)
      BY <3>2, <3>3, <3>7
    <3>9. Blocks(r) = Blocks(p) \cup Blocks(q)
      <4>1. PICK B, C, D : B = Blocks(t) /\ C = Blocks(p) /\ D = Blocks(right)
        OBVIOUS
      <4>2. {b} \cup (C \cup B) = C \cup ({b} \cup B)
        OBVIOUS
      <4> QED BY <3>3, <3>4, <3>7, <4>1, <4>2, Zenon
    <3>10. Ascending(p) /\ Ascending(q) => Ascending(r)
      BY <3>3, <3>4, <3>5, <3>7, Zenon
    <3>11. Merged(p, q, r)
      BY <1>3, <3>2, <3>7, <3>8, <3>9, <3>10, Zenon DEF Merged
    <3> QED BY <3>1, <3>2, <3>6, <3>11, Zenon
  <2> QED BY <2>3, <2>4
<1> QED BY <1>1, <1>2, <1>3

(* The two halves that the merge takes, and what its recursive calls take. *)
Pair == Seq(Block) \X Seq(Block)

Left(h) == <<Tail(h[1]), h[2]>>
Right(h) == <<h[1], Tail(h[2])>>
Size(h) == Len(h[1]) + Len(h[2])

LEMMA PairType ==
  ASSUME NEW h \in Pair
  PROVE  /\ h[1] \in Seq(Block) /\ h[2] \in Seq(Block) /\ Size(h) \in Nat
         /\ h[1] # <<>> => /\ Left(h) \in Pair /\ Size(Left(h)) < Size(h) /\ Head(h[1]) \in Block
                           /\ Left(h)[1] = Tail(h[1]) /\ Left(h)[2] = h[2]
         /\ h[2] # <<>> => /\ Right(h) \in Pair /\ Size(Right(h)) < Size(h) /\ Head(h[2]) \in Block
                           /\ Right(h)[1] = h[1] /\ Right(h)[2] = Tail(h[2])
<1>1. h[1] \in Seq(Block) /\ h[2] \in Seq(Block)
  BY DEF Pair
<1>2. PICK p \in Seq(Block), q \in Seq(Block) : p = h[1] /\ q = h[2]
  BY <1>1, Zenon
<1>3. PICK m \in Nat, n \in Nat : m = Len(p) /\ n = Len(q)
  <2>1. Len(p) \in Nat /\ Len(q) \in Nat
    OBVIOUS
  <2> QED BY <2>1, Zenon
<1>4. Size(h) = m + n
  BY <1>2, <1>3, Zenon DEF Size
<1>5. ASSUME p # <<>>
      PROVE  /\ Left(h) \in Pair /\ Size(Left(h)) < Size(h) /\ Head(p) \in Block
             /\ Left(h)[1] = Tail(p) /\ Left(h)[2] = q
  <2>1. Head(p) \in Block /\ Tail(p) \in Seq(Block) /\ Len(Tail(p)) = m - 1
    BY <1>3, <1>5
  <2>2. PICK t \in Seq(Block) : t = Tail(p) /\ Len(t) = m - 1
    BY <2>1, Zenon
  <2>3. Left(h) = <<t, q>>
    BY <1>2, <2>2, Zenon DEF Left
  <2>4. <<t, q>> \in Pair /\ <<t, q>>[1] = t /\ <<t, q>>[2] = q
    BY DEF Pair
  <2>5. Size(<<t, q>>) = (m - 1) + n
    BY <1>3, <2>2, <2>4, Zenon DEF Size
  <2>6. Size(Left(h)) < Size(h)
    BY <1>4, <2>3, <2>5
  <2> QED BY <2>1, <2>2, <2>3, <2>4, <2>6, Zenon
<1>6. ASSUME q # <<>>
      PROVE  /\ Right(h) \in Pair /\ Size(Right(h)) < Size(h) /\ Head(q) \in Block
             /\ Right(h)[1] = p /\ Right(h)[2] = Tail(q)
  <2>1. Head(q) \in Block /\ Tail(q) \in Seq(Block) /\ Len(Tail(q)) = n - 1
    BY <1>3, <1>6
  <2>2. PICK t \in Seq(Block) : t = Tail(q) /\ Len(t) = n - 1
    BY <2>1, Zenon
  <2>3. Right(h) = <<p, t>>
    BY <1>2, <2>2, Zenon DEF Right
  <2>4. <<p, t>> \in Pair /\ <<p, t>>[1] = p /\ <<p, t>>[2] = t
    BY DEF Pair
  <2>5. Size(<<p, t>>) = m + (n - 1)
    BY <1>3, <2>2, <2>4, Zenon DEF Size
  <2>6. Size(Right(h)) < Size(h)
    BY <1>4, <2>3, <2>5
  <2> QED BY <2>1, <2>2, <2>3, <2>4, <2>6, Zenon
<1>7. Size(h) \in Nat
  BY <1>4
<1> QED BY <1>1, <1>2, <1>5, <1>6, <1>7, Zenon

(* The recursive function of sortMerge exists. *)
LEMMA MergeDefined ==
  ASSUME Types
  PROVE  \E f : /\ \A p, q : sortMerge(p, q) = f[<<p, q>>]
                /\ \A h \in Pair : f[h] = MergeStep(h[1], h[2], f[Left(h)], f[Right(h)])
<1> DEFINE V == Seq(Block)
           body(half, merge) ==
             IF half[1] = <<>> THEN half[2] ELSE IF half[2] = <<>> THEN half[1]
             ELSE IF comparatorFn(Head(half[1]), Head(half[2])) = -1
                  THEN <<Head(half[1])>> \o merge[Left(half)]
             ELSE <<Head(half[2])>> \o merge[Right(half)]
           Eq(g) == g = [half \in Seq(Block) \X Seq(Block) |-> body(half, g)]
           merge == CHOOSE g : Eq(g)
           G == [h \in Pair |-> [g \in [Pair -> V] |-> body(h, g)]]
           size == [h \in Pair |-> Size(h)]
<1>1. \A h \in Pair : \A g \in [Pair -> V] : body(h, g) \in V
  <2> SUFFICES ASSUME NEW h \in Pair, NEW g \in [Pair -> V] PROVE body(h, g) \in V
    OBVIOUS
  <2>1. h[1] # <<>> => <<Head(h[1])>> \o g[Left(h)] \in V
    <3> SUFFICES ASSUME h[1] # <<>> PROVE <<Head(h[1])>> \o g[Left(h)] \in V
      OBVIOUS
    <3>1. Head(h[1]) \in Block /\ g[Left(h)] \in Seq(Block)
      BY PairType
    <3> QED BY <3>1, Prepended
  <2>2. h[2] # <<>> => <<Head(h[2])>> \o g[Right(h)] \in V
    <3> SUFFICES ASSUME h[2] # <<>> PROVE <<Head(h[2])>> \o g[Right(h)] \in V
      OBVIOUS
    <3>1. Head(h[2]) \in Block /\ g[Right(h)] \in Seq(Block)
      BY PairType
    <3> QED BY <3>1, Prepended
  <2>3. h[1] \in V /\ h[2] \in V
    BY PairType
  <2> HIDE DEF V
  <2> QED BY <2>1, <2>2, <2>3
<1>2. \A h \in Pair : size[h] = Size(h) /\ size[h] \in Nat
  BY PairType
<1>3. G \in [Pair -> [[Pair -> V] -> V]] /\ size \in [Pair -> Nat] /\ V # {}
  <2>1. size \in [Pair -> Nat]
    BY <1>2
  <2>2. V # {}
    <3>1. <<>> \in V
      OBVIOUS
    <3> QED BY <3>1, Zenon
  <2> HIDE DEF body, V
  <2> QED BY <1>1, <2>1, <2>2
<1>4. \A h \in Pair : \A g \in [Pair -> V] : G[h][g] = body(h, g)
  <2> HIDE DEF body
  <2> QED OBVIOUS
<1>5. Local(Pair, V, size, G)
  <2> SUFFICES ASSUME NEW h \in Pair, NEW g \in [Pair -> V], NEW k \in [Pair -> V],
                      \A y \in Pair : size[y] < size[h] => g[y] = k[y]
               PROVE  G[h][g] = G[h][k]
    BY DEF Local
  <2>1. h[1] # <<>> => g[Left(h)] = k[Left(h)]
    <3> HIDE DEF size
    <3> QED BY <1>2, PairType
  <2>2. h[2] # <<>> => g[Right(h)] = k[Right(h)]
    <3> HIDE DEF size
    <3> QED BY <1>2, PairType
  <2>3. body(h, g) = body(h, k)
    BY <2>1, <2>2, Zenon
  <2> HIDE DEF G, body, size
  <2> QED BY <1>4, <2>3
<1>6. PICK f \in [Pair -> V] : \A h \in Pair : f[h] = G[h][f]
  <2> HIDE DEF G, size, V
  <2>1. Recursive(Pair, V, size, G)
    BY <1>3, <1>5 DEF Recursive
  <2> QED BY <2>1, RecursionDefined DEF Solved
<1>7. Eq(f)
  <2>1. \A h \in Pair : f[h] = body(h, f)
    <3> HIDE DEF G, body
    <3> QED BY <1>4, <1>6
  <2> HIDE DEF body, V
  <2> QED BY <2>1 DEF Pair
<1>8. Eq(merge)
  <2> HIDE DEF Eq
  <2> QED BY <1>7
<1>9. \A p, q : sortMerge(p, q) = merge[<<p, q>>]
  BY Zenon DEF sortMerge, Left, Right
<1> HIDE DEF merge
<1>10. \A h \in Pair : merge[h] = body(h, merge)
  <2> HIDE DEF body
  <2> QED BY <1>8 DEF Pair
<1>11. \A h \in Pair : merge[h] = MergeStep(h[1], h[2], merge[Left(h)], merge[Right(h)])
  BY <1>10, Zenon DEF MergeStep
<1> QED BY <1>9, <1>11, Zenon

(* sortMerge merges any two sequences of blocks. *)
LEMMA MergeMerges ==
  ASSUME Types, NEW first \in Seq(Block), NEW second \in Seq(Block)
  PROVE  Merged(first, second, sortMerge(first, second))
<1>1. PICK f : /\ \A p, q : sortMerge(p, q) = f[<<p, q>>]
               /\ \A h \in Pair : f[h] = MergeStep(h[1], h[2], f[Left(h)], f[Right(h)])
  BY MergeDefined
<1>2. \A h \in Pair : Merged(h[1], h[2], f[h])
  <2> DEFINE wrong == {n \in Nat : \E h \in Pair : Size(h) = n /\ ~Merged(h[1], h[2], f[h])}
  <2>1. CASE wrong # {}
    <3>1. PICK n \in wrong : \A m \in wrong : n <= m
      <4>1. wrong \in SUBSET Nat
        OBVIOUS
      <4> HIDE DEF wrong
      <4> QED BY <2>1, <4>1, Smallest
    <3>2. PICK h \in Pair : Size(h) = n /\ ~Merged(h[1], h[2], f[h])
      BY <3>1
    <3>3. ASSUME NEW l \in Pair, Size(l) < Size(h)
          PROVE  Merged(l[1], l[2], f[l])
      <4>1. PICK m \in Nat : m = Size(l)
        BY PairType
      <4>2. n \in Nat /\ m < n
        BY <3>1, <3>2, <3>3, <4>1
      <4>3. m \notin wrong
        <5>1. ~(n <= m)
          BY <4>2
        <5> HIDE DEF wrong
        <5> QED BY <3>1, <5>1
      <4> QED BY <4>1, <4>3
    <3>4. h[1] # <<>> => Merged(Tail(h[1]), h[2], f[Left(h)])
      <4> SUFFICES ASSUME h[1] # <<>> PROVE Merged(Tail(h[1]), h[2], f[Left(h)])
        OBVIOUS
      <4>1. Left(h) \in Pair /\ Size(Left(h)) < Size(h) /\ Left(h)[1] = Tail(h[1]) /\ Left(h)[2] = h[2]
        BY PairType, Zenon
      <4>2. Merged(Left(h)[1], Left(h)[2], f[Left(h)])
        BY <3>3, <4>1, Zenon
      <4> QED BY <4>1, <4>2, Zenon
    <3>5. h[2] # <<>> => Merged(h[1], Tail(h[2]), f[Right(h)])
      <4> SUFFICES ASSUME h[2] # <<>> PROVE Merged(h[1], Tail(h[2]), f[Right(h)])
        OBVIOUS
      <4>1. Right(h) \in Pair /\ Size(Right(h)) < Size(h) /\ Right(h)[1] = h[1] /\ Right(h)[2] = Tail(h[2])
        BY PairType, Zenon
      <4>2. Merged(Right(h)[1], Right(h)[2], f[Right(h)])
        BY <3>3, <4>1, Zenon
      <4> QED BY <4>1, <4>2, Zenon
    <3>6. h[1] \in Seq(Block) /\ h[2] \in Seq(Block)
      BY PairType
    <3>7. Merged(h[1], h[2], MergeStep(h[1], h[2], f[Left(h)], f[Right(h)]))
      BY <3>4, <3>5, <3>6, MergeStepMerges, Zenon
    <3>8. f[h] = MergeStep(h[1], h[2], f[Left(h)], f[Right(h)])
      BY <1>1, Zenon
    <3> QED BY <3>2, <3>7, <3>8, Zenon
  <2>2. CASE wrong = {}
    <3> SUFFICES ASSUME NEW h \in Pair PROVE Merged(h[1], h[2], f[h])
      OBVIOUS
    <3>1. Size(h) \in Nat
      BY PairType
    <3> QED BY <2>2, <3>1
  <2> QED BY <2>1, <2>2
<1>3. <<first, second>> \in Pair /\ <<first, second>>[1] = first /\ <<first, second>>[2] = second
  BY DEF Pair
<1>4. PICK h \in Pair : h = <<first, second>>
  BY <1>3, Zenon
<1>5. sortMerge(first, second) = f[h]
  BY <1>1, <1>4, Zenon
<1> QED BY <1>2, <1>3, <1>4, <1>5, Zenon

(* The halves of sNodeSplit. *)
Former(s) == sNodeSplit(s)[1]
Latter(s) == sNodeSplit(s)[2]

(* Both are shorter than s, and together they hold its blocks. *)
LEMMA HalvesSplit ==
  ASSUME NEW s \in Seq(Block), ~(Len(s) <= 1)
  PROVE  /\ Former(s) \in Seq(Block) /\ Len(Former(s)) < Len(s)
         /\ Latter(s) \in Seq(Block) /\ Len(Latter(s)) < Len(s)
         /\ Len(Former(s)) + Len(Latter(s)) = Len(s)
         /\ Blocks(Former(s)) \cup Blocks(Latter(s)) = Blocks(s)
<1>1. PICK n \in Nat : n = Len(s) /\ n > 1
  OBVIOUS
<1>2. PICK m \in Nat : m = (n + 1) \div 2 /\ 0 < m /\ m < n
  BY <1>1
<1>3. PICK p, q : p = SubSeq(s, 1, m) /\ q = SubSeq(s, m + 1, n)
  OBVIOUS
<1>4. Former(s) = p /\ Latter(s) = q
  BY <1>1, <1>2, <1>3 DEF Former, Latter, sNodeSplit
<1>5. p \in Seq(Block) /\ Len(p) = m /\ \A i \in 1 .. m : i \in 1 .. n /\ p[i] = s[i]
  <2>1. p = [i \in 1 .. m |-> s[i]]
    BY <1>1, <1>2, <1>3
  <2>2. \A i \in 1 .. m : i \in 1 .. n /\ s[i] \in Block
    BY <1>1, <1>2
  <2> QED BY <1>2, <2>1, <2>2
<1>6. /\ q \in Seq(Block) /\ Len(q) = n - m
      /\ \A i \in 1 .. n - m : i + m \in 1 .. n /\ q[i] = s[i + m]
  <2>1. q = [i \in 1 .. n - m |-> s[i + m]]
    BY <1>1, <1>2, <1>3
  <2>2. \A i \in 1 .. n - m : i + m \in 1 .. n /\ s[i + m] \in Block
    BY <1>1, <1>2
  <2> QED BY <1>1, <1>2, <2>1, <2>2
<1>7. Blocks(p) \cup Blocks(q) = Blocks(s)
  <2>1. \A x \in Blocks(p) : x \in Blocks(s)
    BY <1>1, <1>5 DEF Blocks
  <2>2. \A x \in Blocks(q) : x \in Blocks(s)
    BY <1>1, <1>6 DEF Blocks
  <2>3. \A x \in Blocks(s) : x \in Blocks(p) \/ x \in Blocks(q)
    <3> SUFFICES ASSUME NEW i \in 1 .. n PROVE s[i] \in Blocks(p) \/ s[i] \in Blocks(q)
      BY <1>1 DEF Blocks
    <3>1. CASE i <= m
      <4>1. i \in 1 .. Len(p) /\ p[i] = s[i]
        BY <1>5, <3>1
      <4> QED BY <4>1 DEF Blocks
    <3>2. CASE i > m
      <4>1. PICK k \in 1 .. Len(q) : k + m = i
        <5>1. i - m \in 1 .. Len(q) /\ (i - m) + m = i
          BY <1>6, <3>2
        <5> QED BY <5>1
      <4>2. q[k] = s[i]
        BY <1>6, <4>1
      <4> QED BY <4>2 DEF Blocks
    <3> QED BY <1>2, <3>1, <3>2
  <2> QED BY <2>1, <2>2, <2>3
<1> QED BY <1>1, <1>2, <1>4, <1>5, <1>6, <1>7

(* What the sort returns. *)
SortOf(s, r) ==
  /\ r \in Seq(Block)
  /\ Len(r) = Len(s)
  /\ Blocks(r) = Blocks(s)
  /\ Ascending(r)

SortStep(s, f) == IF Len(s) <= 1 THEN s ELSE sortMerge(f[Former(s)], f[Latter(s)])

(* The recursive function of Sorted exists. *)
LEMMA SortDefined ==
  ASSUME Types
  PROVE  \E f : Sorted = f[Walk] /\ \A s \in Seq(Block) : f[s] = SortStep(s, f)
<1> DEFINE S == Seq(Block)
           Eq(g) == g = [s \in Seq(Block) |-> SortStep(s, g)]
           sort == CHOOSE g : Eq(g)
           G == [s \in S |-> [g \in [S -> S] |-> SortStep(s, g)]]
           size == [s \in S |-> Len(s)]
<1>1. \A s \in S : size[s] = Len(s) /\ size[s] \in Nat
  OBVIOUS
<1>2. \A s \in S : \A g \in [S -> S] : SortStep(s, g) \in S
  <2> SUFFICES ASSUME NEW s \in S, NEW g \in [S -> S], ~(Len(s) <= 1)
               PROVE  sortMerge(g[Former(s)], g[Latter(s)]) \in S
    BY DEF SortStep
  <2>1. g[Former(s)] \in S /\ g[Latter(s)] \in S
    BY HalvesSplit
  <2> QED BY <2>1, MergeMerges DEF Merged
<1>3. G \in [S -> [[S -> S] -> S]] /\ size \in [S -> Nat] /\ S # {}
  <2>1. <<>> \in S
    OBVIOUS
  <2>2. size \in [S -> Nat]
    BY <1>1
  <2> HIDE DEF S, size
  <2> QED BY <1>2, <2>1, <2>2
<1>4. \A s \in S : \A g \in [S -> S] : G[s][g] = SortStep(s, g)
  <2> HIDE DEF S
  <2> QED OBVIOUS
<1>5. Local(S, S, size, G)
  <2> SUFFICES ASSUME NEW s \in S, NEW g \in [S -> S], NEW h \in [S -> S],
                      \A y \in S : size[y] < size[s] => g[y] = h[y]
               PROVE  G[s][g] = G[s][h]
    BY DEF Local
  <2>1. ~(Len(s) <= 1) => g[Former(s)] = h[Former(s)] /\ g[Latter(s)] = h[Latter(s)]
    <3> HIDE DEF size
    <3> QED BY <1>1, HalvesSplit
  <2>2. SortStep(s, g) = SortStep(s, h)
    BY <2>1, Zenon DEF SortStep
  <2> HIDE DEF G, S, size
  <2> QED BY <1>4, <2>2
<1>6. PICK f \in [S -> S] : \A s \in S : f[s] = G[s][f]
  <2> HIDE DEF G, size, S
  <2>1. Recursive(S, S, size, G)
    BY <1>3, <1>5 DEF Recursive
  <2> QED BY <2>1, RecursionDefined DEF Solved
<1>7. Eq(f)
  <2>1. \A s \in S : f[s] = SortStep(s, f)
    <3> HIDE DEF G, S
    <3> QED BY <1>4, <1>6
  <2>2. f = [s \in S |-> f[s]]
    <3> HIDE DEF S
    <3> QED OBVIOUS
  <2> QED BY <2>1, <2>2
<1>8. Eq(sort)
  <2> HIDE DEF Eq
  <2> QED BY <1>7
<1>9. Sorted = sort[Walk]
  BY Zenon DEF Sorted, SortStep, Former, Latter
<1> HIDE DEF sort
<1>10. \A s \in S : sort[s] = SortStep(s, sort)
  BY <1>8
<1> QED BY <1>9, <1>10, Zenon

(* sListSort sorts any sequence of blocks. *)
LEMMA SortedIsSorted ==
  ASSUME Types, NEW s \in Seq(Block), Walk = s
  PROVE  SortOf(s, Sorted)
<1>1. PICK f : Sorted = f[s] /\ \A p \in Seq(Block) : f[p] = SortStep(p, f)
  BY SortDefined, Zenon
<1>2. \A p \in Seq(Block) : SortOf(p, f[p])
  <2> DEFINE wrong == {n \in Nat : \E p \in Seq(Block) : Len(p) = n /\ ~SortOf(p, f[p])}
  <2>1. CASE wrong # {}
    <3>1. PICK n \in wrong : \A m \in wrong : n <= m
      <4>1. wrong \in SUBSET Nat
        OBVIOUS
      <4> HIDE DEF wrong
      <4> QED BY <2>1, <4>1, Smallest
    <3>2. PICK p \in Seq(Block) : Len(p) = n /\ ~SortOf(p, f[p])
      BY <3>1
    <3>3. ASSUME NEW q \in Seq(Block), Len(q) < Len(p)
          PROVE  SortOf(q, f[q])
      <4>1. PICK m \in Nat : m = Len(q)
        OBVIOUS
      <4>2. n \in Nat /\ m < n
        BY <3>1, <3>2, <3>3, <4>1
      <4>3. m \notin wrong
        <5>1. ~(n <= m)
          BY <4>2
        <5> HIDE DEF wrong
        <5> QED BY <3>1, <5>1
      <4> QED BY <4>1, <4>3
    <3>4. CASE Len(p) <= 1
      <4>1. f[p] = p
        BY <1>1, <3>4 DEF SortStep
      <4>2. Ascending(p)
        BY <3>4 DEF Ascending
      <4> QED BY <3>2, <4>1, <4>2, Zenon DEF SortOf
    <3>5. CASE ~(Len(p) <= 1)
      <4>1. PICK a, b : a = f[Former(p)] /\ b = f[Latter(p)]
        OBVIOUS
      <4>2. f[p] = sortMerge(a, b)
        BY <1>1, <3>5, <4>1, Zenon DEF SortStep
      <4>3. /\ Former(p) \in Seq(Block) /\ Len(Former(p)) < Len(p)
            /\ Latter(p) \in Seq(Block) /\ Len(Latter(p)) < Len(p)
            /\ Len(Former(p)) + Len(Latter(p)) = Len(p)
            /\ Blocks(Former(p)) \cup Blocks(Latter(p)) = Blocks(p)
        BY <3>5, HalvesSplit, Zenon
      <4>4. SortOf(Former(p), a) /\ SortOf(Latter(p), b)
        BY <3>3, <4>1, <4>3, Zenon
      <4>5. Merged(a, b, f[p])
        BY <4>2, <4>4, MergeMerges, Zenon DEF SortOf
      <4>6. SortOf(p, f[p])
        BY <4>3, <4>4, <4>5, Zenon DEF SortOf, Merged
      <4> QED BY <3>2, <4>6
    <3> QED BY <3>4, <3>5
  <2>2. CASE wrong = {}
    <3> SUFFICES ASSUME NEW p \in Seq(Block) PROVE SortOf(p, f[p])
      OBVIOUS
    <3>1. Len(p) \in Nat
      OBVIOUS
    <3> QED BY <2>2, <3>1
  <2> QED BY <2>1, <2>2
<1> QED BY <1>1, <1>2, Zenon

-----------------------------------------------------------------------------
(* The list of any sequence of calls.                                      *)

(* The inductive invariant.  The handle of a list that does not exist points nowhere. *)
ListHeld == ListInv /\ (~list => head = NULL)

LEMMA ListInitHolds == ListInit => ListHeld
<1> SUFFICES ASSUME ListInit PROVE ListHeld
  OBVIOUS
<1>1. Types /\ Counters
  <2>1. (CHOOSE v \in Value : TRUE) \in Value
    BY ListAssumption DEF ListAssumption
  <2> QED BY <2>1 DEF ListInit, Types, Counters, Pointer
<1>2. Listed(<<>>) /\ <<>> \in Seq(Block)
  BY EmptyListed DEF ListInit
<1> QED BY <1>1, <1>2 DEF ListHeld, ListInv, ListInit

(* Nothing is in use when the head points nowhere. *)
LEMMA EmptyHead ==
  ASSUME NEW s \in Seq(Block), Listed(s)
  PROVE  head = NULL => live = {}
<1> SUFFICES ASSUME head = NULL PROVE live = {}
  OBVIOUS
<1>1. s = <<>>
  <2>1. s # <<>> => s[1] \in Block
    OBVIOUS
  <2> QED BY <2>1, ListAssumption DEF Listed, Chain, HeadOf, ListAssumption
<1> QED BY <1>1 DEF Listed, Blocks

(* Every operation leaves a list, but for the two that break it. *)
LEMMA ListNextHolds ==
  ASSUME ListHeld, ListNext, ~FirstUnwritten, ~TwinsDeleted
  PROVE  ListHeld'
<1>0. ListInv /\ (~list => head = NULL)
  BY DEF ListHeld
<1>1. PICK s \in Seq(Block) : Listed(s)
  BY <1>0 DEF ListInv
<1>2. Walk = s
  BY <1>0, <1>1, WalkIsChain DEF Listed, ListInv
<1>3. CASE sListNew
  <2>1. head' = NULL /\ live' = {} /\ listCount' = 0
    BY <1>0, <1>1, <1>3, EmptyHead DEF sListNew, heap
  <2>2. Listed(<<>>)' /\ <<>> \in Seq(Block)
    BY <2>1 DEF Listed, Chain, HeadOf, Blocks
  <2>3. Types' /\ Counters'
    BY <1>0, <1>3 DEF sListNew, heap, ListInv, Types, Counters, Pointer
  <2> QED BY <1>3, <2>2, <2>3 DEF ListHeld, ListInv, sListNew
<1>4. CASE sListReset \/ sListDestroy
  <2>0. Emptied
    BY <1>4 DEF sListReset, sListDestroy
  <2>1. head' = NULL /\ live' = {} /\ listCount' = 0
    <3>1. {Walk[i] : i \in DOMAIN Walk} = live
      BY <1>1, <1>2 DEF Listed, Blocks
    <3> QED BY <2>0, <3>1 DEF Emptied
  <2>2. Listed(<<>>)' /\ <<>> \in Seq(Block)
    BY <2>1 DEF Listed, Chain, HeadOf, Blocks
  <2>3. Types' /\ Counters'
    BY <1>0, <2>0 DEF Emptied, ListInv, Types, Counters, Pointer
  <2> QED BY <2>1, <2>2, <2>3 DEF ListHeld, ListInv
<1>5. CASE sListSort
  <2>1. SortOf(s, Sorted)
    BY <1>0, <1>2, SortedIsSorted DEF ListInv
  <2>2. PICK t : t = Sorted
    OBVIOUS
  <2>3. t \in Seq(Block) /\ Len(t) = Len(s) /\ Blocks(t) = Blocks(s)
    BY <2>1, <2>2, Zenon DEF SortOf
  <2>4. Relinked(t) /\ list /\ list' = list
    BY <1>5, <2>2 DEF sListSort, Relinked
  <2>5. ListInv'
    BY <1>0, <1>1, <2>3, <2>4, RelinkListed, Zenon
  <2> QED BY <2>4, <2>5 DEF ListHeld
<1>6. CASE sListReverse
  <2>1. PICK t : t = [i \in DOMAIN Walk |-> Walk[Len(Walk) + 1 - i]]
    OBVIOUS
  <2>2. PICK n \in Nat : n = Len(s)
    OBVIOUS
  <2>3. t = [i \in 1 .. n |-> s[n + 1 - i]]
    BY <1>2, <2>1, <2>2
  <2>4. \A i \in 1 .. n : n + 1 - i \in 1 .. n /\ s[n + 1 - i] \in Block /\ n + 1 - (n + 1 - i) = i
    BY <2>2
  <2>5. t \in Seq(Block) /\ Len(t) = n /\ \A i \in 1 .. n : t[i] = s[n + 1 - i] /\ s[i] = t[n + 1 - i]
    BY <2>3, <2>4
  <2>6. Blocks(t) = Blocks(s)
    <3>1. \A i \in 1 .. n : \E m \in 1 .. n : t[i] = s[m]
      BY <2>4, <2>5
    <3>2. \A i \in 1 .. n : \E m \in 1 .. n : s[i] = t[m]
      BY <2>4, <2>5
    <3>3. Blocks(t) = {t[i] : i \in 1 .. n} /\ Blocks(s) = {s[i] : i \in 1 .. n}
      BY <2>2, <2>5 DEF Blocks
    <3> QED BY <3>1, <3>2, <3>3
  <2>7. Relinked(t) /\ list /\ list' = list
    BY <1>6, <2>1 DEF sListReverse, Relinked
  <2>8. ListInv'
    <3>1. Len(t) = Len(s)
      BY <2>2, <2>5
    <3> QED BY <1>0, <1>1, <2>5, <2>6, <2>7, <3>1, RelinkListed, Zenon
  <2> QED BY <2>7, <2>8 DEF ListHeld
<1>7. ASSUME NEW v \in Value, sListItemAdd(v)
      PROVE  ListHeld'
  <2>1. ListInv'
    BY <1>0, <1>7, AddListed
  <2> QED BY <1>7, <2>1 DEF ListHeld, sListItemAdd
<1>8. ASSUME NEW v \in Value, sListItemDel(v)
      PROVE  ListHeld'
  <2>1. ListInv'
    BY <1>0, <1>8, DelHeadListed, DelRestListed DEF sListItemDel, TwinsDeleted
  <2> QED BY <1>8, <2>1 DEF ListHeld, sListItemDel, DelHead, DelRest
<1> QED BY <1>3, <1>4, <1>5, <1>6, <1>7, <1>8 DEF ListNext

(* What the invariant says about the walk and the sort. *)
LEMMA HeldIsIntact == ListHeld => ListIntact /\ SortSorts
<1> SUFFICES ASSUME ListHeld PROVE ListIntact /\ SortSorts
  OBVIOUS
<1>0. Types /\ Counters
  BY DEF ListHeld, ListInv
<1>1. PICK s \in Seq(Block) : Listed(s)
  BY DEF ListHeld, ListInv
<1>2. Walk = s
  BY <1>0, <1>1, WalkIsChain DEF Listed
<1>3. ListIntact
  <2>1. {Walk[i] : i \in DOMAIN Walk} = live
    BY <1>1, <1>2 DEF Listed, Blocks
  <2>2. ASSUME s # <<>> PROVE next[s[Len(s)]] = NULL
    <3>1. Len(s) \in 1 .. Len(s) /\ ~(Len(s) < Len(s))
      BY <2>2
    <3> QED BY <1>1, <3>1 DEF Listed, Chain
  <2>3. listCount = Len(s) /\ listCount = Cardinality(live)
    <3>1. Cardinality(Blocks(s)) = Len(s)
      BY <1>1, ChainCounted DEF Listed
    <3> QED BY <1>1, <3>1, Zenon DEF Listed
  <2> QED BY <1>0, <1>2, <2>1, <2>2, <2>3 DEF ListIntact, Counters
<1>4. SortSorts
  <2>1. PICK r : r = Sorted
    OBVIOUS
  <2>2. SortOf(s, r)
    BY <1>0, <1>2, <2>1, SortedIsSorted
  <2>3. {r[i] : i \in DOMAIN r} = {s[i] : i \in DOMAIN s}
    <3>1. DOMAIN r = 1 .. Len(r) /\ DOMAIN s = 1 .. Len(s)
      BY <2>2 DEF SortOf
    <3> QED BY <2>2, <3>1, Zenon DEF SortOf, Blocks
  <2>4. Len(r) = Len(s) /\ \A i \in 1 .. Len(r) - 1 : data[r[i]] <= data[r[i + 1]]
    BY <2>2 DEF SortOf, Ascending
  <2> QED BY <1>2, <2>1, <2>3, <2>4, Zenon DEF SortSorts
<1> QED BY <1>3, <1>4

(* A walk is a sequence of blocks along the next pointers, whatever they are. *)
LEMMA WalkIsSequence ==
  Types => /\ Walk \in Seq(Block) /\ DOMAIN Walk = 1 .. Len(Walk) /\ Len(Walk) \in Nat
           /\ \A i \in 1 .. Len(Walk) : i + 1 \in 1 .. Len(Walk) => next[Walk[i]] = Walk[i + 1]
<1> SUFFICES ASSUME Types
             PROVE  /\ Walk \in Seq(Block) /\ DOMAIN Walk = 1 .. Len(Walk) /\ Len(Walk) \in Nat
                    /\ \A i \in 1 .. Len(Walk) : i + 1 \in 1 .. Len(Walk) => next[Walk[i]] = Walk[i + 1]
  OBVIOUS
<1>1. PICK N \in Nat : N = Cardinality(Block)
  BY FS_CardinalityType, ListAssumption DEF ListAssumption
<1>2. PICK node \in [1 .. N -> Pointer] :
        /\ Walk = [i \in {i \in 1 .. N : node[i] # NULL} |-> node[i]]
        /\ \A i \in 1 .. N :
             node[i] = IF i = 1 THEN head
                       ELSE IF node[i - 1] = NULL THEN NULL ELSE next[node[i - 1]]
  BY <1>1, WalkDefined
<1>3. PICK m \in Nat : {i \in 1 .. N : node[i] # NULL} = 1 .. m
  <2> DEFINE ends == {i \in 1 .. N : node[i] = NULL}
  <2>1. CASE ends = {}
    BY <2>1
  <2>2. CASE ends # {}
    <3>1. PICK e \in ends : \A o \in ends : e <= o
      <4>1. ends \in SUBSET Nat
        OBVIOUS
      <4> HIDE DEF ends
      <4> QED BY <2>2, <4>1, Smallest
    <3>2. \A i \in 1 .. N : i < e => node[i] # NULL
      BY <3>1
    <3>3. \A i \in 1 .. N : e <= i => node[i] = NULL
      <4> SUFFICES ASSUME NEW i \in 1 .. N, e <= i, node[i] # NULL PROVE FALSE
        OBVIOUS
      <4> DEFINE later == {o \in 1 .. N : e <= o /\ node[o] # NULL}
      <4>1. PICK o \in later : \A l \in later : o <= l
        <5>1. later \in SUBSET Nat /\ later # {}
          OBVIOUS
        <5> HIDE DEF later
        <5> QED BY <5>1, Smallest
      <4>2. o \in 1 .. N /\ e <= o /\ node[o] # NULL /\ e \in 1 .. N /\ node[e] = NULL
        BY <3>1, <4>1
      <4>3. o - 1 \in 1 .. N /\ o # 1 /\ e <= o - 1 /\ ~(o <= o - 1)
        BY <4>2
      <4>4. node[o - 1] = NULL
        BY <4>1, <4>3
      <4> QED BY <1>2, <4>2, <4>3, <4>4
    <3>4. e - 1 \in Nat /\ {i \in 1 .. N : node[i] # NULL} = 1 .. (e - 1)
      BY <3>1, <3>2, <3>3
    <3> QED BY <3>4
  <2> QED BY <2>1, <2>2
<1>4. PICK w : w = Walk
  OBVIOUS
<1>5. w = [i \in 1 .. m |-> node[i]] /\ \A i \in 1 .. m : i \in 1 .. N /\ node[i] # NULL
  BY <1>2, <1>3, <1>4
<1>6. \A i \in 1 .. m : node[i] \in Block
  BY <1>5 DEF Pointer
<1>7. w \in Seq(Block) /\ Len(w) = m /\ DOMAIN w = 1 .. m
  BY <1>5, <1>6
<1>8. \A i \in 1 .. m : i + 1 \in 1 .. m => next[w[i]] = w[i + 1]
  <2> SUFFICES ASSUME NEW i \in 1 .. m, i + 1 \in 1 .. m PROVE next[w[i]] = w[i + 1]
    OBVIOUS
  <2>1. PICK l : l = i + 1 /\ l \in 1 .. N /\ l # 1 /\ l - 1 = i
    BY <1>5
  <2>2. node[l] = IF node[l - 1] = NULL THEN NULL ELSE next[node[l - 1]]
    BY <1>2, <2>1
  <2> QED BY <1>5, <2>1, <2>2
<1> QED BY <1>4, <1>7, <1>8

(* In an intact list a block in use leads to another one, and only the last to none. *)
Closed == \A b \in live : next[b] \in live \cup {NULL}
Ending == live # {} => \E b \in live : next[b] = NULL

LEMMA IntactIsClosed == Types /\ ListIntact => Closed /\ Ending
<1> SUFFICES ASSUME Types, ListIntact
             PROVE  /\ \A b \in live : next[b] \in live \cup {NULL}
                    /\ live # {} => \E b \in live : next[b] = NULL
  BY DEF Closed, Ending
<1>1. PICK w : w = Walk
  OBVIOUS
<1>2. /\ w \in Seq(Block) /\ DOMAIN w = 1 .. Len(w) /\ Len(w) \in Nat
      /\ \A i \in 1 .. Len(w) : i + 1 \in 1 .. Len(w) => next[w[i]] = w[i + 1]
  BY <1>1, WalkIsSequence
<1>3. live = {w[i] : i \in 1 .. Len(w)} /\ (w # <<>> => next[w[Len(w)]] = NULL)
  BY <1>1, <1>2 DEF ListIntact
<1>4. \A i \in 1 .. Len(w) : w # <<>> /\ (i + 1 \in 1 .. Len(w) \/ i = Len(w)) /\ Len(w) \in 1 .. Len(w)
  <2>0. Len(w) \in Nat
    BY <1>2
  <2>1. PICK n \in Nat : n = Len(w)
    BY <2>0
  <2>2. \A i \in 1 .. n : (i + 1 \in 1 .. n \/ i = n) /\ n \in 1 .. n
    OBVIOUS
  <2>3. w = <<>> => n = 0
    BY <2>1
  <2> QED BY <2>1, <2>2, <2>3
<1>5. ASSUME NEW b \in live PROVE next[b] \in live \cup {NULL}
  <2>1. PICK i \in 1 .. Len(w) : w[i] = b
    BY <1>3
  <2>2. CASE i + 1 \in 1 .. Len(w)
    BY <1>2, <1>3, <2>1, <2>2
  <2>3. CASE i = Len(w)
    BY <1>3, <1>4, <2>1, <2>3
  <2> QED BY <1>4, <2>2, <2>3
<1>6. live # {} => \E b \in live : next[b] = NULL
  BY <1>3, <1>4
<1> QED BY <1>5, <1>6

(* A first block that points somewhere: there is no other block in use for it. *)
LEMMA UnwrittenBreaks ==
  ASSUME ListHeld, ListNext, FirstUnwritten
  PROVE  ~ListIntact'
<1> SUFFICES ASSUME ListIntact' PROVE FALSE
  OBVIOUS
<1>1. ListInv /\ head = NULL /\ head' # NULL /\ next'[head'] # NULL
  BY DEF ListHeld, FirstUnwritten
<1>2. PICK s \in Seq(Block) : Listed(s)
  BY <1>1 DEF ListInv
<1>3. live = {} /\ s = <<>>
  <2>1. s # <<>> => s[1] \in Block
    OBVIOUS
  <2> QED BY <1>1, <1>2, <2>1, EmptyHead, ListAssumption DEF Listed, Chain, HeadOf, ListAssumption
<1>4. Walk = s
  BY <1>1, <1>2, WalkIsChain DEF Listed, ListInv
<1>5. ~sListNew /\ ~sListReset /\ ~sListDestroy
  BY <1>1 DEF sListNew, sListReset, sListDestroy, Emptied
<1>6. ~sListSort
  <2>1. SortOf(s, Sorted)
    BY <1>1, <1>4, SortedIsSorted DEF ListInv
  <2>2. PICK t : t = Sorted
    OBVIOUS
  <2>3. Len(t) = 0 /\ t \in Seq(Block)
    BY <1>3, <2>1, <2>2 DEF SortOf
  <2>4. t = <<>>
    BY <2>3
  <2> QED BY <1>1, <2>2, <2>4 DEF sListSort, Relinked, HeadOf
<1>7. ~sListReverse
  <2>1. PICK t : t = [i \in DOMAIN Walk |-> Walk[Len(Walk) + 1 - i]]
    OBVIOUS
  <2>2. t = <<>>
    BY <1>3, <1>4, <2>1
  <2> QED BY <1>1, <2>1, <2>2 DEF sListReverse, Relinked, HeadOf
<1>8. PICK v \in Value : sListItemAdd(v)
  BY <1>1, <1>5, <1>6, <1>7 DEF ListNext, sListItemDel, DelHead, DelRest
<1>9. PICK b \in Block : live' = {b} /\ head' = b
  BY <1>3, <1>8 DEF sListItemAdd
<1>10. Types'
  BY <1>1, <1>8 DEF sListItemAdd, ListInv, Types, Pointer
<1>11. Ending'
  <2>1. (Types /\ ListIntact)'
    BY <1>10
  <2> QED BY <2>1, IntactIsClosed, PTL
<1> QED BY <1>1, <1>9, <1>11 DEF Ending

(* After i passes over a list with two neighbours a and a + 1 that match, the first such:
   the walk goes on along the blocks of s; those before the first one stay linked to the
   second one. *)
Unlinked(s, v, a, i, st) ==
  /\ st.node = IF i < Len(s) THEN s[i + 1] ELSE NULL
  /\ 0 < i /\ i <= Len(s) => st.prev = s[i]
  /\ \A l \in 1 .. Len(s) : i <= l => st.next[s[l]] = next[s[l]]
  /\ \A b \in st.freed : data[b] = v
  /\ a <= i => st.next[s[a - 1]] = s[a + 1]
  /\ a + 1 <= i => s[a + 1] \in st.freed

LEMMA UnlinkedStep ==
  ASSUME ListInv, NEW s, Listed(s), NEW v, head # NULL => data[head] # v,
         NEW a \in 2 .. Len(s) - 1, data[s[a - 1]] # v, data[s[a]] = v, data[s[a + 1]] = v,
         NEW i \in Nat, NEW st \in DelState, Unlinked(s, v, a, i, st)
  PROVE  Unlinked(s, v, a, i + 1, DelStep(v, st))
<1>0. Types
  BY DEF ListInv
<1>1. PICK n \in Nat : n = Len(s) /\ \A l \in 1 .. n : s[l] \in Block
  BY ChainCounted DEF Listed
<1>2. /\ \A l \in 1 .. n : next[s[l]] = IF l < n THEN s[l + 1] ELSE NULL
      /\ \A l, m \in 1 .. n : s[l] = s[m] => l = m
      /\ n # 0 => head = s[1]
      /\ NULL \notin Block
  <2>1. n # 0 => s # <<>>
    BY <1>1 DEF Listed, Chain
  <2> QED BY <1>1, <2>1, ListAssumption DEF Listed, Chain, HeadOf, ListAssumption
<1>3. PICK sn \in DelState : sn = DelStep(v, st) /\ Stepped(v, st, sn)
  BY <1>0, DelStepType
<1>4. /\ st.node = IF i < n THEN s[i + 1] ELSE NULL
      /\ 0 < i /\ i <= n => st.prev = s[i]
      /\ \A l \in 1 .. n : i <= l => st.next[s[l]] = next[s[l]]
      /\ \A b \in st.freed : data[b] = v
      /\ a <= i => st.next[s[a - 1]] = s[a + 1]
      /\ a + 1 <= i => s[a + 1] \in st.freed
  BY <1>1 DEF Unlinked
<1>5. a \in 2 .. n - 1 /\ a - 1 \in 1 .. n /\ a + 1 \in 1 .. n /\ a \in 1 .. n
  BY <1>1
<1> DEFINE k == i + 1
<1>6. CASE ~(i < n)
  <2>1. sn = st
    BY <1>3, <1>4, <1>6 DEF Stepped
  <2>2. Unlinked(s, v, a, k, st)
    BY <1>1, <1>4, <1>5, <1>6 DEF Unlinked
  <2> QED BY <1>3, <2>1, <2>2
<1>7. CASE i < n
  <2>1. k \in 1 .. n /\ s[k] \in Block /\ st.node = s[k] /\ s[k] # NULL
    BY <1>1, <1>2, <1>4, <1>7
  <2>2. /\ sn.node = st.next[s[k]] /\ sn.prev = s[k]
        /\ data[s[k]] # v => sn.next = st.next /\ sn.freed = st.freed
        /\ data[s[k]] = v => /\ sn.next = [st.next EXCEPT ![st.prev] = st.next[s[k]]]
                             /\ sn.freed = st.freed \cup {s[k]}
    BY <1>3, <2>1 DEF Stepped
  <2>3. st.next[s[k]] = IF k < n THEN s[k + 1] ELSE NULL
    BY <1>2, <1>4, <2>1
  <2>4. data[s[k]] = v => i # 0 /\ i \in 1 .. n /\ st.prev = s[i]
    <3>1. i = 0 => s[k] = head /\ head # NULL
      BY <1>2, <2>1
    <3> QED BY <1>4, <1>7, <3>1
  <2>5. st.next \in [Block -> Pointer]
    BY DEF DelState
  <2>6. \A l \in 1 .. n : (data[s[k]] = v => l # i) => sn.next[s[l]] = st.next[s[l]]
    BY <1>1, <1>2, <2>2, <2>4, <2>5
  <2>7. \A l \in 1 .. n : k <= l => sn.next[s[l]] = next[s[l]]
    BY <1>4, <2>6
  <2>8. \A b \in sn.freed : data[b] = v
    BY <1>4, <2>2
  <2>9. a <= k => sn.next[s[a - 1]] = s[a + 1]
    <3>1. CASE a = k
      <4>1. i = a - 1 /\ data[s[k]] = v /\ k < n /\ s[i] \in Block
        BY <1>1, <1>5, <3>1
      <4> QED BY <2>2, <2>3, <2>4, <2>5, <3>1, <4>1
    <3>2. CASE a <= i
      BY <1>4, <1>5, <2>6, <3>2
    <3> QED BY <3>1, <3>2
  <2>10. a + 1 <= k => s[a + 1] \in sn.freed
    <3>1. CASE a + 1 = k
      BY <2>2, <3>1
    <3>2. CASE a + 1 <= i
      BY <1>4, <2>2, <3>2
    <3> QED BY <3>1, <3>2
  <2>11. Unlinked(s, v, a, k, sn)
    BY <1>1, <2>1, <2>2, <2>3, <2>7, <2>8, <2>9, <2>10 DEF Unlinked
  <2> QED BY <1>3, <2>11
<1> QED BY <1>6, <1>7

(* Deleting two neighbours: the block before the first is left linked to the second, which
   is no longer in use. *)
LEMMA TwinsBreak ==
  ASSUME ListInv, NEW v \in Value, DelRest(v), Twins(v)
  PROVE  ~ListIntact'
<1> SUFFICES ASSUME ListIntact' PROVE FALSE
  OBVIOUS
<1>1. PICK s \in Seq(Block) : Listed(s)
  BY DEF ListInv
<1>2. PICK N \in Nat : N = Cardinality(Block)
  BY FS_CardinalityType, ListAssumption DEF ListAssumption
<1>3. PICK n \in Nat : n = Len(s) /\ n <= N /\ \A l \in 1 .. n : s[l] \in Block
  BY <1>1, <1>2, ChainCounted DEF Listed
<1>4. head # NULL /\ data[head] # v /\ \E i \in 1 .. n - 1 : data[s[i]] = v /\ data[s[i + 1]] = v
  <2>1. Walk = s
    BY <1>1, WalkIsChain DEF Listed, ListInv
  <2>2. /\ head # NULL /\ data[head] # v
        /\ \E i \in 1 .. Len(Walk) - 1 : data[Walk[i]] = v /\ data[Walk[i + 1]] = v
    BY DEF DelRest, Twins
  <2> QED BY <1>3, <2>1, <2>2
<1>5. PICK a \in 2 .. n - 1 : data[s[a - 1]] # v /\ data[s[a]] = v /\ data[s[a + 1]] = v
  <2> DEFINE first == {i \in 1 .. n - 1 : data[s[i]] = v /\ data[s[i + 1]] = v}
  <2>1. PICK a \in first : \A m \in first : a <= m
    <3>0. PICK i \in 1 .. n - 1 : data[s[i]] = v /\ data[s[i + 1]] = v
      BY <1>4
    <3>1. first \in SUBSET Nat
      OBVIOUS
    <3>2. i \in first
      BY <3>0
    <3> HIDE DEF first
    <3> QED BY <3>1, <3>2, Smallest
  <2>2. a # 1
    <3>1. n # 0 => s # <<>>
      BY <1>3
    <3>2. n # 0 => head = s[1]
      BY <1>1, <3>1 DEF Listed, Chain, HeadOf
    <3> QED BY <1>3, <1>4, <2>1, <3>2
  <2>3. a - 1 \in 1 .. n - 1 /\ ~(a <= a - 1) /\ (a - 1) + 1 = a /\ a \in 2 .. n - 1
    BY <2>1, <2>2
  <2>4. a - 1 \notin first
    BY <2>1, <2>3
  <2> QED BY <2>1, <2>3, <2>4
<1>6. PICK walk \in [0 .. N -> DelState] :
        /\ DelWalk(v) = walk[N]
        /\ walk[0] = DelStart
        /\ \A i \in 1 .. N : walk[i] = DelStep(v, walk[i - 1])
  <2>1. Types
    BY DEF ListInv
  <2>2. PICK walk : Steps(v, N, walk)
    BY <1>2, <2>1, DelWalkDefined
  <2> QED BY <2>2 DEF Steps
<1>7. \A i \in 0 .. N : Unlinked(s, v, a, i, walk[i])
  <2> DEFINE wrong == {i \in 0 .. N : ~Unlinked(s, v, a, i, walk[i])}
  <2> SUFFICES ASSUME wrong # {} PROVE FALSE
    OBVIOUS
  <2>1. PICK i \in wrong : \A m \in wrong : i <= m
    <3>1. wrong \in SUBSET Nat
      OBVIOUS
    <3> HIDE DEF wrong
    <3> QED BY <3>1, Smallest
  <2>2. i # 0
    <3>1. DelStart.node = head /\ DelStart.next = next /\ DelStart.freed = {}
      BY DEF DelStart
    <3>2. head = IF 0 < n THEN s[0 + 1] ELSE NULL
      BY <1>1, <1>3 DEF Listed, Chain, HeadOf
    <3>3. Unlinked(s, v, a, 0, DelStart)
      BY <1>3, <3>1, <3>2 DEF Unlinked
    <3> QED BY <1>6, <2>1, <3>3
  <2>3. PICK l \in Nat : l + 1 = i /\ l = i - 1 /\ l \in 0 .. N /\ i \in 1 .. N
    BY <2>1, <2>2
  <2>4. l \notin wrong
    <3>1. ~(i <= l)
      BY <2>3
    <3> HIDE DEF wrong
    <3> QED BY <2>1, <3>1
  <2>5. PICK st \in DelState : st = walk[l] /\ Unlinked(s, v, a, l, st)
    BY <2>3, <2>4
  <2>6. Unlinked(s, v, a, l + 1, DelStep(v, st))
    <3>1. a \in 2 .. Len(s) - 1
      BY <1>3
    <3> QED BY <1>1, <1>4, <1>5, <2>5, <3>1, UnlinkedStep
  <2>7. walk[i] = DelStep(v, walk[l])
    BY <1>6, <2>3
  <2> QED BY <2>1, <2>3, <2>5, <2>6, <2>7
<1>8. PICK st \in DelState : st = walk[N] /\ Unlinked(s, v, a, N, st)
  BY <1>2, <1>6, <1>7
<1>9. next' = st.next /\ live' = live \ st.freed /\ data' = data /\ head' = head
  BY <1>6, <1>8 DEF DelRest
<1>10. st.next[s[a - 1]] = s[a + 1] /\ s[a + 1] \in st.freed /\ s[a - 1] \notin st.freed
  <2>1. a <= N /\ a + 1 <= N
    BY <1>3
  <2> QED BY <1>5, <1>8, <2>1 DEF Unlinked
<1>11. s[a - 1] \in live' /\ s[a + 1] \notin live' /\ s[a + 1] # NULL
  <2>1. a - 1 \in 1 .. Len(s) /\ a + 1 \in 1 .. n
    BY <1>3
  <2>2. s[a - 1] \in live
    BY <1>1, <2>1 DEF Listed, Blocks
  <2> QED BY <1>3, <1>9, <1>10, <2>1, <2>2, ListAssumption DEF ListAssumption
<1>12. Closed'
  <2>1. Types'
    <3>1. st.next \in [Block -> Pointer]
      BY DEF DelState
    <3> QED BY <1>9, <3>1 DEF ListInv, Types
  <2>2. (Types /\ ListIntact)'
    BY <2>1
  <2> QED BY <2>2, IntactIsClosed, PTL
<1> QED BY <1>9, <1>10, <1>11, <1>12 DEF Closed

(* Until a list is broken it is one. *)
HeldWhileIntact == ListIntact => ListHeld

LEMMA StepBreaksOrHolds ==
  ASSUME ListHeld, ListNext
  PROVE  /\ ListIntact' <=> ~(FirstUnwritten \/ TwinsDeleted)
         /\ ListIntact' => ListHeld'
<1>1. CASE FirstUnwritten
  BY <1>1, UnwrittenBreaks
<1>2. CASE TwinsDeleted
  BY <1>2, TwinsBreak DEF TwinsDeleted, ListHeld
<1>3. CASE ~FirstUnwritten /\ ~TwinsDeleted
  <2>1. ListHeld'
    BY <1>3, ListNextHolds
  <2>2. ListIntact'
    BY <2>1, HeldIsIntact, PTL
  <2> QED BY <1>3, <2>1, <2>2
<1> QED BY <1>1, <1>2, <1>3

WalkFrom(h, nx) ==
  LET node[i \in 1 .. Cardinality(Block)] ==
        IF i = 1 THEN h ELSE IF node[i - 1] = NULL THEN NULL ELSE nx[node[i - 1]]
  IN  [i \in {i \in 1 .. Cardinality(Block) : node[i] # NULL} |-> node[i]]

LEMMA ListHeldWhileIntact == ListSpec => []HeldWhileIntact
<1>1. HeldWhileIntact /\ [ListNext]_listVars => HeldWhileIntact'
  <2> SUFFICES ASSUME HeldWhileIntact, [ListNext]_listVars, ListIntact' PROVE ListHeld'
    BY DEF HeldWhileIntact
  <2>1. CASE UNCHANGED listVars
    <3>0. Walk' = Walk
      <4>1. Walk = WalkFrom(head, next) /\ (Walk = WalkFrom(head, next))'
        BY Zenon DEF Walk, WalkFrom
      <4>2. head' = head /\ next' = next
        BY <2>1 DEF listVars, heap, handle
      <4> QED BY <4>1, <4>2, Zenon
    <3>1. ListHeld
      BY <2>1, <3>0 DEF HeldWhileIntact, listVars, heap, handle, ListIntact
    <3> QED BY <2>1, <3>1 DEF listVars, heap, handle, ListHeld, ListInv, Types, Counters, Listed, Chain, Blocks, HeadOf
  <2>2. CASE ListNext
    <3>1. ListHeld
      BY <2>2 DEF HeldWhileIntact, ListNext
    <3> QED BY <2>2, <3>1, StepBreaksOrHolds
  <2> QED BY <2>1, <2>2
<1>2. ListInit => HeldWhileIntact
  BY ListInitHolds DEF HeldWhileIntact
<1> QED BY <1>1, <1>2, PTL DEF ListSpec

(* For any blocks, elements and order of calls a list breaks exactly where its first block
   keeps a pointer that was in its memory, and where an element is deleted that two
   neighbours behind the head hold.  Until then every block in use is in the list once,
   no freed one is, the list ends, and the counters tell its length. *)
THEOREM ListBreaksOnlyThere == ListSpec => BreaksOnlyThere
<1>1. HeldWhileIntact /\ [ListNext]_listVars
        => [ListIntact' <=> ~(FirstUnwritten \/ TwinsDeleted)]_listVars
  <2> SUFFICES ASSUME HeldWhileIntact, ListNext
               PROVE  ListIntact' <=> ~(FirstUnwritten \/ TwinsDeleted)
    OBVIOUS
  <2>1. ListHeld
    BY DEF HeldWhileIntact, ListNext
  <2> QED BY <2>1, StepBreaksOrHolds
<1> QED BY <1>1, ListHeldWhileIntact, PTL DEF ListSpec, BreaksOnlyThere

(* For any intact list the merge sort returns its blocks, none lost and none twice, in the
   order of the comparator. *)
THEOREM SortIsCorrect == ListSpec => []SortSorts
<1>1. HeldWhileIntact => SortSorts
  BY HeldIsIntact DEF HeldWhileIntact, SortSorts
<1> QED BY <1>1, ListHeldWhileIntact, PTL

-----------------------------------------------------------------------------
(* The rock problem.                                                       *)

(* The names that hold a letter are among those begun, and are counted. *)
RockInv ==
  /\ j \in Nat
  /\ count \in [Letter -> Nat]
  /\ named \in [Letter -> SUBSET (0 .. j)]
  /\ \A c \in Letter : Cardinality(named[c]) <= count[c] /\ count[c] <= j + 1

LEMMA Begun ==
  ASSUME NEW k \in Nat, NEW names \in SUBSET (0 .. k)
  PROVE  IsFiniteSet(names) /\ Cardinality(names) \in Nat /\ Cardinality(names) <= k + 1
  <1>1. IsFiniteSet(0 .. k) /\ Cardinality(0 .. k) = k + 1
    BY FS_Interval
  <1> QED
    BY <1>1, FS_Subset, FS_CardinalityType

LEMMA RockStart == RockInit => RockInv
  BY FS_EmptySet DEF RockInit, RockInv

(* A name adds one to the count of each of its letters, unless the count has already
   reached the number of names begun. *)
LEMMA ReadInv ==
  ASSUME RockInv, NEW c \in Letter, ReadLetter(c)
  PROVE  RockInv'
  <1> DEFINE names == named[c] \cup {j}
  <1>1. /\ count' = [count EXCEPT ![c] = Counted(c)] /\ named' = [named EXCEPT ![c] = names]
        /\ j' = j /\ j \in Nat
    BY DEF ReadLetter, RockInv
  <1>2. named[c] \in SUBSET (0 .. j) /\ names \in SUBSET (0 .. j)
    BY DEF RockInv
  <1>3. /\ Cardinality(named[c]) \in Nat /\ Cardinality(names) \in Nat
        /\ Cardinality(names) <= j + 1 /\ Cardinality(names) <= Cardinality(named[c]) + 1
    <2>1. IsFiniteSet(named[c]) /\ Cardinality(named[c]) \in Nat
      BY <1>1, <1>2, Begun
    <2>2. Cardinality(names) \in {Cardinality(named[c]), Cardinality(named[c]) + 1}
      BY <2>1, FS_AddElement
    <2>3. Cardinality(names) \in Nat /\ Cardinality(names) <= j + 1
      BY <1>1, <1>2, Begun
    <2> QED
      BY <2>1, <2>2, <2>3
  <1>4. count[c] \in Nat /\ Cardinality(named[c]) <= count[c] /\ count[c] <= j + 1
    BY DEF RockInv
  <1> HIDE DEF names
  <1>5. Counted(c) \in Nat /\ Cardinality(names) <= Counted(c) /\ Counted(c) <= j + 1
    BY <1>1, <1>3, <1>4 DEF Counted
  <1> QED
    BY <1>1, <1>2, <1>5 DEF RockInv

LEMMA NameInv ==
  ASSUME RockInv, NextName
  PROVE  RockInv'
  <1>1. j' = j + 1 /\ UNCHANGED <<count, named>> /\ j \in Nat
    BY DEF NextName, RockInv
  <1>2. 0 .. j \subseteq 0 .. j'
    BY <1>1
  <1>3. \A c \in Letter : count[c] \in Nat /\ count[c] <= j' + 1
    BY <1>1 DEF RockInv
  <1> QED
    BY <1>1, <1>2, <1>3 DEF RockInv

(* Whatever the names are, a letter's count lies between the number of names that hold
   it and the number of names begun. *)
THEOREM SharedLettersCounted == RockSpec => []NoLetterMissed
  <1>1. RockInv /\ [RockNext]_rocks => RockInv'
    <2> SUFFICES ASSUME RockInv, [RockNext]_rocks PROVE RockInv'
      OBVIOUS
    <2>1. CASE UNCHANGED rocks
      BY <2>1 DEF rocks, RockInv
    <2> QED
      BY <2>1, ReadInv, NameInv DEF RockNext
  <1>2. RockInv => NoLetterMissed
    BY DEF RockInv, NoLetterMissed
  <1> QED
    BY <1>1, <1>2, RockStart, PTL DEF RockSpec
=============================================================================
