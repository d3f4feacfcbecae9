------------------------------ MODULE Recursion ------------------------------
(***************************************************************************)
(* Induction and recursion over the natural numbers, stated of sets and    *)
(* functions, so that they can be cited with a set where the theorems of   *)
(* NaturalsInduction ask for an operator.  What a recursive function of    *)
(* the modules computes is proved from these.                              *)
(***************************************************************************)
EXTENDS Integers, WellFoundedInduction, TLAPS

\* The least number of a set: a proof by induction looks at the least counterexample.
LEMMA Least ==
  ASSUME NEW S \in SUBSET Nat, S # {}
  PROVE  \E n \in S : \A m \in S : n <= m
<1> DEFINE R == {ss \in Nat \X Nat : ss[1] < ss[2]}
<1>1. OpToRel(<, Nat) = R  BY DEF OpToRel
<1>2. IsWellFoundedOn(R, Nat)  BY <1>1, NatLessThanWellFounded
<1>3. \A m, n \in Nat : m < n => <<m, n>> \in R  OBVIOUS
<1> HIDE DEF R
<1>4. PICK n \in S : \A m \in S : ~ (<<m, n>> \in R)  BY <1>2, WFMin
<1>5. ASSUME NEW m \in S PROVE n <= m
  <2>1. m \in Nat /\ n \in Nat /\ ~(m < n)  BY <1>3, <1>4
  <2> QED  BY <2>1
<1> QED  BY <1>5

\* A set with 0 in it and, with every number, the next.
LEMMA Induction ==
  ASSUME NEW S, 0 \in S, \A n \in Nat : n \in S => n + 1 \in S
  PROVE  \A n \in Nat : n \in S
<1> SUFFICES ASSUME NEW k \in Nat, k \notin S PROVE FALSE  OBVIOUS
<1> DEFINE T == {n \in Nat : n \notin S}
<1>1. T \in SUBSET Nat /\ T # {}  OBVIOUS
<1> HIDE DEF T
<1>2. PICK n \in T : \A m \in T : n <= m  BY <1>1, Least
<1>3. n \in Nat /\ n \notin S  BY <1>2 DEF T
<1>4. n # 0  BY <1>3
<1>5. n - 1 \in Nat /\ n - 1 \notin T  BY <1>2, <1>3, <1>4
<1>6. n - 1 \in S  BY <1>5 DEF T
<1>7. n - 1 + 1 \in S  BY <1>5, <1>6
<1>8. n - 1 + 1 = n  BY <1>3
<1> QED  BY <1>3, <1>7, <1>8

\* A set with every element that it has all those of a lower rank of.
LEMMA RankInduction ==
  ASSUME NEW A, NEW rank \in [A -> Nat], NEW S,
         \A a \in A : (\A b \in A : rank[b] < rank[a] => b \in S) => a \in S
  PROVE  A \subseteq S
<1> SUFFICES ASSUME NEW z \in A, z \notin S PROVE FALSE  OBVIOUS
<1> DEFINE Missing == {a \in A : a \notin S}
           R == {rank[a] : a \in Missing}
<1>1. R \in SUBSET Nat /\ R # {}  OBVIOUS
<1> HIDE DEF R
<1>2. PICK k \in R : \A m \in R : k <= m  BY <1>1, Least
<1>3. PICK a \in Missing : rank[a] = k  BY <1>2 DEF R
<1>4. ASSUME NEW b \in A, rank[b] < rank[a] PROVE b \in S
  <2> SUFFICES ASSUME b \in Missing PROVE FALSE  OBVIOUS
  <2>1. rank[b] \in R /\ rank[b] \in Nat /\ rank[a] \in Nat  BY DEF R
  <2> QED  BY <1>2, <1>3, <1>4, <2>1
<1> QED  BY <1>3, <1>4

\* f and g agree on what has a rank below n.
AgreeBelow(f, g, A, rank, n) == \A a \in A : rank[a] < n => f[a] = g[a]

\* f satisfies the equation f[a] = G[a, f] where the rank is below n.
SolvesBelow(f, G, A, rank, n) == \A a \in A : rank[a] < n => f[a] = G[<<a, f>>]

\* G looks at its function only where the rank is lower.
LooksBelow(G, A, V, rank) ==
  \A a \in A : \A f, g \in [A -> V] :
    AgreeBelow(f, g, A, rank, rank[a]) => G[<<a, f>>] = G[<<a, g>>]

\* G, of an argument and a function, is the body of a recursive definition on A.
Recursive(G, A, V, rank) ==
  /\ V # {} /\ rank \in [A -> Nat] /\ G \in [A \X [A -> V] -> V]
  /\ LooksBelow(G, A, V, rank)

\* Two solutions agree.
LEMMA SolutionUnique ==
  ASSUME NEW A, NEW V, NEW rank \in [A -> Nat], NEW G, LooksBelow(G, A, V, rank),
         NEW f \in [A -> V], NEW g \in [A -> V], NEW n \in Nat,
         SolvesBelow(f, G, A, rank, n), SolvesBelow(g, G, A, rank, n)
  PROVE  AgreeBelow(f, g, A, rank, n)
<1> SUFFICES ASSUME NEW x \in A, rank[x] < n, f[x] # g[x] PROVE FALSE
  BY DEF AgreeBelow
<1> DEFINE Bad == {a \in A : rank[a] < n /\ f[a] # g[a]}
           S == {rank[a] : a \in Bad}
<1>1. S \in SUBSET Nat /\ S # {}  OBVIOUS
<1> HIDE DEF S
<1>2. PICK k \in S : \A m \in S : k <= m  BY <1>1, Least
<1>3. PICK a \in Bad : rank[a] = k  BY <1>2 DEF S
<1>4. AgreeBelow(f, g, A, rank, rank[a])
  <2> SUFFICES ASSUME NEW b \in A, rank[b] < rank[a], f[b] # g[b] PROVE FALSE
    BY DEF AgreeBelow
  <2>1. rank[b] \in Nat /\ rank[a] \in Nat /\ rank[a] < n  BY <1>3
  <2>2. b \in Bad  BY <2>1
  <2>3. rank[b] \in S  BY <2>2 DEF S
  <2> QED  BY <1>2, <1>3, <2>1, <2>3
<1>5. G[<<a, f>>] = G[<<a, g>>]  BY <1>4 DEF LooksBelow
<1>6. f[a] = G[<<a, f>>] /\ g[a] = G[<<a, g>>]  BY DEF SolvesBelow
<1> QED  BY <1>5, <1>6

\* A recursive definition has a solution, when every value it refers to has a lower
\* rank than the one it defines.
THEOREM RecursiveFunctionExists ==
  ASSUME NEW A, NEW V, NEW rank, NEW G, Recursive(G, A, V, rank)
  PROVE  \E f \in [A -> V] : \A a \in A : f[a] = G[<<a, f>>]
<1>0. /\ V # {} /\ rank \in [A -> Nat] /\ G \in [A \X [A -> V] -> V]
      /\ LooksBelow(G, A, V, rank)
  BY DEF Recursive
<1> DEFINE S == {n \in Nat : \E f \in [A -> V] : SolvesBelow(f, G, A, rank, n)}
<1>1. 0 \in S
  <2>1. PICK v \in V : TRUE  BY <1>0
  <2>2. [a \in A |-> v] \in [A -> V]  OBVIOUS
  <2>3. SolvesBelow([a \in A |-> v], G, A, rank, 0)  BY <1>0 DEF SolvesBelow
  <2> QED  BY <2>2, <2>3
<1>2. ASSUME NEW n \in Nat, n \in S PROVE n + 1 \in S
  <2>1. PICK f \in [A -> V] : SolvesBelow(f, G, A, rank, n)  BY <1>2
  <2> DEFINE g == [a \in A |-> G[<<a, f>>]]
  <2>2. g \in [A -> V]  BY <1>0
  <2>3. ASSUME NEW a \in A, rank[a] < n + 1 PROVE g[a] = G[<<a, g>>]
    <3>1. AgreeBelow(f, g, A, rank, rank[a])
      BY <1>0, <2>1, <2>3 DEF AgreeBelow, SolvesBelow
    <3>2. G[<<a, f>>] = G[<<a, g>>]  BY <1>0, <2>2, <3>1 DEF LooksBelow
    <3> QED  BY <3>2
  <2>4. SolvesBelow(g, G, A, rank, n + 1)  BY <2>3 DEF SolvesBelow
  <2> HIDE DEF g
  <2> QED  BY <2>2, <2>4
<1> HIDE DEF S
<1>3. \A n \in Nat : n \in S  BY <1>1, <1>2, Induction
<1>4. \A n \in Nat : \E f \in [A -> V] : SolvesBelow(f, G, A, rank, n)
  BY <1>3 DEF S
<1> DEFINE F(n) == CHOOSE f \in [A -> V] : SolvesBelow(f, G, A, rank, n)
<1>5. \A n \in Nat : F(n) \in [A -> V] /\ SolvesBelow(F(n), G, A, rank, n)
  BY <1>4
<1> HIDE DEF F
<1> DEFINE h == [a \in A |-> F(rank[a] + 1)[a]]
<1>6. h \in [A -> V]
  <2> SUFFICES ASSUME NEW a \in A PROVE F(rank[a] + 1)[a] \in V  OBVIOUS
  <2>1. rank[a] + 1 \in Nat  BY <1>0
  <2> QED  BY <1>5, <2>1
<1>7. ASSUME NEW a \in A PROVE h[a] = G[<<a, h>>]
  <2>1. rank[a] + 1 \in Nat /\ rank[a] < rank[a] + 1  BY <1>0
  <2> DEFINE f == F(rank[a] + 1)
  <2>2. f \in [A -> V] /\ SolvesBelow(f, G, A, rank, rank[a] + 1)  BY <1>5, <2>1
  <2>3. AgreeBelow(h, f, A, rank, rank[a])
    <3> SUFFICES ASSUME NEW b \in A, rank[b] < rank[a] PROVE h[b] = f[b]  BY DEF AgreeBelow
    <3>1. rank[b] + 1 \in Nat /\ rank[b] < rank[b] + 1 /\ rank[b] \in Nat /\ rank[a] \in Nat
      BY <1>0
    <3> DEFINE g == F(rank[b] + 1)
    <3>2. g \in [A -> V] /\ SolvesBelow(g, G, A, rank, rank[b] + 1)  BY <1>5, <3>1
    <3> HIDE DEF f, g
    <3>3. SolvesBelow(f, G, A, rank, rank[b] + 1)
      BY <1>0, <2>2, <3>1 DEF SolvesBelow
    <3>4. AgreeBelow(f, g, A, rank, rank[b] + 1)
      BY <1>0, <2>2, <3>1, <3>2, <3>3, SolutionUnique
    <3>5. f[b] = g[b]  BY <3>1, <3>4 DEF AgreeBelow
    <3> QED  BY <3>5 DEF g
  <2>4. G[<<a, h>>] = G[<<a, f>>]  BY <1>0, <1>6, <2>2, <2>3 DEF LooksBelow
  <2>5. f[a] = G[<<a, f>>]  BY <1>0, <2>1, <2>2 DEF SolvesBelow
  <2> QED  BY <2>4, <2>5
<1> HIDE DEF h
<1> QED  BY <1>6, <1>7
==============================================================================
