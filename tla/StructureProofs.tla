-------------------------- MODULE StructureProofs --------------------------
(***************************************************************************)
(* Proofs about the prime table, the hash table that is sized by it and    *)
(* the time of the program.  That the sieve leaves the primes and that     *)
(* hash_create finds the smallest one that fits is proved of the recursive *)
(* functions themselves; that quadratic probing then finds room for every  *)
(* key up to the capacity rests on Euclid's lemma.                         *)
(***************************************************************************)
EXTENDS HashTable, Clock, Recursion, FiniteSetTheorems, SequenceTheorems

\* Quotient and remainder of a positive divisor.
LEMMA DivMod ==
  ASSUME NEW a \in Int, NEW p \in Int, p > 0
  PROVE  a \div p \in Int /\ a % p \in Int /\ 0 <= a % p /\ a % p < p /\ a = p * (a \div p) + (a % p)
<1>1. a \div p \in Int /\ a % p \in Int /\ 0 <= a % p /\ a % p < p  OBVIOUS
<1>2. a = p * (a \div p) + (a % p)  BY Z3
<1> QED  BY <1>1, <1>2

\* There is only one such quotient and remainder.
LEMMA ModOf ==
  ASSUME NEW a \in Int, NEW p \in Int, p > 0, NEW c \in Int, NEW r \in Int, 0 <= r, r < p,
         a = p * c + r
  PROVE  a % p = r /\ a \div p = c
<1>1. a % p = r  OBVIOUS
<1>2. a \div p = c  OBVIOUS
<1> QED  BY <1>1, <1>2

\* p divides x.
Divides(p, x) == \E c \in Int : x = p * c

\* A remainder of zero is divisibility.
LEMMA DividesMod ==
  ASSUME NEW a \in Int, NEW p \in Int, p > 0
  PROVE  a % p = 0 <=> Divides(p, a)
<1>1. ASSUME a % p = 0 PROVE Divides(p, a)
  <2>1. a = p * (a \div p) /\ a \div p \in Int  BY <1>1, DivMod
  <2> QED  BY <2>1 DEF Divides
<1>2. ASSUME NEW c \in Int, a = p * c PROVE a % p = 0
  <2>1. a = p * c + 0 /\ 0 \in Int /\ 0 <= 0 /\ 0 < p  BY <1>2
  <2> QED  BY <2>1, ModOf
<1> QED  BY <1>1, <1>2 DEF Divides

\* Two numbers with the same remainder.
LEMMA SameRemainder ==
  ASSUME NEW a \in Int, NEW b \in Int, NEW p \in Int, p > 0, a % p = b % p
  PROVE  Divides(p, b - a)
<1> DEFINE c == a \div p
           d == b \div p
           r == a % p
<1>1. c \in Int /\ d \in Int /\ r \in Int /\ a = p * c + r /\ b = p * d + r  BY DivMod
<1> HIDE DEF c, d, r
<1>2. b - a = p * (d - c) /\ d - c \in Int  BY <1>1
<1> QED  BY <1>2 DEF Divides

\* Euclid's lemma: a prime that divides a product of a smaller number divides the
\* other factor.
LEMMA Euclid ==
  ASSUME NEW p \in Nat, IsPrime(p), NEW a \in 1 .. p - 1, NEW b \in Int, Divides(p, a * b)
  PROVE  Divides(p, b)
<1> DEFINE S == {n \in Nat : n >= 1 /\ Divides(p, n * b)}
<1>1. S \in SUBSET Nat /\ a \in S  OBVIOUS
<1>2. PICK n \in S : \A x \in S : n <= x
  <2> HIDE DEF S
  <2> QED  BY <1>1, Least
<1>3. n \in Nat /\ n >= 1 /\ n <= a /\ n < p /\ p > 1 /\ p \in Int  BY <1>1, <1>2 DEF IsPrime
<1>4. PICK c \in Int : n * b = p * c  BY <1>2 DEF Divides
<1> DEFINE q == p \div n
           r == p % n
<1>5. q \in Int /\ r \in Int /\ 0 <= r /\ r < n /\ p = n * q + r  BY <1>3, DivMod
<1>6. r = 0
  <2> SUFFICES ASSUME r # 0 PROVE FALSE  OBVIOUS
  <2> HIDE DEF q, r
  <2>1. r * b = p * (b - q * c)
    <3>1. r * b = (p - n * q) * b  BY <1>5
    <3>2. (p - n * q) * b = p * b - q * (n * b)  BY <1>3, <1>5
    <3>3. q * (p * c) = p * (q * c) /\ q * c \in Int /\ p * b - p * (q * c) = p * (b - q * c)
      BY <1>3, <1>5
    <3> QED  BY <1>4, <3>1, <3>2, <3>3
  <2>2. Divides(p, r * b)
    <3>1. b - q * c \in Int  BY <1>5
    <3> QED  BY <2>1, <3>1 DEF Divides
  <2>3. r \in Nat /\ r >= 1  BY <1>5, <2>2
  <2>4. n <= r  BY <1>2, <2>2, <2>3
  <2> QED  BY <1>3, <1>5, <2>4
<1>7. n = 1
  <2> SUFFICES ASSUME n # 1 PROVE FALSE  OBVIOUS
  <2>1. n \in 2 .. p - 1 /\ p % n = 0  BY <1>3, <1>6
  <2> QED  BY <2>1 DEF IsPrime
<1> QED  BY <1>4, <1>7 DEF Divides

\* A positive number below p is not divided by p.
LEMMA NotDivided ==
  ASSUME NEW p \in Nat, NEW x \in 1 .. p - 1
  PROVE  ~ Divides(p, x)
<1> SUFFICES ASSUME NEW c \in Int, x = p * c PROVE FALSE  BY DEF Divides
<1>1. CASE c >= 1
  <2>1. p * c >= p  BY <1>1
  <2> QED  BY <2>1
<1>2. CASE c <= 0
  <2>1. p * c <= 0  BY <1>2
  <2> QED  BY <2>1
<1> QED  BY <1>1, <1>2

\* Quadratic probing comes to as many entries as the smaller half of a prime.
LEMMA ProbesApart ==
  ASSUME NEW p \in Nat, IsPrime(p), NEW k \in Nat, NEW i \in Nat, NEW j \in Nat,
         i < j, i + j < p
  PROVE  (k + i * i) % p # (k + j * j) % p
<1> SUFFICES ASSUME (k + i * i) % p = (k + j * j) % p PROVE FALSE  OBVIOUS
<1>1. p > 1 /\ p > 0 /\ p \in Int  BY DEF IsPrime
<1>2. k + i * i \in Int /\ k + j * j \in Int  OBVIOUS
<1>3. Divides(p, (k + j * j) - (k + i * i))  BY <1>1, <1>2, SameRemainder
<1>4. (k + j * j) - (k + i * i) = (j - i) * (j + i)  OBVIOUS
<1>5. j - i \in 1 .. p - 1 /\ j + i \in 1 .. p - 1  OBVIOUS
<1>6. Divides(p, (j - i) * (j + i))  BY <1>3, <1>4
<1>7. Divides(p, j + i)
  <2>1. j + i \in Int  OBVIOUS
  <2> QED  BY <1>5, <1>6, <2>1, Euclid, Zenon
<1> QED  BY <1>5, <1>7, NotDivided

\* A larger number has no smaller quotient.
LEMMA DivAscends ==
  ASSUME NEW a \in Int, NEW b \in Int, a <= b, NEW p \in Int, p > 0
  PROVE  a \div p <= b \div p
<1> DEFINE c == a \div p
           d == b \div p
           r == a % p
           s == b % p
<1>1. c \in Int /\ d \in Int /\ r \in Int /\ s \in Int /\ 0 <= r /\ s < p
  BY DivMod
<1>2. a = p * c + r /\ b = p * d + s  BY DivMod
<1> HIDE DEF c, d, r, s
<1> SUFFICES ASSUME c >= d + 1 PROVE FALSE  BY <1>1 DEF c, d
<1>3. p * c >= p * (d + 1)  BY <1>1
<1>4. p * (d + 1) = p * d + p /\ p * d \in Int /\ p * c \in Int  BY <1>1
<1> QED  BY <1>1, <1>2, <1>3, <1>4
------------------------------------------------------------------------------
(***************************************************************************)
(* The table of primes: what the sieve crosses out.                        *)
(***************************************************************************)

Numbers == 0 .. MaxPrime - 1

\* The numbers with a divisor below i that is neither 1 nor themselves.
Composite(i) == {j \in Numbers : \E d \in 2 .. i - 1 : 2 * d <= j /\ j % d = 0}

SieveStep(i, f) ==
  IF i = 2 THEN {}
  ELSE LET S == f[i - 1] IN IF i - 1 \in S THEN S ELSE S \union Multiples(i - 1)

\* The recursive function of the first loop exists: the sieve is what its rounds make.
LEMMA SieveUnfolds ==
  \E f : /\ Crossed = f[MaxPrime]
         /\ \A i \in 2 .. MaxPrime : f[i] = SieveStep(i, f)
<1>0. MaxPrime \in Nat /\ MaxPrime >= 2  BY PrimeAssumption
<1> DEFINE A == 2 .. MaxPrime
           V == SUBSET Numbers
           G == [q \in A \X [A -> V] |-> SieveStep(q[1], q[2])]
           rank == [i \in A |-> i]
<1>1. rank \in [A -> Nat] /\ V # {}  OBVIOUS
<1>2. G \in [A \X [A -> V] -> V]
  <2> SUFFICES ASSUME NEW i \in A, NEW f \in [A -> V] PROVE SieveStep(i, f) \in V  OBVIOUS
  <2>1. i # 2 => f[i - 1] \in V
    <3>1. i # 2 => i - 1 \in A  BY <1>0
    <3> HIDE DEF A, V
    <3> QED  BY <3>1
  <2>2. i # 2 => Multiples(i - 1) \in V
    <3> SUFFICES ASSUME i # 2, NEW j \in Multiples(i - 1) PROVE j \in Numbers  OBVIOUS
    <3>1. j \in 2 * (i - 1) .. MaxPrime - 1  BY DEF Multiples
    <3>2. i - 1 \in Int /\ i - 1 >= 0  BY <1>0
    <3> QED  BY <1>0, <3>1, <3>2 DEF Numbers
  <2> QED  BY <2>1, <2>2 DEF SieveStep
<1>3. LooksBelow(G, A, V, rank)
  <2> SUFFICES ASSUME NEW i \in A, NEW f \in [A -> V], NEW g \in [A -> V],
                      AgreeBelow(f, g, A, rank, rank[i])
               PROVE  SieveStep(i, f) = SieveStep(i, g)
    BY DEF LooksBelow
  <2>1. i # 2 => i - 1 \in A /\ rank[i - 1] < rank[i]  BY <1>0
  <2>2. i # 2 => f[i - 1] = g[i - 1]  BY <2>1 DEF AgreeBelow
  <2> QED  BY <2>2 DEF SieveStep
<1>4. Recursive(G, A, V, rank)  BY <1>1, <1>2, <1>3 DEF Recursive
<1> HIDE DEF rank, G, A, V
<1>5. PICK f \in [A -> V] : \A i \in A : f[i] = G[<<i, f>>]
  BY <1>4, RecursiveFunctionExists
<1>6. f = [i \in A |-> SieveStep(i, f)]  BY <1>5 DEF G
<1> DEFINE Eq(b) == b = [i \in A |-> SieveStep(i, b)]
           c == CHOOSE b : Eq(b)
<1>7. Eq(c)  BY <1>6
<1>8. Crossed = c[MaxPrime]  BY DEF Crossed, SieveStep, A
<1> HIDE DEF c
<1>9. \A i \in A : c[i] = SieveStep(i, c)  BY <1>7
<1> QED  BY <1>8, <1>9 DEF A

\* One round of the sieve.
LEMMA SieveRound ==
  ASSUME NEW i \in Nat, i >= 2
  PROVE  Composite(i + 1) = IF i \in Composite(i) THEN Composite(i)
                            ELSE Composite(i) \union Multiples(i)
<1>0. MaxPrime \in Nat /\ MaxPrime >= 2  BY PrimeAssumption
<1>1. \A d : d \in 2 .. i + 1 - 1 <=> d \in 2 .. i - 1 \/ d = i  OBVIOUS
<1>2. \A j : j \in Multiples(i) <=> j \in Numbers /\ 2 * i <= j /\ j % i = 0
  BY <1>0 DEF Multiples, Numbers
<1>3. Composite(i + 1) = Composite(i) \union Multiples(i)  BY <1>1, <1>2 DEF Composite
<1>4. ASSUME i \in Composite(i) PROVE Multiples(i) \subseteq Composite(i)
  <2> SUFFICES ASSUME NEW j \in Multiples(i) PROVE j \in Composite(i)  OBVIOUS
  <2>1. PICK d \in 2 .. i - 1 : 2 * d <= i /\ i % d = 0  BY <1>4 DEF Composite
  <2>2. j \in Numbers /\ 2 * i <= j /\ j % i = 0 /\ j \in Int  BY <1>0, <1>2 DEF Numbers
  <2>3. d \in Int /\ d > 0 /\ i \in Int /\ i > 0 /\ 2 * d <= j  BY <2>1, <2>2
  <2>4. PICK a \in Int : i = d * a  BY <2>1, <2>3, DividesMod DEF Divides
  <2>5. PICK b \in Int : j = i * b  BY <2>2, <2>3, DividesMod DEF Divides
  <2>6. j = d * (a * b) /\ a * b \in Int
    <3>1. (d * a) * b = d * (a * b) /\ a * b \in Int  BY <2>3
    <3> QED  BY <2>4, <2>5, <3>1
  <2>7. Divides(d, j)  BY <2>6 DEF Divides
  <2>8. j % d = 0  BY <2>2, <2>3, <2>7, DividesMod
  <2> QED  BY <2>2, <2>3, <2>8 DEF Composite
<1> QED  BY <1>3, <1>4

\* The sieve crosses out the numbers with a divisor of their own, and no other.
LEMMA CrossedExact == Crossed = Composite(MaxPrime)
<1>0. MaxPrime \in Nat /\ MaxPrime >= 2  BY PrimeAssumption
<1>1. PICK f : /\ Crossed = f[MaxPrime]
               /\ \A i \in 2 .. MaxPrime : f[i] = SieveStep(i, f)
  BY SieveUnfolds
<1> DEFINE S == {n \in Nat : n + 2 <= MaxPrime => f[n + 2] = Composite(n + 2)}
<1>2. 0 \in S
  <2>1. 2 \in 2 .. MaxPrime /\ 0 + 2 = 2  BY <1>0
  <2>2. f[2] = {}  BY <1>1, <2>1 DEF SieveStep
  <2>3. Composite(2) = {}
    <3>1. 2 .. 2 - 1 = {}  OBVIOUS
    <3> QED  BY <3>1 DEF Composite
  <2> QED  BY <2>1, <2>2, <2>3
<1>3. ASSUME NEW n \in Nat, n \in S PROVE n + 1 \in S
  <2> SUFFICES ASSUME n + 1 + 2 <= MaxPrime PROVE f[n + 1 + 2] = Composite(n + 1 + 2)  OBVIOUS
  <2> DEFINE i == n + 2
  <2>1. /\ i \in Nat /\ i >= 2 /\ n + 1 + 2 = i + 1 /\ i + 1 \in 2 .. MaxPrime
        /\ i + 1 # 2 /\ i + 1 - 1 = i /\ i <= MaxPrime
    BY <1>0
  <2>2. f[i] = Composite(i)  BY <1>3, <2>1
  <2>3. f[i + 1] = SieveStep(i + 1, f)  BY <1>1, <2>1
  <2> HIDE DEF i
  <2>4. f[i + 1] = IF i \in f[i] THEN f[i] ELSE f[i] \union Multiples(i)
    BY <2>1, <2>3 DEF SieveStep
  <2> QED  BY <2>1, <2>2, <2>4, SieveRound
<1> HIDE DEF S
<1>4. \A n \in Nat : n \in S  BY <1>2, <1>3, Induction
<1>5. MaxPrime - 2 \in Nat /\ MaxPrime - 2 + 2 = MaxPrime /\ MaxPrime <= MaxPrime  BY <1>0
<1>6. f[MaxPrime] = Composite(MaxPrime)  BY <1>4, <1>5 DEF S
<1> QED  BY <1>1, <1>6

\* What the sieve leaves.
LEMMA LeftArePrimes ==
  ASSUME NEW i \in Numbers, i >= 2
  PROVE  i \notin Crossed <=> IsPrime(i)
<1>0. MaxPrime \in Nat /\ MaxPrime >= 2 /\ i \in Int /\ i < MaxPrime
  BY PrimeAssumption DEF Numbers
<1>1. ASSUME i \in Crossed PROVE ~ IsPrime(i)
  <2>1. PICK d \in 2 .. MaxPrime - 1 : 2 * d <= i /\ i % d = 0  BY <1>1, CrossedExact DEF Composite
  <2>2. d \in 2 .. i - 1  BY <1>0, <2>1
  <2> QED  BY <2>1, <2>2 DEF IsPrime
<1>2. ASSUME ~ IsPrime(i) PROVE i \in Crossed
  <2>1. PICK d \in 2 .. i - 1 : i % d = 0  BY <1>0, <1>2, SMTT(30) DEF IsPrime
  <2>2. d \in Int /\ d > 0 /\ d >= 2 /\ d < i /\ d \in 2 .. MaxPrime - 1  BY <1>0
  <2>3. PICK a \in Int : i = d * a  BY <1>0, <2>1, <2>2, DividesMod DEF Divides
  <2>4. a >= 2
    <3>1. CASE a <= 0
      <4>1. d * a <= 0  BY <2>2, <3>1
      <4> QED  BY <2>2, <2>3, <4>1
    <3>2. CASE a = 1  BY <2>2, <2>3, <3>2
    <3> QED  BY <3>1, <3>2
  <2>5. 2 * d <= i
    <3>1. d * a >= d * 2  BY <2>2, <2>4
    <3> QED  BY <2>2, <2>3, <3>1
  <2> QED  BY <2>1, <2>2, <2>5, CrossedExact DEF Composite
<1> QED  BY <1>1, <1>2
------------------------------------------------------------------------------
(***************************************************************************)
(* What the table keeps of them.                                           *)
(***************************************************************************)

Left(i) == (0 .. i) \ Crossed
KeptTo(i) == {j \in Kept : j <= i}

\* Counting on by one number.
LEMMA LeftFacts ==
  ASSUME NEW i \in Nat
  PROVE  /\ IsFiniteSet(Left(i)) /\ Count(0, i) = Cardinality(Left(i)) /\ Count(0, i) \in Nat
         /\ Count(0, i + 1) = IF i + 1 \in Crossed THEN Count(0, i) ELSE Count(0, i) + 1
<1>1. IsFiniteSet(0 .. i)  BY FS_Interval
<1>2. IsFiniteSet(Left(i))
  <2>1. Left(i) \in SUBSET (0 .. i)  BY DEF Left
  <2> QED  BY <1>1, <2>1, FS_Subset
<1>3. Count(0, i) = Cardinality(Left(i))  BY DEF Count, Left
<1>4. Cardinality(Left(i)) \in Nat  BY <1>2, FS_CardinalityType
<1>5. Count(0, i + 1) = Cardinality(Left(i + 1))  BY DEF Count, Left
<1>6. Left(i + 1) = IF i + 1 \in Crossed THEN Left(i) ELSE Left(i) \union {i + 1}
  <2>1. 0 .. i + 1 = (0 .. i) \union {i + 1}  OBVIOUS
  <2> QED  BY <2>1 DEF Left
<1>7. i + 1 \notin Left(i)  BY DEF Left
<1>8. Cardinality(Left(i) \union {i + 1}) = Cardinality(Left(i)) + 1  BY <1>2, <1>7, FS_AddElement
<1> QED  BY <1>2, <1>3, <1>4, <1>5, <1>6, <1>8

\* Counting on by one passes a multiple of the stride or does not.
LEMMA NextQuotient ==
  ASSUME NEW c \in Nat
  PROVE  /\ c \div Stride \in Nat
         /\ (c + 1) \div Stride = IF (c + 1) % Stride = 0 THEN c \div Stride + 1 ELSE c \div Stride
<1>0. Stride \in Int /\ Stride >= 3  BY PrimeAssumption
<1> DEFINE q == c \div Stride
           r == c % Stride
<1>1. q \in Int /\ r \in Int /\ 0 <= r /\ r < Stride /\ c = Stride * q + r  BY <1>0, DivMod
<1> HIDE DEF q, r
<1>2. q \in Nat
  <2> SUFFICES ASSUME q <= -1 PROVE FALSE  BY <1>1
  <2>1. Stride * q <= -Stride  BY <1>0, <1>1
  <2>2. Stride * q \in Int  BY <1>0, <1>1
  <2> QED  BY <1>0, <1>1, <2>1, <2>2
<1>3. CASE r + 1 = Stride
  <2>1. c + 1 = Stride * (q + 1) + 0  BY <1>0, <1>1, <1>3
  <2>2. (c + 1) % Stride = 0 /\ (c + 1) \div Stride = q + 1
    BY <1>0, <1>1, <2>1, ModOf
  <2> QED  BY <1>2, <2>2 DEF q
<1>4. CASE r + 1 # Stride
  <2>1. c + 1 = Stride * q + (r + 1) /\ r + 1 \in Int /\ 0 <= r + 1 /\ r + 1 < Stride
    BY <1>0, <1>1, <1>4
  <2>2. (c + 1) % Stride = r + 1 /\ (c + 1) \div Stride = q
    BY <1>0, <1>1, <2>1, ModOf
  <2>3. r + 1 # 0  BY <1>1
  <2> QED  BY <1>2, <2>2, <2>3 DEF q
<1> QED  BY <1>3, <1>4

\* What the table keeps are primes: 0 and 1 are counted, but a stride of three or
\* more does not keep them.
LEMMA KeptFacts ==
  /\ Kept \subseteq Numbers /\ IsFiniteSet(Kept)
  /\ \A i \in Kept : i >= 2 /\ IsPrime(i)
  /\ \A i \in Nat : IsFiniteSet(KeptTo(i)) /\ Cardinality(KeptTo(i)) \in Nat
<1>0. MaxPrime \in Nat /\ Stride \in Int /\ Stride >= 3  BY PrimeAssumption
<1>1. Kept \subseteq Numbers  BY DEF Kept, Numbers
<1>2. IsFiniteSet(Kept)
  <2>1. IsFiniteSet(Numbers)
    <3>1. 0 \in Int /\ MaxPrime - 1 \in Int  BY <1>0
    <3> QED  BY <3>1, FS_Interval DEF Numbers
  <2> QED  BY <1>1, <2>1, FS_Subset
<1>3. ASSUME NEW i \in Kept PROVE i >= 2 /\ IsPrime(i)
  <2>1. i \in Numbers /\ i \notin Crossed /\ Count(0, i) % Stride = 0 /\ i \in Nat
    BY <1>0 DEF Kept, Numbers
  <2>2. 0 \notin Crossed /\ 1 \notin Crossed
    <3>1. \A d \in 2 .. MaxPrime - 1 : ~ (2 * d <= 0) /\ ~ (2 * d <= 1)  BY <1>0
    <3> QED  BY <3>1, CrossedExact DEF Composite
  <2>3. Count(0, 0) = 1
    <3>1. Left(0) = {0}
      <4>1. 0 .. 0 = {0}  OBVIOUS
      <4> QED  BY <2>2, <4>1 DEF Left
    <3>2. 0 \notin {} /\ {} \union {0} = {0}  OBVIOUS
    <3>3. Cardinality({0}) = 1  BY <3>2, FS_EmptySet, FS_AddElement
    <3> QED  BY <3>1, <3>3, LeftFacts
  <2>4. Count(0, 1) = 2
    <3>1. 0 \in Nat /\ 0 + 1 = 1  OBVIOUS
    <3>2. Count(0, 0 + 1) = IF 0 + 1 \in Crossed THEN Count(0, 0) ELSE Count(0, 0) + 1
      BY <3>1, LeftFacts
    <3> QED  BY <2>2, <2>3, <3>1, <3>2
  <2>5. 1 % Stride = 1 /\ 2 % Stride = 2
    <3>1. 1 = Stride * 0 + 1 /\ 2 = Stride * 0 + 2  BY <1>0
    <3>2. 0 \in Int /\ 1 \in Int /\ 2 \in Int /\ 0 <= 1 /\ 1 < Stride /\ 0 <= 2 /\ 2 < Stride /\ Stride > 0
      BY <1>0
    <3>3. 1 % Stride = 1  BY <1>0, <3>1, <3>2, ModOf
    <3>4. 2 % Stride = 2  BY <1>0, <3>1, <3>2, ModOf
    <3> QED  BY <3>3, <3>4
  <2>6. i # 0 /\ i # 1  BY <2>1, <2>3, <2>4, <2>5
  <2>7. i >= 2  BY <2>1, <2>6
  <2> QED  BY <2>1, <2>7, LeftArePrimes
<1>4. ASSUME NEW i \in Nat PROVE IsFiniteSet(KeptTo(i)) /\ Cardinality(KeptTo(i)) \in Nat
  <2>1. KeptTo(i) \in SUBSET Kept  BY DEF KeptTo
  <2>2. IsFiniteSet(KeptTo(i))  BY <1>2, <2>1, FS_Subset
  <2> QED  BY <2>2, FS_CardinalityType
<1> QED  BY <1>1, <1>2, <1>3, <1>4

\* How many are kept up to i.
LEMMA KeptCounted ==
  \A i \in Numbers : Cardinality(KeptTo(i)) = Count(0, i) \div Stride
<1>0. MaxPrime \in Nat /\ MaxPrime >= 2 /\ Stride \in Int /\ Stride >= 3  BY PrimeAssumption
<1> DEFINE R(i) == Cardinality(KeptTo(i))
           S == {i \in Nat : i \in Numbers => R(i) = Count(0, i) \div Stride}
<1>1. 0 \in S
  <2>1. KeptTo(0) = {}
    <3> SUFFICES ASSUME NEW j \in Kept, j <= 0 PROVE FALSE  BY DEF KeptTo
    <3>1. j >= 2 /\ j \in Nat  BY <1>0, KeptFacts DEF Numbers
    <3> QED  BY <3>1
  <2>2. R(0) = 0  BY <2>1, FS_EmptySet
  <2>3. Count(0, 0) <= 1 /\ Count(0, 0) \in Nat
    <3>1. Left(0) \subseteq {0}  BY DEF Left
    <3>2. Cardinality({0}) = 1 /\ IsFiniteSet({0})
      <4>1. 0 \notin {} /\ {} \union {0} = {0}  OBVIOUS
      <4> QED  BY <4>1, FS_EmptySet, FS_AddElement
    <3>3. Cardinality(Left(0)) <= 1  BY <3>1, <3>2, FS_Subset
    <3> QED  BY <3>3, LeftFacts
  <2>4. Count(0, 0) \div Stride = 0
    <3> DEFINE c == Count(0, 0)
    <3> HIDE DEF c
    <3>1. c \in Int /\ 0 <= c /\ c < Stride /\ c = Stride * 0 + c /\ 0 \in Int /\ Stride > 0
      BY <1>0, <2>3 DEF c
    <3> QED  BY <1>0, <3>1, ModOf DEF c
  <2> QED  BY <2>2, <2>4
<1>2. ASSUME NEW i \in Nat, i \in S PROVE i + 1 \in S
  <2> SUFFICES ASSUME i + 1 \in Numbers PROVE R(i + 1) = Count(0, i + 1) \div Stride  OBVIOUS
  <2>1. i \in Numbers /\ i + 1 \in Nat  BY <1>0 DEF Numbers
  <2>2. R(i) = Count(0, i) \div Stride  BY <1>2, <2>1
  <2>3. KeptTo(i + 1) = IF i + 1 \in Kept THEN KeptTo(i) \union {i + 1} ELSE KeptTo(i)
    <3>1. \A j \in Kept : j \in Nat  BY <1>0, KeptFacts DEF Numbers
    <3>2. \A j \in Kept : j <= i + 1 <=> j <= i \/ j = i + 1  BY <3>1
    <3> QED  BY <3>2 DEF KeptTo
  <2>4. i + 1 \notin KeptTo(i) /\ IsFiniteSet(KeptTo(i)) /\ R(i) \in Nat  BY KeptFacts DEF KeptTo
  <2>5. R(i + 1) = IF i + 1 \in Kept THEN R(i) + 1 ELSE R(i)
    BY <2>3, <2>4, FS_AddElement
  <2>6. i + 1 \in Kept <=> i + 1 \notin Crossed /\ Count(0, i + 1) % Stride = 0
    BY <2>1 DEF Kept, Numbers
  <2>7. /\ Count(0, i) \in Nat
        /\ Count(0, i + 1) = IF i + 1 \in Crossed THEN Count(0, i) ELSE Count(0, i) + 1
    BY LeftFacts
  <2> HIDE DEF R
  <2>8. CASE i + 1 \in Crossed  BY <2>2, <2>5, <2>6, <2>7, <2>8
  <2>9. CASE i + 1 \notin Crossed
    <3> DEFINE c == Count(0, i)
    <3>1. c \in Nat /\ Count(0, i + 1) = c + 1  BY <2>7, <2>9
    <3> HIDE DEF c
    <3>2. (c + 1) \div Stride = IF (c + 1) % Stride = 0 THEN c \div Stride + 1 ELSE c \div Stride
      BY <3>1, NextQuotient
    <3>3. R(i) = c \div Stride  BY <2>2 DEF c
    <3> QED  BY <2>5, <2>6, <2>9, <3>1, <3>2, <3>3
  <2> QED  BY <2>8, <2>9
<1> HIDE DEF S
<1>3. \A i \in Nat : i \in S  BY <1>1, <1>2, Induction
<1>4. \A i \in Numbers : i \in Nat  BY <1>0 DEF Numbers
<1> QED  BY <1>3, <1>4 DEF S

\* Dividing by the stride keeps the order.
LEMMA QuotientsAscend ==
  ASSUME NEW a \in Nat, NEW b \in Nat, a <= b
  PROVE  a \div Stride <= b \div Stride
<1>0. Stride \in Int /\ Stride >= 3  BY PrimeAssumption
<1> DEFINE p == a \div Stride
           q == b \div Stride
<1>1. p \in Int /\ a % Stride \in Int /\ 0 <= a % Stride /\ a = Stride * p + (a % Stride)
  BY <1>0, DivMod
<1>2. q \in Int /\ b % Stride \in Int /\ b % Stride < Stride /\ b = Stride * q + (b % Stride)
  BY <1>0, DivMod
<1> DEFINE r == a % Stride
           s == b % Stride
<1>3. r \in Int /\ s \in Int /\ 0 <= r /\ s < Stride /\ a = Stride * p + r /\ b = Stride * q + s
  BY <1>1, <1>2
<1> HIDE DEF p, q, r, s
<1> SUFFICES ASSUME p >= q + 1 PROVE FALSE  BY <1>1, <1>2 DEF p, q
<1>4. Stride * p >= Stride * (q + 1)  BY <1>0, <1>1, <1>2
<1>5. Stride * (q + 1) = Stride * q + Stride /\ Stride * q \in Int /\ Stride * p \in Int
  BY <1>0, <1>1, <1>2
<1> QED  BY <1>0, <1>3, <1>4, <1>5

\* The second loop of prime_init counts at least what the first one does.
LEMMA EnoughKept ==
  /\ PrimeSize \in Nat /\ Cardinality(Kept) \in Nat /\ PrimeSize <= Cardinality(Kept)
  /\ KeptTo(MaxPrime - 1) = Kept /\ MaxPrime - 1 \in Numbers
<1>0. MaxPrime \in Nat /\ MaxPrime >= 2  BY PrimeAssumption
<1> DEFINE N == MaxPrime - 1
<1>1. N \in Nat /\ N \in Numbers  BY <1>0 DEF Numbers
<1>2. KeptTo(N) = Kept
  <2>1. \A j \in Kept : j <= N  BY <1>0, KeptFacts DEF Numbers
  <2> QED  BY <2>1 DEF KeptTo
<1>3. Cardinality(Kept) = Count(0, N) \div Stride  BY <1>1, <1>2, KeptCounted
<1>4. IsFiniteSet(Left(N)) /\ Count(0, N) = Cardinality(Left(N)) /\ Count(0, N) \in Nat
  BY <1>1, LeftFacts
<1>5. Count(2, N) \in Nat /\ Count(2, N) <= Count(0, N)
  <2>1. (2 .. N) \ Crossed \in SUBSET Left(N)  BY <1>1 DEF Left
  <2> HIDE DEF N
  <2>2. /\ IsFiniteSet((2 .. N) \ Crossed)
        /\ Cardinality((2 .. N) \ Crossed) <= Cardinality(Left(N))
    BY <1>4, <2>1, FS_Subset
  <2>3. Cardinality((2 .. N) \ Crossed) \in Nat  BY <2>2, FS_CardinalityType
  <2> QED  BY <1>4, <2>2, <2>3 DEF Count
<1>6. PrimeSize = Count(2, N) \div Stride  BY DEF PrimeSize
<1> HIDE DEF N
<1>7. PrimeSize \in Nat /\ Cardinality(Kept) \in Nat  BY <1>3, <1>4, <1>5, <1>6, NextQuotient
<1>8. PrimeSize <= Cardinality(Kept)  BY <1>3, <1>4, <1>5, <1>6, QuotientsAscend
<1> QED  BY <1>1, <1>2, <1>7, <1>8 DEF N

\* Each rank up to the counted size is taken by a kept number.
LEMMA RankTaken ==
  ASSUME NEW k \in 1 .. PrimeSize
  PROVE  \E i \in Kept : Cardinality(KeptTo(i)) = k
<1>0. MaxPrime \in Nat /\ MaxPrime >= 2  BY PrimeAssumption
<1> DEFINE R(i) == Cardinality(KeptTo(i))
           S == {i \in Numbers : R(i) >= k}
<1>1. S \in SUBSET Nat /\ S # {}
  <2>1. R(MaxPrime - 1) >= k /\ MaxPrime - 1 \in Numbers  BY EnoughKept
  <2> QED  BY <1>0, <2>1 DEF Numbers
<1>2. PICK i \in S : \A m \in S : i <= m
  <2> HIDE DEF S
  <2> QED  BY <1>1, Least
<1>3. i \in Nat /\ i \in Numbers /\ R(i) >= k /\ R(i) \in Nat  BY <1>0, KeptFacts DEF Numbers
<1>4. i # 0
  <2> SUFFICES ASSUME i = 0 PROVE FALSE  OBVIOUS
  <2>1. KeptTo(0) = {}
    <3> SUFFICES ASSUME NEW j \in Kept, j <= 0 PROVE FALSE  BY DEF KeptTo
    <3>1. j >= 2 /\ j \in Nat  BY <1>0, KeptFacts DEF Numbers
    <3> QED  BY <3>1
  <2>2. R(i) = 0  BY <2>1, FS_EmptySet
  <2> QED  BY <1>3, <2>2, EnoughKept
<1>5. i - 1 \in Nat /\ i - 1 \in Numbers /\ R(i - 1) \in Nat /\ IsFiniteSet(KeptTo(i - 1))
  <2>1. i - 1 \in Nat /\ i - 1 \in Numbers  BY <1>0, <1>3, <1>4 DEF Numbers
  <2> QED  BY <2>1, KeptFacts
<1>6. R(i - 1) < k
  <2>1. i - 1 \notin S  BY <1>2, <1>3, <1>5
  <2> QED  BY <1>5, <2>1, EnoughKept
<1>7. KeptTo(i) = IF i \in Kept THEN KeptTo(i - 1) \union {i} ELSE KeptTo(i - 1)
  <2>1. \A j \in Kept : j \in Nat  BY <1>0, KeptFacts DEF Numbers
  <2>2. \A j \in Kept : j <= i <=> j <= i - 1 \/ j = i  BY <1>3, <2>1
  <2> QED  BY <2>2 DEF KeptTo
<1>8. i \in Kept
  <2> SUFFICES ASSUME i \notin Kept PROVE FALSE  OBVIOUS
  <2>1. R(i) = R(i - 1)  BY <1>7
  <2> HIDE DEF R
  <2> QED  BY <1>3, <1>5, <1>6, <2>1, EnoughKept
<1>9. R(i) = R(i - 1) + 1
  <2>1. i \notin KeptTo(i - 1)  BY <1>3 DEF KeptTo
  <2> QED  BY <1>5, <1>7, <1>8, <2>1, FS_AddElement
<1>10. R(i) = k
  <2> HIDE DEF R
  <2> QED  BY <1>3, <1>5, <1>6, <1>9, EnoughKept
<1> QED  BY <1>8, <1>10

\* Kept numbers of ascending ranks ascend.
LEMMA RanksAscend ==
  ASSUME NEW i \in Kept, NEW j \in Kept, Cardinality(KeptTo(i)) < Cardinality(KeptTo(j))
  PROVE  i < j
<1>0. MaxPrime \in Nat /\ i \in Nat /\ j \in Nat  BY PrimeAssumption, KeptFacts DEF Numbers
<1> SUFFICES ASSUME j <= i PROVE FALSE  BY <1>0
<1>1. KeptTo(j) \in SUBSET KeptTo(i)
  <2>1. \A m \in Kept : m \in Nat  BY <1>0, KeptFacts DEF Numbers
  <2>2. \A m \in Kept : m <= j => m <= i  BY <1>0, <2>1
  <2> QED  BY <2>2 DEF KeptTo
<1>2. IsFiniteSet(KeptTo(i)) /\ Cardinality(KeptTo(i)) \in Nat /\ Cardinality(KeptTo(j)) \in Nat
  BY <1>0, KeptFacts
<1>3. Cardinality(KeptTo(j)) <= Cardinality(KeptTo(i))  BY <1>1, <1>2, FS_Subset
<1> QED  BY <1>2, <1>3

\* The table of primes is written to its end with ascending primes.
LEMMA TableFacts ==
  /\ Table \in Seq(Nat) /\ Len(Table) = PrimeSize
  /\ \A k \in 1 .. Len(Table) : Table[k] \in Nat /\ IsPrime(Table[k]) /\ Table[k] < MaxPrime
  /\ \A k, m \in 1 .. Len(Table) : k < m => Table[k] < Table[m]
<1>0. MaxPrime \in Nat /\ PrimeSize \in Nat  BY PrimeAssumption, EnoughKept
<1>1. ASSUME NEW k \in 1 .. PrimeSize
      PROVE  Table[k] \in Kept /\ Cardinality(KeptTo(Table[k])) = k
  <2>1. ~ (k > Cardinality(Kept))  BY EnoughKept
  <2>2. Table[k] = CHOOSE i \in Kept : Cardinality(KeptTo(i)) = k  BY <2>1 DEF Table, KeptTo
  <2>3. \E i \in Kept : Cardinality(KeptTo(i)) = k  BY RankTaken
  <2> QED  BY <2>2, <2>3
<1>2. \A i \in Kept : i \in Nat /\ IsPrime(i) /\ i < MaxPrime  BY <1>0, KeptFacts DEF Numbers
<1>3. Table = [k \in 1 .. PrimeSize |-> Table[k]]  BY DEF Table
<1>4. Table \in Seq(Nat) /\ Len(Table) = PrimeSize
  <2>1. \A k \in 1 .. PrimeSize : Table[k] \in Nat  BY <1>1, <1>2
  <2>2. Table \in [1 .. PrimeSize -> Nat]  BY <1>3, <2>1
  <2>3. Table \in Seq(Nat)  BY <1>0, <2>2, SeqDef
  <2>4. DOMAIN Table = 1 .. PrimeSize  BY <2>2
  <2>5. Len(Table) \in Nat /\ DOMAIN Table = 1 .. Len(Table)  BY <2>3, LenProperties
  <2> QED  BY <1>0, <2>3, <2>4, <2>5
<1>5. ASSUME NEW k \in 1 .. PrimeSize, NEW m \in 1 .. PrimeSize, k < m PROVE Table[k] < Table[m]
  BY <1>1, <1>5, RanksAscend
<1> QED  BY <1>1, <1>2, <1>4, <1>5
------------------------------------------------------------------------------
(***************************************************************************)
(* The search of hash_create.                                              *)
(***************************************************************************)

\* The body of the search.
SearchStep(t, number, l, r, f) ==
  IF l + 1 = r THEN t[r]
  ELSE LET mid == (l + r) \div 2 IN
       IF Enough(t[mid], number) THEN f[<<l, mid>>] ELSE f[<<mid, r>>]

\* The middle lies between the ends.
LEMMA Middle ==
  ASSUME NEW l \in Nat, NEW r \in Nat
  PROVE  /\ (l + r) \div 2 \in Nat
         /\ l < r /\ l + 1 # r => l < (l + r) \div 2 /\ (l + r) \div 2 < r
         /\ ~ (l < r) => r <= (l + r) \div 2 /\ (l + r) \div 2 <= l
OBVIOUS

\* The search is a recursive function that exists: between the ends the distance shrinks.
LEMMA SearchUnfolds ==
  ASSUME NEW t \in Seq(Nat), NEW number
  PROVE  \E f : /\ Search(t, number) = f[<<0, Len(t)>>]
                /\ \A l, r \in 0 .. Len(t) : l < r => f[<<l, r>>] = SearchStep(t, number, l, r, f)
<1> DEFINE B == 0 .. Len(t)
           A == B \X B
           Body(l, r, f) == IF l < r THEN SearchStep(t, number, l, r, f) ELSE 0
           G == [q \in A \X [A -> Nat] |-> Body(q[1][1], q[1][2], q[2])]
           rank == [a \in A |-> IF a[1] < a[2] THEN a[2] - a[1] ELSE 0]
           M(l, r) == (l + r) \div 2
<1>0. Len(t) \in Nat /\ \A k \in 1 .. Len(t) : t[k] \in Nat  BY LenProperties
<1>1. rank \in [A -> Nat]  BY <1>0
<1>2. ASSUME NEW l \in B, NEW r \in B
      PROVE  /\ M(l, r) \in B /\ r - l \in Int
             /\ l < r /\ l + 1 # r => l < M(l, r) /\ M(l, r) < r
             /\ ~ (l < r) => r <= M(l, r) /\ M(l, r) <= l
  <2>1. l \in Nat /\ r \in Nat /\ l <= Len(t) /\ r <= Len(t)  BY <1>0
  <2>2. /\ M(l, r) \in Nat
        /\ l < r /\ l + 1 # r => l < M(l, r) /\ M(l, r) < r
        /\ ~ (l < r) => r <= M(l, r) /\ M(l, r) <= l
    BY <2>1, Middle
  <2>3. M(l, r) <= Len(t)
    <3> HIDE DEF M
    <3>1. CASE l < r /\ l + 1 # r  BY <1>0, <2>1, <2>2, <3>1
    <3>2. CASE ~ (l < r)  BY <1>0, <2>1, <2>2, <3>2
    <3>3. CASE l + 1 = r
      <4>1. M(l, r) <= r  BY <2>1, <3>3 DEF M
      <4> QED  BY <1>0, <2>1, <2>2, <4>1
    <3> QED  BY <3>1, <3>2, <3>3
  <2> QED  BY <1>0, <2>1, <2>2, <2>3
<1> HIDE DEF M
<1>3. ASSUME NEW l \in B, NEW r \in B, NEW f \in [A -> Nat] PROVE Body(l, r, f) \in Nat
  <2>1. l < r => t[r] \in Nat  BY <1>0
  <2>2. f[<<l, M(l, r)>>] \in Nat /\ f[<<M(l, r), r>>] \in Nat  BY <1>2
  <2> QED  BY <2>1, <2>2 DEF SearchStep, M
<1>4. G \in [A \X [A -> Nat] -> Nat]
  <2> SUFFICES ASSUME NEW a \in A, NEW f \in [A -> Nat] PROVE Body(a[1], a[2], f) \in Nat
    OBVIOUS
  <2> QED  BY <1>3
<1>5. ASSUME NEW l \in B, NEW r \in B, NEW f \in [A -> Nat], NEW g \in [A -> Nat],
             AgreeBelow(f, g, A, rank, rank[<<l, r>>])
      PROVE  Body(l, r, f) = Body(l, r, g)
  <2> SUFFICES ASSUME l < r, l + 1 # r
               PROVE  f[<<l, M(l, r)>>] = g[<<l, M(l, r)>>] /\ f[<<M(l, r), r>>] = g[<<M(l, r), r>>]
    <3>1. CASE ~ (l < r) \/ l + 1 = r  BY <3>1 DEF SearchStep
    <3>2. CASE l < r /\ l + 1 # r  BY <3>2 DEF SearchStep, M
    <3> QED  BY <3>1, <3>2
  <2>1. l \in Nat /\ r \in Nat /\ M(l, r) \in B /\ M(l, r) \in Nat /\ l < M(l, r) /\ M(l, r) < r
    BY <1>0, <1>2
  <2>2. /\ rank[<<l, M(l, r)>>] = M(l, r) - l /\ rank[<<M(l, r), r>>] = r - M(l, r)
        /\ rank[<<l, r>>] = r - l
    BY <2>1
  <2> DEFINE m == M(l, r)
  <2>3. m - l < r - l /\ r - m < r - l
    <3>1. l \in Nat /\ r \in Nat /\ m \in Nat /\ l < m /\ m < r  BY <2>1
    <3> HIDE DEF m
    <3> QED  BY <3>1
  <2> HIDE DEF rank
  <2>4. rank[<<l, m>>] < rank[<<l, r>>] /\ rank[<<m, r>>] < rank[<<l, r>>]  BY <2>2, <2>3
  <2>5. <<l, m>> \in A /\ <<m, r>> \in A  BY <2>1
  <2> QED  BY <1>5, <2>4, <2>5 DEF AgreeBelow
<1>6. Recursive(G, A, Nat, rank)
  <2>1. ASSUME NEW a \in A, NEW f \in [A -> Nat], NEW g \in [A -> Nat],
               AgreeBelow(f, g, A, rank, rank[a])
        PROVE  G[<<a, f>>] = G[<<a, g>>]
    <3>1. PICK l \in B, r \in B : a = <<l, r>>  OBVIOUS
    <3>2. G[<<a, f>>] = Body(l, r, f) /\ G[<<a, g>>] = Body(l, r, g)  BY <3>1
    <3> HIDE DEF rank, A, G, B, Body
    <3>3. AgreeBelow(f, g, A, rank, rank[<<l, r>>])  BY <2>1, <3>1
    <3>4. Body(l, r, f) = Body(l, r, g)  BY <1>5, <3>3
    <3> QED  BY <3>2, <3>4
  <2> QED  BY <1>1, <1>4, <2>1 DEF Recursive, LooksBelow
<1> HIDE DEF rank, G, A
<1>7. PICK f \in [A -> Nat] : \A a \in A : f[a] = G[<<a, f>>]
  BY <1>6, RecursiveFunctionExists
<1> USE DEF A
<1>8. ASSUME NEW l \in B, NEW r \in B PROVE f[<<l, r>>] = Body(l, r, f)
  <2>1. <<l, r>> \in A  OBVIOUS
  <2> QED  BY <1>7, <2>1 DEF G
<1>9. ASSUME NEW l \in B, NEW r \in B PROVE f[<<l, r>>] = SearchStep(t, number, l, r, f)
  <2>1. CASE l < r  BY <1>8, <2>1
  <2>2. CASE ~ (l < r)
    <3>1. /\ l \in Nat /\ r \in Nat /\ l + 1 # r /\ M(l, r) \in B
          /\ ~ (l < M(l, r)) /\ ~ (M(l, r) < r)
      <4> DEFINE m == M(l, r)
      <4>1. m \in B /\ r <= m /\ m <= l /\ l \in Nat /\ r \in Nat /\ m \in Nat
        BY <1>0, <1>2, <2>2
      <4> HIDE DEF m
      <4>2. l + 1 # r /\ ~ (l < m) /\ ~ (m < r)  BY <2>2, <4>1
      <4> QED  BY <4>1, <4>2 DEF m
    <3>2. f[<<l, r>>] = 0 /\ f[<<l, M(l, r)>>] = 0 /\ f[<<M(l, r), r>>] = 0  BY <1>8, <2>2, <3>1
    <3> QED  BY <3>1, <3>2 DEF SearchStep, M
  <2> QED  BY <2>1, <2>2
<1>10. f = [lr \in A |-> SearchStep(t, number, lr[1], lr[2], f)]  BY <1>9
<1> DEFINE Eq(b) == b = [lr \in A |-> SearchStep(t, number, lr[1], lr[2], b)]
           c == CHOOSE b : Eq(b)
<1>11. Eq(c)  BY <1>10
<1>12. Search(t, number) = c[<<0, Len(t)>>]  BY DEF Search, SearchStep
<1> HIDE DEF c
<1>13. \A l, r \in B : c[<<l, r>>] = SearchStep(t, number, l, r, c)  BY <1>11
<1> QED  BY <1>12, <1>13

\* An ascending table.
Ascends(t) == \A k, m \in 1 .. Len(t) : k < m => t[k] < t[m]

\* The search ends at the first entry of at least the wanted size, or at the last
\* entry when there is none.
LEMMA SearchExact ==
  ASSUME NEW t \in Seq(Nat), Len(t) >= 1, Ascends(t), NEW number \in Nat
  PROVE  \E k \in 1 .. Len(t) :
           /\ Search(t, number) = t[k]
           /\ \A m \in 1 .. k - 1 : t[m] < number
           /\ k < Len(t) => t[k] >= number
<1> DEFINE N == Len(t)
           Ends(v) ==
             \E k \in 1 .. N : /\ v = t[k]
                               /\ \A m \in 1 .. k - 1 : t[m] < number
                               /\ k < N => t[k] >= number
<1>0. N \in Nat /\ N >= 1 /\ \A k \in 1 .. N : t[k] \in Nat  BY LenProperties
<1>1. PICK f : /\ Search(t, number) = f[<<0, N>>]
               /\ \A l, r \in 0 .. N : l < r => f[<<l, r>>] = SearchStep(t, number, l, r, f)
  BY SearchUnfolds
<1> DEFINE Between(l, r) == /\ l < r
                            /\ \A m \in 1 .. l : t[m] < number
                            /\ r < N => t[r] >= number
           S == {n \in Nat : \A l, r \in 0 .. N :
                               Between(l, r) /\ r - l <= n => Ends(f[<<l, r>>])}
<1>2. 0 \in S
  <2> SUFFICES ASSUME NEW l \in 0 .. N, NEW r \in 0 .. N, l < r PROVE ~ (r - l <= 0)  OBVIOUS
  <2> QED  BY <1>0
<1>3. ASSUME NEW n \in Nat, n \in S PROVE n + 1 \in S
  <2> SUFFICES ASSUME NEW l \in 0 .. N, NEW r \in 0 .. N, Between(l, r), r - l <= n + 1
               PROVE  Ends(f[<<l, r>>])
    <3> HIDE DEF Between, Ends
    <3> QED  OBVIOUS
  <2>1. f[<<l, r>>] = SearchStep(t, number, l, r, f)  BY <1>1
  <2>2. l \in Nat /\ r \in Nat /\ r \in 1 .. N /\ l < r  BY <1>0
  <2>3. CASE l + 1 = r
    <3>1. f[<<l, r>>] = t[r]  BY <2>1, <2>3 DEF SearchStep
    <3>2. \A m \in 1 .. r - 1 : t[m] < number
      <4>1. r - 1 = l  BY <2>2, <2>3
      <4> QED  BY <4>1
    <3> QED  BY <2>2, <3>1, <3>2
  <2>4. CASE l + 1 # r
    <3> DEFINE mid == (l + r) \div 2
    <3>1. mid \in Nat /\ l < mid /\ mid < r  BY <2>2, <2>4, Middle
    <3>2. f[<<l, r>>] = IF Enough(t[mid], number) THEN f[<<l, mid>>] ELSE f[<<mid, r>>]
      BY <2>1, <2>4 DEF SearchStep
    <3> HIDE DEF mid
    <3>3. mid \in 1 .. N /\ mid \in 0 .. N /\ mid - l <= n /\ r - mid <= n
      BY <1>0, <2>2, <3>1
    <3>4. CASE t[mid] >= number
      <4>1. Between(l, mid)  BY <3>1, <3>4
      <4>2. Ends(f[<<l, mid>>])
        <5> HIDE DEF Between, Ends
        <5> QED  BY <1>3, <3>3, <4>1
      <4> QED  BY <3>2, <3>4, <4>2 DEF Enough
    <3>5. CASE ~ (t[mid] >= number)
      <4>1. \A m \in 1 .. mid : t[m] < number
        <5> SUFFICES ASSUME NEW m \in 1 .. mid PROVE t[m] < number  OBVIOUS
        <5>1. m \in 1 .. N /\ t[m] \in Nat /\ t[mid] \in Nat /\ t[mid] < number
          BY <1>0, <3>1, <3>3, <3>5
        <5>2. m < mid => t[m] < t[mid]  BY <3>3, <5>1 DEF Ascends
        <5>3. m = mid \/ m < mid  BY <3>1
        <5> QED  BY <5>1, <5>2, <5>3
      <4>2. Between(mid, r)  BY <3>1, <4>1
      <4>3. Ends(f[<<mid, r>>])
        <5> HIDE DEF Between, Ends
        <5> QED  BY <1>3, <3>3, <4>2
      <4> QED  BY <3>2, <3>5, <4>3 DEF Enough
    <3> QED  BY <3>4, <3>5
  <2> QED  BY <2>3, <2>4
<1>4. Between(0, N) /\ N - 0 <= N /\ 0 \in 0 .. N /\ N \in 0 .. N
  <2>1. 1 .. 0 = {}  OBVIOUS
  <2> QED  BY <1>0, <2>1
<1> HIDE DEF Between, Ends
<1>5. N \in S
  <2> HIDE DEF S
  <2>1. \A n \in Nat : n \in S  BY <1>2, <1>3, Induction
  <2> QED  BY <1>0, <2>1
<1>6. Ends(f[<<0, N>>])
  <2> HIDE DEF N
  <2> QED  BY <1>4, <1>5
<1>7. Ends(Search(t, number))  BY <1>1, <1>6
<1> QED  BY <1>7 DEF Ends

\* The size of a hash table: the smallest prime of the table that leaves it half
\* empty, or none.
LEMMA SizeFacts ==
  ASSUME Table # << >>, NEW number \in Nat
  PROVE  LET fit == {k \in 1 .. Len(Table) : Table[k] >= 2 * number}
         IN  /\ SizeFor(Table, number) = NoSize <=> fit = {}
             /\ fit # {} => /\ SizeFor(Table, number) \in {Table[k] : k \in fit}
                            /\ \A k \in fit : SizeFor(Table, number) <= Table[k]
<1> DEFINE fit == {k \in 1 .. Len(Table) : Table[k] >= 2 * number}
           N == Len(Table)
           goal == /\ SizeFor(Table, number) = NoSize <=> fit = {}
                   /\ fit # {} => /\ SizeFor(Table, number) \in {Table[k] : k \in fit}
                                  /\ \A k \in fit : SizeFor(Table, number) <= Table[k]
<1> SUFFICES goal  OBVIOUS
<1>0. /\ MaxPrime \in Nat /\ 2 * number \in Nat /\ N \in Nat /\ Table \in Seq(Nat)
      /\ \A k \in 1 .. N : Table[k] \in Nat /\ Table[k] > 1 /\ Table[k] < MaxPrime
      /\ \A k, m \in 1 .. N : k < m => Table[k] < Table[m]
  BY PrimeAssumption, TableFacts, LenProperties DEF IsPrime
<1>1. N >= 1  BY <1>0
<1>2. PICK k \in 1 .. N : /\ Search(Table, 2 * number) = Table[k]
                          /\ \A m \in 1 .. k - 1 : Table[m] < 2 * number
                          /\ k < N => Table[k] >= 2 * number
  BY <1>0, <1>1, SearchExact DEF Ascends
<1>3. CASE 2 * number >= MaxPrime
  <2>1. SizeFor(Table, number) = NoSize  BY <1>3 DEF SizeFor
  <2>2. fit = {}  BY <1>0, <1>3
  <2> QED  BY <2>1, <2>2
<1>4. CASE ~ (2 * number >= MaxPrime) /\ Table[k] < 2 * number
  <2>1. SizeFor(Table, number) = NoSize  BY <1>2, <1>4 DEF SizeFor
  <2>2. k = N  BY <1>0, <1>2, <1>4
  <2>3. \A m \in 1 .. N : Table[m] < 2 * number
    <3>1. \A m \in 1 .. N : m = N \/ m \in 1 .. N - 1  BY <1>0
    <3> QED  BY <1>2, <1>4, <2>2, <3>1
  <2>4. fit = {}  BY <1>0, <2>3
  <2> QED  BY <2>1, <2>4
<1>5. CASE ~ (2 * number >= MaxPrime) /\ ~ (Table[k] < 2 * number)
  <2>1. SizeFor(Table, number) = Table[k]  BY <1>2, <1>5 DEF SizeFor
  <2>2. k \in fit  BY <1>0, <1>5
  <2>3. Table[k] # NoSize  BY <1>0 DEF NoSize
  <2>4. ASSUME NEW m \in fit PROVE Table[k] <= Table[m]
    <3>1. m \in 1 .. N /\ Table[m] >= 2 * number /\ Table[m] \in Nat /\ Table[k] \in Nat
      BY <1>0
    <3>2. m \notin 1 .. k - 1  BY <1>0, <1>2, <3>1
    <3>3. m = k \/ k < m  BY <1>0, <3>1, <3>2
    <3>4. k < m => Table[k] < Table[m]  BY <1>0, <3>1
    <3> QED  BY <3>1, <3>3, <3>4
  <2> HIDE DEF fit
  <2> QED  BY <2>1, <2>2, <2>3, <2>4
<1> HIDE DEF goal
<1> QED  BY <1>3, <1>4, <1>5

\* The table of primes is not there or is the whole one, and what was asked last
\* was looked for in it.
PrimesInv ==
  /\ prime_size = Len(prime)
  /\ prime = << >> \/ prime = Table
  /\ prime # << >> => asked.number \in Nat /\ asked.size = SizeFor(Table, asked.number)

\* The invariant of the prime table holds in the initial states ...
LEMMA PrimesBegin == PrimesInit => PrimesInv
BY DEF PrimesInit, PrimesInv

\* ... and every call of hash_create keeps it.
LEMMA PrimesKeep == ASSUME PrimesInv, [PrimesNext]_primeVars PROVE PrimesInv'
<1>0. MaxPrime \in Nat /\ Len(Table) = PrimeSize /\ PrimeSize \in Nat
  BY PrimeAssumption, TableFacts, EnoughKept
<1>1. ASSUME NEW number \in 0 .. MaxPrime, Ask(number) PROVE PrimesInv'
  <2>1. prime' = Table  BY <1>1 DEF Ask, PrimesInv
  <2>2. prime_size' = Len(Table)
    <3>1. CASE prime = << >>
      <4>1. prime_size = 0  BY <3>1 DEF PrimesInv
      <4> QED  BY <1>0, <1>1, <3>1, <4>1 DEF Ask
    <3>2. CASE prime # << >>  BY <1>1, <3>2 DEF Ask, PrimesInv
    <3> QED  BY <3>1, <3>2
  <2>3. asked' = [number |-> number, size |-> SizeFor(Table, number)]  BY <1>1, <2>1 DEF Ask
  <2>4. number \in Nat  BY <1>0
  <2> QED  BY <2>1, <2>2, <2>3, <2>4 DEF PrimesInv
<1>2. ASSUME UNCHANGED primeVars PROVE PrimesInv'  BY <1>2 DEF primeVars, PrimesInv
<1> QED  BY <1>1, <1>2 DEF PrimesNext

\* The prime table is NULL or complete in every reachable state.
LEMMA PrimesInvariance == PrimesSpec => []PrimesInv
<1>1. PrimesInv /\ [PrimesNext]_primeVars => PrimesInv'  BY PrimesKeep
<1> QED  BY <1>1, PrimesBegin, PTL DEF PrimesSpec

\* A table that is NULL or complete is sound.
LEMMA TableWritten == PrimesInv => TableSound
<1> SUFFICES ASSUME PrimesInv PROVE TableSound  OBVIOUS
<1>1. CASE prime = << >>
  <2>1. 1 .. Len(prime) = {}  BY <1>1
  <2> QED  BY <2>1 DEF PrimesInv, TableSound
<1>2. CASE prime = Table
  <2>1. Len(Table) \in Nat  BY TableFacts, EnoughKept
  <2>2. ASSUME NEW k \in 1 .. Len(Table), k > 1 PROVE Table[k - 1] < Table[k]
    <3>1. k - 1 \in 1 .. Len(Table) /\ k - 1 < k  BY <2>1, <2>2
    <3> QED  BY <3>1, TableFacts
  <2> QED  BY <1>2, <2>2, TableFacts DEF PrimesInv, TableSound
<1> QED  BY <1>1, <1>2 DEF PrimesInv

\* The size that the last call got is the one wanted.
LEMMA SizeRight == PrimesInv => SizeExact
<1> SUFFICES ASSUME PrimesInv, prime # << >> PROVE SizeExact  BY DEF SizeExact
<1>1. prime = Table /\ asked.number \in Nat /\ asked.size = SizeFor(Table, asked.number)
  BY DEF PrimesInv
<1> DEFINE n == asked.number
           fit == {k \in 1 .. Len(Table) : Table[k] >= 2 * n}
<1>2. n \in Nat /\ Table # << >>  BY <1>1
<1> HIDE DEF n
<1>3. /\ SizeFor(Table, n) = NoSize <=> fit = {}
      /\ fit # {} => /\ SizeFor(Table, n) \in {Table[k] : k \in fit}
                     /\ \A k \in fit : SizeFor(Table, n) <= Table[k]
  BY <1>2, SizeFacts
<1> QED  BY <1>1, <1>3 DEF SizeExact, n

\* However often hash_create is called: the table of primes is written to its counted
\* end, with primes, in ascending order (prime_init counts its size in one loop and
\* fills it in another).
THEOREM TableSafe == PrimesSpec => []TableSound
BY PrimesInvariance, TableWritten, PTL

\* hash_create gets the smallest prime of the table that leaves the hash table half
\* empty, and NULL exactly when there is none.
THEOREM SizeSafe == PrimesSpec => []SizeExact
BY PrimesInvariance, SizeRight, PTL
------------------------------------------------------------------------------
(***************************************************************************)
(* The hash table.                                                         *)
(***************************************************************************)
Cells == [status : {"empty", "alive", "delete"}, key : Nat \union {NoKey}, val : Vals \union {NoVal}]
HashType(g) == g \in [table : [HashSlots -> Cells], deleted : Int, alive : Int]
StoreType(s) == s \in [DOMAIN s -> Vals] /\ DOMAIN s \subseteq Nat /\ IsFiniteSet(DOMAIN s)

\* t holds what s maps: every key of s is alive in one entry, and the probing for
\* it meets no empty one before; no other key is alive.
Reaches(t, k, i) == \A j \in 0 .. i - 1 : t[Probe(k, j)].status # "empty"
Represents(t, s) ==
  /\ \A p \in HashSlots : t[p].status = "alive" =>
       t[p].key \in DOMAIN s /\ t[p].val = s[t[p].key]
  /\ \A p, q \in HashSlots :
       t[p].status = "alive" /\ t[q].status = "alive" /\ t[p].key = t[q].key => p = q
  /\ \A k \in DOMAIN s : \E i \in HashSlots :
       t[Probe(k, i)].status = "alive" /\ t[Probe(k, i)].key = k /\ Reaches(t, k, i)

Extended(s, k, v) == [x \in DOMAIN s \union {k} |-> IF x = k THEN v ELSE s[x]]

\* The size of a hash table is a prime, and at least twice its capacity.
LEMMA EntriesPrime ==
  /\ Entries \in Nat /\ IsPrime(Entries) /\ 2 * Capacity <= Entries
  /\ Capacity \in Nat /\ Capacity >= 1
<1> DEFINE fit == {k \in 1 .. Len(Table) : Table[k] >= 2 * Capacity}
<1>0. Table # << >> /\ Capacity \in Nat /\ Capacity >= 1 /\ Entries # NoSize
  BY HashAssumption DEF Entries
<1>1. /\ Entries = NoSize <=> fit = {}
      /\ fit # {} => Entries \in {Table[k] : k \in fit}
  BY <1>0, SizeFacts DEF Entries
<1>2. PICK k \in 1 .. Len(Table) : Entries = Table[k] /\ Table[k] >= 2 * Capacity
  BY <1>0, <1>1
<1>3. Table[k] \in Nat /\ IsPrime(Table[k])  BY TableFacts
<1> QED  BY <1>0, <1>2, <1>3

\* Probing stays in the table.
LEMMA ProbeType ==
  ASSUME NEW k \in Nat, NEW i \in Nat
  PROVE  Probe(k, i) \in HashSlots
<1>1. Entries \in Int /\ Entries > 0  BY EntriesPrime DEF IsPrime
<1>2. k + i * i \in Int  OBVIOUS
<1> HIDE DEF Entries
<1>3. (k + i * i) % Entries \in Int /\ 0 <= (k + i * i) % Entries /\ (k + i * i) % Entries < Entries
  BY <1>1, <1>2, DivMod
<1> QED  BY <1>1, <1>3 DEF Probe, HashSlots

\* The lowest number of a set that is not empty.
LEMMA LowestFacts ==
  ASSUME NEW S \in SUBSET Nat, S # {}
  PROVE  Lowest(S) \in S /\ \A i \in S : Lowest(S) <= i
<1>1. \E n \in S : \A x \in S : n <= x  BY Least
<1> QED  BY <1>1 DEF Lowest

\* Where the probing ends.
LEMMA EndFacts ==
  ASSUME NEW t, NEW k
  PROVE  /\ EndOf(t, k) \in 0 .. Entries
         /\ EndOf(t, k) # Entries =>
              /\ EndOf(t, k) \in HashSlots
              /\ \/ t[Probe(k, EndOf(t, k))].status = "empty"
                 \/ /\ t[Probe(k, EndOf(t, k))].status = "alive"
                    /\ t[Probe(k, EndOf(t, k))].key = k
         /\ \A i \in HashSlots : i < EndOf(t, k) =>
              /\ t[Probe(k, i)].status # "empty"
              /\ ~ (t[Probe(k, i)].status = "alive" /\ t[Probe(k, i)].key = k)
<1> DEFINE H == {i \in HashSlots : \/ t[Probe(k, i)].status = "empty"
                                   \/ t[Probe(k, i)].status = "alive" /\ t[Probe(k, i)].key = k}
           S == H \union {Entries}
           e == EndOf(t, k)
<1>1. Entries \in Nat /\ H \subseteq HashSlots /\ \A x \in HashSlots : x \in Nat /\ x < Entries
  BY EntriesPrime DEF HashSlots
<1>2. S \in SUBSET Nat /\ S # {}  BY <1>1
<1>3. e \in S /\ \A i \in S : e <= i
  <2>1. e = Lowest(S)  BY DEF EndOf
  <2> HIDE DEF S, e
  <2> QED  BY <1>2, <2>1, LowestFacts
<1>4. ASSUME NEW i \in HashSlots, i < e PROVE i \notin H
  <2>1. i \in Nat /\ e \in Nat /\ ~ (e <= i)
    <3> HIDE DEF e, S, H
    <3> QED  BY <1>1, <1>2, <1>3, <1>4
  <2> QED  BY <1>3, <2>1
<1>5. e # Entries => e \in H  BY <1>3
<1>6. e \in 0 .. Entries
  <2> HIDE DEF e, H
  <2> QED  BY <1>1, <1>3
<1> QED  BY <1>4, <1>5, <1>6

\* A query on a table that represents s answers like s.
LEMMA FoundExact ==
  ASSUME NEW t, NEW s, Represents(t, s), NEW k \in Nat
  PROVE  /\ Found(t, k) <=> k \in DOMAIN s
         /\ k \in DOMAIN s => /\ EndOf(t, k) \in HashSlots /\ EndOf(t, k) # Entries
                              /\ t[Probe(k, EndOf(t, k))].status = "alive"
                              /\ t[Probe(k, EndOf(t, k))].key = k
                              /\ Query(t, k) = s[k]
         /\ k \notin DOMAIN s => Query(t, k) = NoVal
<1> DEFINE e == EndOf(t, k)
<1>0. Entries \in Nat /\ \A x \in HashSlots : x \in Nat /\ x < Entries  BY EntriesPrime DEF HashSlots
<1>1. ASSUME k \in DOMAIN s
      PROVE  e \in HashSlots /\ e # Entries /\ t[Probe(k, e)].status = "alive" /\ t[Probe(k, e)].key = k
  <2>1. PICK i \in HashSlots : /\ t[Probe(k, i)].status = "alive" /\ t[Probe(k, i)].key = k
                               /\ Reaches(t, k, i)
    BY <1>1 DEF Represents
  <2>2. ~ (i < e)  BY <2>1, EndFacts
  <2>3. e \in 0 .. Entries  BY EndFacts
  <2> HIDE DEF e
  <2>4. e <= i /\ e # Entries /\ e \in Nat  BY <1>0, <2>2, <2>3
  <2>5. CASE e = i  BY <2>1, <2>4, <2>5
  <2>6. CASE e # i
    <3>1. e \in 0 .. i - 1  BY <1>0, <2>4, <2>6
    <3>2. t[Probe(k, e)].status # "empty"  BY <2>1, <3>1 DEF Reaches
    <3> QED  BY <2>4, <3>2, EndFacts DEF e
  <2> QED  BY <2>5, <2>6
<1>2. ASSUME Found(t, k) PROVE k \in DOMAIN s
  <2>1. e # Entries /\ t[Probe(k, e)].status = "alive"  BY <1>2 DEF Found
  <2>2. e \in HashSlots /\ t[Probe(k, e)].key = k  BY <2>1, EndFacts
  <2>3. Probe(k, e) \in HashSlots  BY <1>0, <2>2, ProbeType
  <2> QED  BY <2>1, <2>2, <2>3 DEF Represents
<1>3. ASSUME k \in DOMAIN s PROVE Found(t, k) /\ Query(t, k) = s[k]
  <2>1. e # Entries /\ t[Probe(k, e)].status = "alive" /\ t[Probe(k, e)].key = k /\ e \in HashSlots
    BY <1>1, <1>3
  <2>2. Probe(k, e) \in HashSlots  BY <1>0, <2>1, ProbeType
  <2>3. t[Probe(k, e)].val = s[k]  BY <2>1, <2>2 DEF Represents
  <2> QED  BY <2>1, <2>3 DEF Found, Query
<1> QED  BY <1>1, <1>2, <1>3 DEF Query

\* An entry that is not alive is written over.
LEMMA PutKeeps ==
  ASSUME NEW t \in [HashSlots -> Cells], NEW s, StoreType(s), Represents(t, s),
         NEW k \in Nat \ DOMAIN s, NEW v \in Vals, NEW i \in HashSlots,
         t[Probe(k, i)].status # "alive", Reaches(t, k, i)
  PROVE  /\ [t EXCEPT ![Probe(k, i)] = Alive(k, v)] \in [HashSlots -> Cells]
         /\ StoreType(Extended(s, k, v))
         /\ Represents([t EXCEPT ![Probe(k, i)] = Alive(k, v)], Extended(s, k, v))
<1> DEFINE o == Probe(k, i)
           a == Alive(k, v)
           u == [t EXCEPT ![o] = a]
           x == Extended(s, k, v)
<1>0. /\ \A y \in HashSlots : y \in Nat
      /\ \A y \in HashSlots : \A j \in 0 .. y - 1 : j \in Nat /\ j \in HashSlots
  BY EntriesPrime DEF HashSlots
<1>1. o \in HashSlots  BY <1>0, ProbeType
<1>2. a.status = "alive" /\ a.key = k /\ a.val = v /\ a \in Cells  BY DEF Alive, Cells
<1>3. /\ DOMAIN x = DOMAIN s \union {k} /\ x[k] = v /\ \A y \in DOMAIN s : y # k /\ x[y] = s[y]
      /\ \A y \in DOMAIN s : y \in Nat
  BY DEF Extended, StoreType
<1>4. StoreType(x)
  <2>1. IsFiniteSet(DOMAIN s \union {k})  BY FS_AddElement DEF StoreType
  <2> QED  BY <1>3, <2>1 DEF StoreType, Extended
<1> HIDE DEF a, x, o
<1>5. u \in [HashSlots -> Cells] /\ u[o] = a /\ \A p \in HashSlots : p # o => u[p] = t[p]
  BY <1>1, <1>2
<1> HIDE DEF u
<1>6. ASSUME NEW p \in HashSlots, u[p].status = "alive"
      PROVE  u[p].key \in DOMAIN x /\ u[p].val = x[u[p].key]
  <2>1. CASE p = o  BY <1>2, <1>3, <1>5, <2>1
  <2>2. CASE p # o  BY <1>3, <1>5, <1>6, <2>2 DEF Represents
  <2> QED  BY <2>1, <2>2
<1>7. ASSUME NEW p \in HashSlots, p # o, u[p].status = "alive" PROVE u[p].key # k
  BY <1>3, <1>5, <1>7 DEF Represents
<1>8. ASSUME NEW p \in HashSlots, NEW q \in HashSlots, u[p].status = "alive", u[q].status = "alive",
             u[p].key = u[q].key
      PROVE  p = q
  <2>1. CASE p # o /\ q # o  BY <1>5, <1>8, <2>1 DEF Represents
  <2> QED  BY <1>2, <1>5, <1>7, <1>8, <2>1
<1>9. ASSUME NEW y \in Nat, NEW j \in HashSlots, Reaches(t, y, j) PROVE Reaches(u, y, j)
  <2> SUFFICES ASSUME NEW n \in 0 .. j - 1 PROVE u[Probe(y, n)].status # "empty"  BY DEF Reaches
  <2>1. Probe(y, n) \in HashSlots  BY <1>0, ProbeType
  <2>2. t[Probe(y, n)].status # "empty"  BY <1>9 DEF Reaches
  <2> QED  BY <1>2, <1>5, <2>1, <2>2
<1>10. ASSUME NEW y \in DOMAIN x
       PROVE  \E j \in HashSlots : /\ u[Probe(y, j)].status = "alive" /\ u[Probe(y, j)].key = y
                                   /\ Reaches(u, y, j)
  <2>1. CASE y = k
    <3>1. Reaches(u, k, i)  BY <1>9
    <3> QED  BY <1>2, <1>5, <2>1, <3>1 DEF o
  <2>2. CASE y # k
    <3>1. y \in DOMAIN s /\ y \in Nat  BY <1>3, <2>2
    <3>2. PICK j \in HashSlots : /\ t[Probe(y, j)].status = "alive" /\ t[Probe(y, j)].key = y
                                 /\ Reaches(t, y, j)
      BY <3>1 DEF Represents
    <3>3. Probe(y, j) \in HashSlots  BY <1>0, <3>1, ProbeType
    <3>4. Probe(y, j) # o  BY <3>2 DEF o
    <3>5. Reaches(u, y, j)  BY <1>9, <3>1, <3>2
    <3> QED  BY <1>5, <3>2, <3>3, <3>4, <3>5
  <2> QED  BY <2>1, <2>2
<1>11. Represents(u, x)  BY <1>6, <1>8, <1>10 DEF Represents
<1> QED  BY <1>4, <1>5, <1>11 DEF u, x, o, a

\* There is a place for a new key while there are fewer than were announced: the
\* first probes come to as many different entries.
LEMMA RoomLeft ==
  ASSUME NEW t, NEW s, StoreType(s), Represents(t, s), Cardinality(DOMAIN s) < Capacity,
         NEW k \in Nat \ DOMAIN s
  PROVE  \E i \in HashSlots : t[Probe(k, i)].status # "alive"
<1> SUFFICES ASSUME \A i \in HashSlots : t[Probe(k, i)].status = "alive" PROVE FALSE
  OBVIOUS
<1>0. /\ Entries \in Nat /\ Capacity \in Nat /\ Capacity >= 1 /\ 2 * Capacity <= Entries
      /\ IsPrime(Entries)
  BY EntriesPrime
<1> DEFINE A == 0 .. Capacity - 1
           f == [i \in A |-> t[Probe(k, i)].key]
<1>1. \A i \in A : i \in HashSlots /\ i \in Nat /\ Probe(k, i) \in HashSlots
  <2> SUFFICES ASSUME NEW i \in A PROVE i \in HashSlots /\ i \in Nat /\ Probe(k, i) \in HashSlots
    OBVIOUS
  <2>1. i \in HashSlots /\ i \in Nat
    <3> HIDE DEF Entries
    <3> QED  BY <1>0 DEF HashSlots
  <2> QED  BY <2>1, ProbeType
<1>2. f \in [A -> DOMAIN s]  BY <1>1 DEF Represents
<1>3. ASSUME NEW i \in A, NEW j \in A, f[i] = f[j] PROVE i = j
  <2>1. Probe(k, i) = Probe(k, j)  BY <1>1, <1>3 DEF Represents
  <2>2. ASSUME NEW a \in A, NEW b \in A, Probe(k, a) = Probe(k, b) PROVE ~ (a < b)
    <3> SUFFICES ASSUME a < b PROVE FALSE  OBVIOUS
    <3>1. a \in Nat /\ b \in Nat /\ a + b < Entries
      <4> HIDE DEF Entries
      <4> QED  BY <1>0
    <3>2. (k + a * a) % Entries = (k + b * b) % Entries  BY <2>2 DEF Probe
    <3> HIDE DEF Entries
    <3> QED  BY <1>0, <3>1, <3>2, ProbesApart
  <2>3. i \in Nat /\ j \in Nat  BY <1>1
  <2> QED  BY <2>1, <2>2, <2>3
<1> HIDE DEF f, A
<1>4. f \in Injection(A, DOMAIN s)  BY <1>2, <1>3 DEF Injection, IsInjective
<1>5. Cardinality(A) <= Cardinality(DOMAIN s)  BY <1>4, FS_Injection DEF StoreType
<1>6. Cardinality(A) = Capacity
  <2>1. 0 \in Int /\ Capacity - 1 \in Int  BY <1>0
  <2>2. Cardinality(0 .. Capacity - 1) = IF 0 > Capacity - 1 THEN 0 ELSE Capacity - 1 - 0 + 1
    BY <2>1, FS_Interval
  <2> QED  BY <1>0, <2>2 DEF A
<1>7. Cardinality(DOMAIN s) \in Nat  BY FS_CardinalityType DEF StoreType
<1> QED  BY <1>0, <1>5, <1>6, <1>7

\* Writing an entry keeps the types.
LEMMA PutType ==
  ASSUME NEW g, HashType(g), NEW i, NEW k, NEW v,
         [g.table EXCEPT ![Probe(k, i)] = Alive(k, v)] \in [HashSlots -> Cells]
  PROVE  HashType(Put(g, i, k, v)) /\ HashType(Reused(g)) /\ Reused(g).table = g.table
         /\ Put(g, i, k, v).table = [g.table EXCEPT ![Probe(k, i)] = Alive(k, v)]
<1> DEFINE u == [g.table EXCEPT ![Probe(k, i)] = Alive(k, v)]
           n == g.alive + 1
           d == g.deleted - 1
<1>1. n \in Int /\ d \in Int /\ u \in [HashSlots -> Cells]  BY DEF HashType
<1>2. Put(g, i, k, v) = [g EXCEPT !.table = u, !.alive = n]  BY DEF Put, HashType
<1>3. Reused(g) = [g EXCEPT !.deleted = d]  BY DEF Reused
<1> HIDE DEF n, d, u
<1>4. HashType([g EXCEPT !.table = u, !.alive = n]) /\ [g EXCEPT !.table = u, !.alive = n].table = u
  BY <1>1 DEF HashType
<1>5. HashType([g EXCEPT !.deleted = d]) /\ [g EXCEPT !.deleted = d].table = g.table
  BY <1>1 DEF HashType
<1> QED  BY <1>2, <1>3, <1>4, <1>5 DEF u

\* _hash_insert_self puts a new key in, unless more keys come than were announced,
\* and leaves one alone that is there.
LEMMA InsertFacts ==
  ASSUME NEW g, HashType(g), NEW s, StoreType(s), Represents(g.table, s), NEW k \in Nat, NEW v \in Vals
  PROVE  LET r == InsertSelf(g, k, v) IN
         /\ HashType(r.table)
         /\ k \in DOMAIN s => r.table = g
         /\ k \notin DOMAIN s /\ Cardinality(DOMAIN s) < Capacity =>
              r.ok = TRUE /\ Represents(r.table.table, Extended(s, k, v))
         /\ k \notin DOMAIN s =>
              \/ r.ok = FALSE /\ r.table = g
              \/ r.ok = TRUE /\ Represents(r.table.table, Extended(s, k, v))
<1> DEFINE t == g.table
           e == EndOf(t, k)
           D == Tombstones(t, k)
           r == InsertSelf(g, k, v)
<1>0. t \in [HashSlots -> Cells]  BY DEF HashType
<1>1. CASE k \in DOMAIN s
  <2>1. Found(t, k)  BY <1>1, FoundExact
  <2>2. r.table = g  BY <2>1 DEF InsertSelf
  <2> QED  BY <1>1, <2>2
<1>2. CASE k \notin DOMAIN s
  <2>1. ~ Found(t, k)  BY <1>2, FoundExact
  <2>2. /\ Entries \in Nat /\ \A x \in HashSlots : x \in Nat /\ x < Entries
        /\ \A y \in HashSlots : \A j \in 0 .. y - 1 : j \in Nat /\ j \in HashSlots
    BY EntriesPrime DEF HashSlots
  <2>3. CASE D # {}
    <3> DEFINE i == Lowest(D)
    <3>1. i \in D
      <4>1. D \in SUBSET Nat  BY <2>2 DEF Tombstones
      <4> HIDE DEF D
      <4> QED  BY <2>3, <4>1, LowestFacts
    <3>2. i \in HashSlots /\ i < e /\ t[Probe(k, i)].status = "delete"  BY <3>1 DEF Tombstones
    <3> HIDE DEF i, D
    <3>3. Reaches(t, k, i)
      <4> SUFFICES ASSUME NEW j \in 0 .. i - 1 PROVE t[Probe(k, j)].status # "empty"
        BY DEF Reaches
      <4>1. e \in Nat  BY <2>2, EndFacts
      <4> HIDE DEF e
      <4>2. j \in HashSlots /\ j < e  BY <2>2, <3>2, <4>1
      <4> QED  BY <4>2, EndFacts DEF e
    <3>4. r = [table |-> Put(Reused(g), i, k, v), ok |-> TRUE]
      BY <2>1, <2>3 DEF InsertSelf, i, D
    <3>5. /\ [t EXCEPT ![Probe(k, i)] = Alive(k, v)] \in [HashSlots -> Cells]
          /\ Represents([t EXCEPT ![Probe(k, i)] = Alive(k, v)], Extended(s, k, v))
      BY <1>0, <1>2, <3>2, <3>3, PutKeeps
    <3>6. HashType(Reused(g)) /\ Reused(g).table = t  BY <3>5, PutType
    <3>7. /\ HashType(Put(Reused(g), i, k, v))
          /\ Put(Reused(g), i, k, v).table = [t EXCEPT ![Probe(k, i)] = Alive(k, v)]
      BY <3>5, <3>6, PutType
    <3> QED  BY <1>2, <3>4, <3>5, <3>7
  <2>4. CASE D = {} /\ e = Entries
    <3>1. r = [table |-> g, ok |-> FALSE]  BY <2>1, <2>4 DEF InsertSelf
    <3>2. ~ (Cardinality(DOMAIN s) < Capacity)
      <4> SUFFICES ASSUME Cardinality(DOMAIN s) < Capacity PROVE FALSE  OBVIOUS
      <4>1. PICK i \in HashSlots : t[Probe(k, i)].status # "alive"  BY <1>2, RoomLeft
      <4>2. Probe(k, i) \in HashSlots  BY <2>2, ProbeType
      <4>3. t[Probe(k, i)].status \in {"empty", "delete"}  BY <1>0, <4>1, <4>2 DEF Cells
      <4>4. i < e  BY <2>2, <2>4
      <4>5. t[Probe(k, i)].status # "empty"  BY <4>4, EndFacts
      <4>6. i \in D  BY <4>3, <4>4, <4>5 DEF Tombstones
      <4> QED  BY <2>4, <4>6
    <3> QED  BY <1>2, <3>1, <3>2
  <2>5. CASE D = {} /\ e # Entries
    <3>1. r = [table |-> Put(g, e, k, v), ok |-> TRUE]  BY <2>1, <2>5 DEF InsertSelf
    <3>2. e \in HashSlots /\ t[Probe(k, e)].status # "alive"
      BY <2>1, <2>5, EndFacts DEF Found
    <3>3. Reaches(t, k, e)
      <4> SUFFICES ASSUME NEW j \in 0 .. e - 1 PROVE t[Probe(k, j)].status # "empty"
        BY DEF Reaches
      <4>1. e \in Nat  BY <2>2, EndFacts
      <4>2. j \in HashSlots  BY <2>2, <3>2
      <4>3. j < e
        <5> HIDE DEF e
        <5> QED  BY <4>1
      <4> QED  BY <4>2, <4>3, EndFacts
    <3> HIDE DEF e
    <3>5. /\ [t EXCEPT ![Probe(k, e)] = Alive(k, v)] \in [HashSlots -> Cells]
          /\ Represents([t EXCEPT ![Probe(k, e)] = Alive(k, v)], Extended(s, k, v))
      BY <1>0, <1>2, <3>2, <3>3, PutKeeps
    <3>6. /\ HashType(Put(g, e, k, v))
          /\ Put(g, e, k, v).table = [t EXCEPT ![Probe(k, e)] = Alive(k, v)]
      BY <3>5, PutType
    <3> QED  BY <1>2, <3>1, <3>5, <3>6
  <2> QED  BY <2>3, <2>4, <2>5
<1> QED  BY <1>1, <1>2

\* hash_delete leaves a tombstone.
Removed(s, k) == [x \in DOMAIN s \ {k} |-> s[x]]

\* A tombstone removes its key, and probing for the others still passes it.
LEMMA DeleteLeaves ==
  ASSUME NEW t \in [HashSlots -> Cells], NEW s, StoreType(s), Represents(t, s),
         NEW o \in HashSlots, t[o].status = "alive", NEW k, t[o].key = k
  PROVE  /\ [t EXCEPT ![o].status = "delete"] \in [HashSlots -> Cells]
         /\ Represents([t EXCEPT ![o].status = "delete"], Removed(s, k))
<1> DEFINE c == [t[o] EXCEPT !.status = "delete"]
           u == [t EXCEPT ![o] = c]
           x == Removed(s, k)
<1>0. /\ \A y \in HashSlots : y \in Nat
      /\ \A y \in HashSlots : \A j \in 0 .. y - 1 : j \in Nat
      /\ \A y \in DOMAIN s : y \in Nat
  BY EntriesPrime DEF HashSlots, StoreType
<1>1. [t EXCEPT ![o].status = "delete"] = u  OBVIOUS
<1>2. c \in Cells /\ c.status = "delete"
  <2>1. t[o] \in Cells  OBVIOUS
  <2> QED  BY <2>1 DEF Cells
<1>3. /\ k \in DOMAIN s /\ DOMAIN x = DOMAIN s \ {k}
      /\ \A y \in DOMAIN x : y # k /\ x[y] = s[y]
  BY DEF Represents, Removed
<1> HIDE DEF c, x
<1>4. u \in [HashSlots -> Cells] /\ u[o] = c /\ \A p \in HashSlots : p # o => u[p] = t[p]
  BY <1>2
<1> HIDE DEF u
<1>5. ASSUME NEW p \in HashSlots, u[p].status = "alive"
      PROVE  p # o /\ t[p].status = "alive" /\ u[p] = t[p] /\ t[p].key # k
  <2>1. p # o  BY <1>2, <1>4, <1>5
  <2>2. u[p] = t[p]  BY <1>4, <2>1
  <2> QED  BY <1>5, <2>1, <2>2 DEF Represents
<1>6. ASSUME NEW p \in HashSlots, u[p].status = "alive"
      PROVE  u[p].key \in DOMAIN x /\ u[p].val = x[u[p].key]
  BY <1>3, <1>5, <1>6 DEF Represents
<1>7. ASSUME NEW p \in HashSlots, NEW q \in HashSlots, u[p].status = "alive", u[q].status = "alive",
             u[p].key = u[q].key
      PROVE  p = q
  BY <1>5, <1>7 DEF Represents
<1>8. ASSUME NEW y \in DOMAIN x
       PROVE  \E j \in HashSlots : /\ u[Probe(y, j)].status = "alive" /\ u[Probe(y, j)].key = y
                                   /\ Reaches(u, y, j)
  <2>1. y \in DOMAIN s /\ y \in Nat /\ y # k  BY <1>0, <1>3
  <2>2. PICK j \in HashSlots : /\ t[Probe(y, j)].status = "alive" /\ t[Probe(y, j)].key = y
                               /\ Reaches(t, y, j)
    BY <2>1 DEF Represents
  <2>3. Probe(y, j) \in HashSlots  BY <1>0, <2>1, ProbeType
  <2>4. Probe(y, j) # o  BY <2>1, <2>2
  <2>5. ASSUME NEW n \in 0 .. j - 1 PROVE u[Probe(y, n)].status # "empty"
    <3>1. Probe(y, n) \in HashSlots  BY <1>0, <2>1, ProbeType
    <3>2. t[Probe(y, n)].status # "empty"  BY <2>2 DEF Reaches
    <3> QED  BY <1>2, <1>4, <3>1, <3>2
  <2>6. Reaches(u, y, j)  BY <2>5 DEF Reaches
  <2> QED  BY <1>4, <2>2, <2>3, <2>4, <2>6
<1>9. Represents(u, x)  BY <1>6, <1>7, <1>8 DEF Represents
<1> QED  BY <1>1, <1>4, <1>9 DEF x
------------------------------------------------------------------------------
\* What the rebuild has inserted when it has come to entry p.
KeysTo(t, p) == {t[q].key : q \in {x \in HashSlots : x < p /\ t[x].status = "alive"}}
Upto(t, s, p) == [k \in KeysTo(t, p) |-> s[k]]

RebuildStep(t, p, f) ==
  IF p = 0 THEN NewTable
  ELSE IF t[p - 1].status = "alive"
       THEN InsertSelf(f[p - 1], t[p - 1].key, t[p - 1].val).table
       ELSE f[p - 1]

\* The part of the mapping that a rebuild has reached.
LEMMA UptoFacts ==
  ASSUME NEW t \in [HashSlots -> Cells], NEW s, StoreType(s), Represents(t, s), NEW p \in Nat
  PROVE  /\ KeysTo(t, p) \subseteq DOMAIN s /\ DOMAIN Upto(t, s, p) = KeysTo(t, p)
         /\ StoreType(Upto(t, s, p))
<1>1. KeysTo(t, p) \subseteq DOMAIN s  BY DEF KeysTo, Represents
<1>2. IsFiniteSet(KeysTo(t, p))  BY <1>1, FS_Subset DEF StoreType
<1> QED  BY <1>1, <1>2 DEF StoreType, Upto

\* A new table represents the empty mapping.
LEMMA NewTableFacts ==
  ASSUME NEW t, NEW s
  PROVE  HashType(NewTable) /\ Represents(NewTable.table, Upto(t, s, 0))
<1>1. EmptyEntry \in Cells /\ EmptyEntry.status = "empty"  BY DEF EmptyEntry, Cells
<1>2. HashType(NewTable)  BY <1>1 DEF HashType, NewTable
<1>3. \A p \in HashSlots : NewTable.table[p].status = "empty"  BY <1>1 DEF NewTable
<1>4. KeysTo(t, 0) = {}
  <2>1. \A x \in HashSlots : ~ (x < 0)  BY EntriesPrime DEF HashSlots
  <2> QED  BY <2>1 DEF KeysTo
<1>5. DOMAIN Upto(t, s, 0) = {}  BY <1>4 DEF Upto
<1> QED  BY <1>2, <1>3, <1>5 DEF Represents

\* A step of the rebuild inserts one entry, for which there is room.
LEMMA RebuildKeeps ==
  ASSUME NEW t \in [HashSlots -> Cells], NEW s, StoreType(s), Represents(t, s),
         Cardinality(DOMAIN s) <= Capacity, NEW p \in HashSlots, NEW f,
         HashType(f[p]), Represents(f[p].table, Upto(t, s, p))
  PROVE  /\ HashType(RebuildStep(t, p + 1, f))
         /\ Represents(RebuildStep(t, p + 1, f).table, Upto(t, s, p + 1))
<1>0. p \in Nat /\ p + 1 \in Nat /\ p + 1 # 0 /\ p + 1 - 1 = p
      /\ \A x \in HashSlots : x < p + 1 <=> x < p \/ x = p
  BY EntriesPrime DEF HashSlots
<1>1. CASE t[p].status = "alive"
  <2> DEFINE k == t[p].key
             v == t[p].val
             u == Upto(t, s, p)
  <2>1. k \in DOMAIN s /\ v = s[k] /\ v \in Vals /\ k \in Nat  BY <1>1 DEF Represents, StoreType
  <2>2. k \notin KeysTo(t, p)
    <3> SUFFICES ASSUME NEW q \in HashSlots, q < p, t[q].status = "alive", t[q].key = k PROVE FALSE
      BY DEF KeysTo
    <3>1. q = p  BY <1>1 DEF Represents
    <3> QED  BY <1>0, <3>1
  <2>3. KeysTo(t, p + 1) = KeysTo(t, p) \union {k}  BY <1>0, <1>1 DEF KeysTo
  <2>4. StoreType(u) /\ DOMAIN u = KeysTo(t, p) /\ KeysTo(t, p) \subseteq DOMAIN s
    BY <1>0, UptoFacts
  <2>5. Cardinality(DOMAIN u) < Capacity
    <3>1. /\ Cardinality(KeysTo(t, p)) <= Cardinality(DOMAIN s)
          /\ Cardinality(KeysTo(t, p)) = Cardinality(DOMAIN s) => KeysTo(t, p) = DOMAIN s
          /\ Cardinality(KeysTo(t, p)) \in Nat /\ Cardinality(DOMAIN s) \in Nat
      BY <2>4, FS_Subset, FS_CardinalityType DEF StoreType
    <3>2. Capacity \in Nat  BY EntriesPrime
    <3> QED  BY <2>1, <2>2, <2>4, <3>1, <3>2
  <2>6. Extended(u, k, v) = Upto(t, s, p + 1)
    <3>1. Upto(t, s, p + 1) = [x \in KeysTo(t, p) \union {k} |-> s[x]]  BY <2>3 DEF Upto
    <3>2. Extended(u, k, v) = [x \in KeysTo(t, p) \union {k} |-> s[x]]
      BY <2>1, <2>4 DEF Extended, Upto
    <3> QED  BY <3>1, <3>2
  <2>7. RebuildStep(t, p + 1, f) = InsertSelf(f[p], k, v).table  BY <1>0, <1>1 DEF RebuildStep
  <2> HIDE DEF k, v, u
  <2>8. /\ HashType(InsertSelf(f[p], k, v).table)
        /\ Represents(InsertSelf(f[p], k, v).table.table, Extended(u, k, v))
    <3>1. Represents(f[p].table, u)  BY DEF u
    <3> QED  BY <2>1, <2>2, <2>4, <2>5, <3>1, InsertFacts
  <2> QED  BY <2>6, <2>7, <2>8
<1>2. CASE t[p].status # "alive"
  <2>1. KeysTo(t, p + 1) = KeysTo(t, p)  BY <1>0, <1>2 DEF KeysTo
  <2>2. Upto(t, s, p + 1) = Upto(t, s, p)  BY <2>1 DEF Upto
  <2>3. RebuildStep(t, p + 1, f) = f[p]  BY <1>0, <1>2 DEF RebuildStep
  <2> QED  BY <2>2, <2>3
<1> QED  BY <1>1, <1>2

\* A rebuilt table represents the same mapping.
LEMMA RebuildExact ==
  ASSUME NEW t \in [HashSlots -> Cells], NEW s, StoreType(s), Represents(t, s),
         Cardinality(DOMAIN s) <= Capacity
  PROVE  HashType(Rebuilt(t)) /\ Represents(Rebuilt(t).table, s)
<1> DEFINE A == 0 .. Entries
           V == [table : [HashSlots -> Cells], deleted : Int, alive : Int]
           Tamed(p, f) == IF RebuildStep(t, p, f) \in V THEN RebuildStep(t, p, f) ELSE NewTable
           G == [q \in A \X [A -> V] |-> Tamed(q[1], q[2])]
           rank == [p \in A |-> p]
           Good(f, p) == HashType(f[p]) /\ Represents(f[p].table, Upto(t, s, p))
<1>0. Entries \in Nat /\ Entries >= 1 /\ \A p : p \in HashSlots <=> p \in 0 .. Entries - 1
  BY EntriesPrime DEF HashSlots
<1>1. NewTable \in V /\ rank \in [A -> Nat]  BY NewTableFacts DEF HashType
<1>2. G \in [A \X [A -> V] -> V]
  <2> HIDE DEF A, V
  <2> QED  BY <1>1
<1>3. LooksBelow(G, A, V, rank)
  <2> SUFFICES ASSUME NEW p \in A, NEW f \in [A -> V], NEW g \in [A -> V],
                      AgreeBelow(f, g, A, rank, rank[p])
               PROVE  Tamed(p, f) = Tamed(p, g)
    BY DEF LooksBelow
  <2>1. p # 0 => p - 1 \in A /\ rank[p - 1] < rank[p]  BY <1>0
  <2>2. p # 0 => f[p - 1] = g[p - 1]  BY <2>1 DEF AgreeBelow
  <2>3. RebuildStep(t, p, f) = RebuildStep(t, p, g)  BY <2>2 DEF RebuildStep
  <2> QED  BY <2>3
<1>4. Recursive(G, A, V, rank)  BY <1>1, <1>2, <1>3 DEF Recursive
<1> HIDE DEF rank, G, A
<1>5. PICK f \in [A -> V] : \A p \in A : f[p] = G[<<p, f>>]
  <2> HIDE DEF V
  <2> QED  BY <1>4, RecursiveFunctionExists
<1>6. \A p \in A : f[p] = Tamed(p, f)  BY <1>5 DEF G
<1> HIDE DEF V
\* A function that takes the steps, tamed or not, holds what has been inserted.
<1>7. ASSUME NEW g, \A p \in A : g[p] = RebuildStep(t, p, g) \/ g[p] = Tamed(p, g)
      PROVE  \A p \in A : Good(g, p) /\ g[p] = RebuildStep(t, p, g)
  <2> DEFINE S == {p \in Nat : p \in A => Good(g, p) /\ g[p] = RebuildStep(t, p, g)}
  <2>1. 0 \in S
    <3>1. 0 \in A  BY <1>0 DEF A
    <3>2. RebuildStep(t, 0, g) = NewTable  BY DEF RebuildStep
    <3>3. g[0] = NewTable  BY <1>7, <3>1, <3>2
    <3> QED  BY <3>2, <3>3, NewTableFacts
  <2>2. ASSUME NEW p \in Nat, p \in S PROVE p + 1 \in S
    <3> SUFFICES ASSUME p + 1 \in A PROVE Good(g, p + 1) /\ g[p + 1] = RebuildStep(t, p + 1, g)
      OBVIOUS
    <3>1. p \in A /\ p \in HashSlots  BY <1>0 DEF A
    <3>2. Good(g, p)  BY <2>2, <3>1
    <3>3. /\ HashType(RebuildStep(t, p + 1, g))
          /\ Represents(RebuildStep(t, p + 1, g).table, Upto(t, s, p + 1))
      BY <3>1, <3>2, RebuildKeeps
    <3>4. RebuildStep(t, p + 1, g) \in V  BY <3>3 DEF HashType, V
    <3>5. g[p + 1] = RebuildStep(t, p + 1, g)  BY <1>7, <3>4
    <3> QED  BY <3>3, <3>5
  <2> HIDE DEF S
  <2>3. \A p \in Nat : p \in S  BY <2>1, <2>2, Induction
  <2>4. \A p \in A : p \in Nat  BY <1>0 DEF A
  <2> QED  BY <2>3, <2>4 DEF S
<1>8. \A p \in A : f[p] = RebuildStep(t, p, f)  BY <1>6, <1>7
<1>9. f = [p \in A |-> RebuildStep(t, p, f)]  BY <1>5, <1>8
<1> DEFINE Eq(g) == g = [p \in A |-> RebuildStep(t, p, g)]
           c == CHOOSE g : Eq(g)
<1>10. Eq(c)  BY <1>9
<1>11. Rebuilt(t) = c[Entries]  BY DEF Rebuilt, RebuildStep, A
<1> HIDE DEF c
<1>12. \A p \in A : c[p] = RebuildStep(t, p, c)  BY <1>10
<1>13. Entries \in A  BY <1>0 DEF A
<1>14. Good(c, Entries)  BY <1>7, <1>12, <1>13
<1>15. Upto(t, s, Entries) = s
  <2>1. \A x \in HashSlots : x < Entries  BY <1>0
  <2>2. DOMAIN s \subseteq KeysTo(t, Entries)
    <3> SUFFICES ASSUME NEW k \in DOMAIN s PROVE k \in KeysTo(t, Entries)  OBVIOUS
    <3>1. PICK i \in HashSlots : t[Probe(k, i)].status = "alive" /\ t[Probe(k, i)].key = k
      BY DEF Represents
    <3>2. k \in Nat /\ i \in Nat  BY <1>0 DEF StoreType
    <3>3. Probe(k, i) \in HashSlots  BY <3>2, ProbeType
    <3> QED  BY <2>1, <3>1, <3>3 DEF KeysTo
  <2>3. KeysTo(t, Entries) = DOMAIN s  BY <1>0, <2>2, UptoFacts
  <2> QED  BY <2>3 DEF Upto, StoreType
<1> QED  BY <1>11, <1>14, <1>15
------------------------------------------------------------------------------
\* What the table keeps of the values that were taken: the first of every key.
stored == [k \in DOMAIN taken |-> Head(taken[k])]

TakenType == \A k \in DOMAIN taken : taken[k] \in Seq(Vals) /\ taken[k] # << >>

HashInv ==
  /\ HashType(h) /\ StoreType(stored) /\ DOMAIN stored \subseteq Keys /\ TakenType
  /\ Cardinality(DOMAIN stored) <= Capacity
  /\ Represents(h.table, stored)

\* The keys are those of the history.
LEMMA StoredDomain == DOMAIN stored = DOMAIN taken /\ DOMAIN stored' = DOMAIN taken'
BY DEF stored

\* The invariant holds of a new table.
LEMMA HashBegins == HashInit => HashInv
<1> SUFFICES ASSUME HashInit PROVE HashInv  OBVIOUS
<1>1. h = NewTable /\ DOMAIN taken = {} /\ DOMAIN stored = {}  BY DEF HashInit, stored
<1>2. StoreType(stored) /\ Cardinality(DOMAIN stored) = 0 /\ TakenType
  BY <1>1, FS_EmptySet DEF StoreType, TakenType, stored
<1>3. HashType(NewTable) /\ Represents(NewTable.table, Upto(NewTable.table, stored, 0))
  BY NewTableFacts
<1>4. \A p \in HashSlots : NewTable.table[p].status # "alive"  BY DEF NewTable, EmptyEntry
<1>5. Represents(NewTable.table, stored)  BY <1>1, <1>4 DEF Represents
<1>6. Capacity \in Nat  BY EntriesPrime
<1> QED  BY <1>1, <1>2, <1>3, <1>5, <1>6 DEF HashInv

\* What hash_check leaves is the table of the same mapping.
LEMMA CheckedKeeps ==
  ASSUME HashInv, NEW g \in Checked(h)
  PROVE  HashType(g) /\ Represents(g.table, stored)
<1>1. h.table \in [HashSlots -> Cells]  BY DEF HashInv, HashType
<1>2. HashType(Rebuilt(h.table)) /\ Represents(Rebuilt(h.table).table, stored)
  BY <1>1, RebuildExact DEF HashInv
<1>3. g = h \/ g = Rebuilt(h.table)  BY DEF Checked
<1> QED  BY <1>2, <1>3 DEF HashInv

\* A value that is noted leaves the first one of its key in front.
LEMMA NotedFacts ==
  ASSUME TakenType, NEW k, NEW v \in Vals
  PROVE  /\ Noted(taken, k, v) \in Seq(Vals) /\ Noted(taken, k, v) # << >>
         /\ k \in DOMAIN taken => Head(Noted(taken, k, v)) = Head(taken[k])
         /\ k \notin DOMAIN taken => Head(Noted(taken, k, v)) = v
<1>1. CASE k \notin DOMAIN taken  BY <1>1 DEF Noted
<1>2. CASE k \in DOMAIN taken
  <2> DEFINE s == taken[k]
  <2>1. s \in Seq(Vals) /\ s # << >>  BY <1>2 DEF TakenType
  <2>2. Noted(taken, k, v) \in {s, Append(s, v)}  BY <1>2 DEF Noted
  <2> HIDE DEF s
  <2>3. Append(s, v) \in Seq(Vals) /\ Append(s, v) # << >> /\ Head(Append(s, v)) = Head(s)
    BY <2>1
  <2> QED  BY <1>2, <2>1, <2>2, <2>3 DEF s
<1> QED  BY <1>1, <1>2

\* hash_insert keeps the invariant.
LEMMA HashInsertKeeps ==
  ASSUME HashInv, NEW k \in Keys, NEW v \in Vals, HashInsert(k, v)
  PROVE  HashInv'
<1> DEFINE noted == [x \in DOMAIN taken \union {k} |->
                       IF x = k THEN Noted(taken, k, v) ELSE taken[x]]
<1>1. PICK g \in Checked(h) :
        /\ h' = InsertSelf(g, k, v).table
        /\ taken' = IF ~InsertSelf(g, k, v).ok THEN taken ELSE noted
  BY DEF HashInsert
<1>2. /\ HashType(g) /\ Represents(g.table, stored) /\ StoreType(stored) /\ k \in Nat
      /\ DOMAIN stored = DOMAIN taken /\ TakenType
  BY CheckedKeeps, HashAssumption, StoredDomain DEF HashInv
<1>3. HashType(h')  BY <1>1, <1>2, InsertFacts
<1>4. TakenType'
  <2>1. \A x \in DOMAIN noted : noted[x] \in Seq(Vals) /\ noted[x] # << >>
    BY <1>2, NotedFacts DEF TakenType
  <2> HIDE DEF noted
  <2> QED  BY <1>1, <1>2, <2>1 DEF TakenType
<1>5. CASE k \in DOMAIN stored
  <2>1. h' = g  BY <1>1, <1>2, <1>5, InsertFacts
  <2>2. stored' = stored
    <3>1. CASE taken' = taken  BY <3>1 DEF stored
    <3>2. CASE taken' = noted
      <4>1. DOMAIN taken' = DOMAIN taken  BY <1>2, <1>5, <3>2
      <4>2. ASSUME NEW x \in DOMAIN taken PROVE Head(taken'[x]) = Head(taken[x])
        BY <1>2, <1>5, <3>2, NotedFacts
      <4> QED  BY <4>1, <4>2 DEF stored
    <3> QED  BY <1>1, <3>1, <3>2
  <2> QED  BY <1>2, <1>3, <1>4, <2>1, <2>2 DEF HashInv
<1>6. CASE k \notin DOMAIN stored
  <2>1. Cardinality(DOMAIN stored) < Capacity  BY <1>2, <1>6 DEF HashInsert
  <2>2. InsertSelf(g, k, v).ok = TRUE /\ Represents(h'.table, Extended(stored, k, v))
    BY <1>1, <1>2, <1>6, <2>1, InsertFacts
  <2>3. stored' = Extended(stored, k, v)
    <3>1. taken' = noted  BY <1>1, <2>2
    <3>2. DOMAIN taken' = DOMAIN stored \union {k}  BY <1>2, <3>1
    <3>3. ASSUME NEW x \in DOMAIN stored \union {k}
          PROVE  Head(taken'[x]) = IF x = k THEN v ELSE stored[x]
      BY <1>2, <1>6, <3>1, NotedFacts DEF stored
    <3>4. stored' = [x \in DOMAIN stored \union {k} |-> Head(taken'[x])]  BY <3>2 DEF stored
    <3>5. stored' = [x \in DOMAIN stored \union {k} |-> IF x = k THEN v ELSE stored[x]]
      BY <3>3, <3>4, Zenon
    <3> QED  BY <3>5 DEF Extended
  <2>4. DOMAIN stored' = DOMAIN stored \union {k}  BY <2>3 DEF Extended
  <2>5. /\ IsFiniteSet(DOMAIN stored')
        /\ Cardinality(DOMAIN stored') = Cardinality(DOMAIN stored) + 1
    BY <1>2, <1>6, <2>4, FS_AddElement DEF StoreType
  <2>6. Cardinality(DOMAIN stored') <= Capacity
    <3>1. Cardinality(DOMAIN stored) \in Nat /\ Capacity \in Nat
      BY <1>2, FS_CardinalityType, EntriesPrime DEF StoreType
    <3> QED  BY <2>1, <2>5, <3>1
  <2>7. StoreType(stored')  BY <1>2, <2>3, <2>4, <2>5 DEF StoreType, Extended
  <2>8. Represents(h'.table, stored')  BY <2>2, <2>3
  <2>9. DOMAIN stored \subseteq Keys  BY DEF HashInv
  <2> QED  BY <1>3, <1>4, <2>4, <2>6, <2>7, <2>8, <2>9 DEF HashInv
<1> QED  BY <1>5, <1>6

\* In a table of less than 65536 entries the squares of hash_delete are exact, and it
\* probes where the others do.
LEMMA DeleteProbes ==
  ASSUME NEW k \in Nat
  PROVE  /\ \A i \in HashSlots : DeleteProbe(k, i) = Probe(k, i)
         /\ \A t : DeleteEnd(t, k) = EndOf(t, k)
<1>1. ASSUME NEW i \in HashSlots PROVE DeleteProbe(k, i) = Probe(k, i)
  <2> DEFINE E == Entries
  <2>1. E \in Nat /\ i \in Nat /\ i <= E - 1  BY EntriesPrime DEF HashSlots
  <2>2. (E - 1) * (E - 1) < Wrap /\ Wrap \in Nat  BY HashAssumption DEF Entries
  <2> HIDE DEF E
  <2>3. i * i \in Nat /\ i * i <= (E - 1) * (E - 1) /\ (E - 1) * (E - 1) \in Int
    <3>1. i * i <= i * (E - 1)  BY <2>1
    <3>2. i * (E - 1) <= (E - 1) * (E - 1)  BY <2>1
    <3>3. i * i \in Nat /\ i * (E - 1) \in Int /\ (E - 1) * (E - 1) \in Int  BY <2>1
    <3> QED  BY <3>1, <3>2, <3>3
  <2> DEFINE q == i * i
  <2>4. q \in Int /\ 0 <= q /\ q < Wrap /\ Wrap > 0 /\ Wrap \in Int /\ q = Wrap * 0 + q /\ 0 \in Int
    BY <2>2, <2>3
  <2> HIDE DEF q
  <2>5. q % Wrap = q  BY <2>4, ModOf
  <2> QED  BY <2>5 DEF q, DeleteProbe, Probe, E
<1>2. ASSUME NEW t PROVE DeleteEnd(t, k) = EndOf(t, k)
  <2>1. {i \in HashSlots : \/ t[DeleteProbe(k, i)].status = "empty"
                           \/ t[DeleteProbe(k, i)].status = "alive" /\ t[DeleteProbe(k, i)].key = k}
      = {i \in HashSlots : \/ t[Probe(k, i)].status = "empty"
                           \/ t[Probe(k, i)].status = "alive" /\ t[Probe(k, i)].key = k}
    BY <1>1, Zenon
  <2> QED  BY <2>1 DEF DeleteEnd, EndOf
<1> QED  BY <1>1, <1>2

\* hash_delete keeps the invariant.
LEMMA HashDeleteKeeps ==
  ASSUME HashInv, NEW k \in Keys, HashDelete(k)
  PROVE  HashInv'
<1>1. PICK g \in Checked(h) :
        h' = IF DeleteEnd(g.table, k) # Entries
                /\ g.table[DeleteProbe(k, DeleteEnd(g.table, k))].status = "alive"
             THEN [g EXCEPT !.table[DeleteProbe(k, DeleteEnd(g.table, k))].status = "delete",
                            !.deleted = @ + 1]
             ELSE g
  BY DEF HashDelete
<1>2. /\ HashType(g) /\ Represents(g.table, stored) /\ StoreType(stored) /\ k \in Nat
      /\ g.table \in [HashSlots -> Cells] /\ g.deleted + 1 \in Int
      /\ \A i \in HashSlots : i \in Nat
  BY CheckedKeeps, HashAssumption, EntriesPrime DEF HashInv, HashType, HashSlots
<1>3. /\ stored' = Removed(stored, k) /\ TakenType'
  <2>1. taken' = [x \in DOMAIN taken \ {k} |-> taken[x]]  BY DEF HashDelete
  <2>2. TakenType'  BY <2>1 DEF HashInv, TakenType
  <2> QED  BY <2>1, <2>2 DEF Removed, stored
<1>4. DOMAIN stored' = DOMAIN stored \ {k}  BY <1>3 DEF Removed
<1>5. StoreType(stored') /\ Cardinality(DOMAIN stored') <= Cardinality(DOMAIN stored)
  <2>1. DOMAIN stored' \subseteq DOMAIN stored /\ IsFiniteSet(DOMAIN stored)  BY <1>2, <1>4 DEF StoreType
  <2>2. IsFiniteSet(DOMAIN stored') /\ Cardinality(DOMAIN stored') <= Cardinality(DOMAIN stored)
    BY <2>1, FS_Subset
  <2> QED  BY <1>2, <1>3, <1>4, <2>2 DEF StoreType, Removed
<1>6. Cardinality(DOMAIN stored') <= Capacity
  <2>1. /\ Cardinality(DOMAIN stored) \in Nat /\ Cardinality(DOMAIN stored') \in Nat
        /\ Capacity \in Nat
    BY <1>2, <1>5, FS_CardinalityType, EntriesPrime DEF StoreType
  <2> QED  BY <1>5, <2>1 DEF HashInv
<1>7. HashType(h') /\ Represents(h'.table, stored')
  <2>1. CASE k \in DOMAIN stored
    <3> DEFINE o == Probe(k, EndOf(g.table, k))
               u == [g.table EXCEPT ![o].status = "delete"]
               n == g.deleted + 1
    <3>1. /\ EndOf(g.table, k) # Entries /\ EndOf(g.table, k) \in HashSlots
          /\ g.table[o].status = "alive" /\ g.table[o].key = k
      BY <1>2, <2>1, FoundExact
    <3>2. o \in HashSlots  BY <1>2, <3>1, ProbeType
    <3>3. h' = [g EXCEPT !.table[o].status = "delete", !.deleted = @ + 1]
      <4>1. DeleteEnd(g.table, k) = EndOf(g.table, k)  BY <1>2, DeleteProbes
      <4>2. DeleteProbe(k, EndOf(g.table, k)) = o  BY <1>2, <3>1, DeleteProbes
      <4> HIDE DEF o
      <4> QED  BY <1>1, <3>1, <4>1, <4>2
    <3>4. h' = [g EXCEPT !.table = u, !.deleted = n]  BY <1>2, <3>3 DEF HashType
    <3> HIDE DEF o
    <3>5. u \in [HashSlots -> Cells] /\ Represents(u, stored')
      BY <1>2, <1>3, <3>1, <3>2, DeleteLeaves
    <3> HIDE DEF u, n
    <3>6. n \in Int  BY <1>2 DEF n
    <3>7. HashType(h') /\ h'.table = u  BY <1>2, <3>4, <3>5, <3>6 DEF HashType
    <3> QED  BY <3>5, <3>7
  <2>2. CASE k \notin DOMAIN stored
    <3>1. h' = g
      <4>1. DeleteEnd(g.table, k) = EndOf(g.table, k)  BY <1>2, DeleteProbes
      <4>2. ~ Found(g.table, k)  BY <1>2, <2>2, FoundExact
      <4>3. EndOf(g.table, k) # Entries => EndOf(g.table, k) \in HashSlots  BY EndFacts
      <4>4. EndOf(g.table, k) # Entries =>
              DeleteProbe(k, EndOf(g.table, k)) = Probe(k, EndOf(g.table, k))
        BY <1>2, <4>3, DeleteProbes
      <4> QED  BY <1>1, <4>1, <4>2, <4>4 DEF Found
    <3>2. stored' = stored  BY <1>2, <1>3, <2>2 DEF Removed, StoreType
    <3> QED  BY <1>2, <3>1, <3>2
  <2> QED  BY <2>1, <2>2
<1> QED  BY <1>3, <1>4, <1>5, <1>6, <1>7 DEF HashInv

\* Every step keeps the invariant.
LEMMA HashKeeps == ASSUME HashInv, [HashNext]_hashVars PROVE HashInv'
<1>1. CASE UNCHANGED hashVars  BY <1>1 DEF hashVars, HashInv, TakenType, stored
<1>2. CASE HashNext  BY <1>2, HashInsertKeeps, HashDeleteKeeps DEF HashNext
<1> QED  BY <1>1, <1>2

\* The invariant answers queries ...
LEMMA QueriesRight == HashInv => QueryExact
<1> SUFFICES ASSUME HashInv, NEW k \in Keys
             PROVE  Query(h.table, k) = IF k \in DOMAIN stored THEN stored[k] ELSE NoVal
  BY DEF QueryExact, stored
<1>1. k \in Nat  BY HashAssumption
<1> QED  BY <1>1, FoundExact DEF HashInv

\* ... and leaves room.
LEMMA RoomInTable == HashInv => RoomForNew
<1> SUFFICES ASSUME HashInv, Cardinality(DOMAIN stored) < Capacity, NEW k \in Keys \ DOMAIN stored,
                    NEW v \in Vals, NEW g \in Checked(h)
             PROVE  InsertSelf(g, k, v).ok
  BY StoredDomain DEF RoomForNew
<1>1. k \in Nat  BY HashAssumption
<1>2. HashType(g) /\ Represents(g.table, stored) /\ StoreType(stored)  BY CheckedKeeps DEF HashInv
<1> QED  BY <1>1, <1>2, InsertFacts

\* In every reachable state the table represents what is stored.
LEMMA HashInvariance == HashSpec => []HashInv
<1>1. HashInv /\ [HashNext]_hashVars => HashInv'  BY HashKeeps
<1> QED  BY <1>1, HashBegins, PTL DEF HashSpec

\* In a table of less than 65536 entries hash_query finds what was inserted and not
\* deleted, with the first value that was accepted for it, through any number of
\* tombstones, reuses and rebuilds.
THEOREM HashTableSafe == HashSpec => []QueryExact
BY HashInvariance, QueriesRight, PTL

\* hash_insert does not fail for want of an entry as long as the user stays within the
\* number of elements that hash_create was asked for.
THEOREM HashTableRoom == HashSpec => []RoomForNew
BY HashInvariance, RoomInTable, PTL
------------------------------------------------------------------------------
(***************************************************************************)
(* The time of the program.                                                *)
(***************************************************************************)

\* The division of C is off by less than the divisor and keeps the order.
LEMMA QuotientClose ==
  ASSUME NEW a \in Int, NEW n \in Int, n > 0
  PROVE  /\ Quotient(a, n) \in Int /\ n * Quotient(a, n) \in Int
         /\ n * Quotient(a, n) < a + n /\ n * Quotient(a, n) > a - n
<1>1. CASE a >= 0
  <2> DEFINE q == a \div n
             r == a % n
  <2>1. q \in Int /\ r \in Int /\ 0 <= r /\ r < n /\ a = n * q + r  BY DivMod
  <2>2. Quotient(a, n) = q  BY <1>1 DEF Quotient
  <2> HIDE DEF q, r
  <2>3. n * q \in Int  BY <2>1
  <2> QED  BY <2>1, <2>2, <2>3
<1>2. CASE a < 0
  <2> DEFINE q == (-a) \div n
             r == (-a) % n
  <2>1. q \in Int /\ r \in Int /\ 0 <= r /\ r < n /\ -a = n * q + r
    <3>1. -a \in Int  OBVIOUS
    <3> QED  BY <3>1, DivMod
  <2>2. Quotient(a, n) = -q  BY <1>2 DEF Quotient
  <2> HIDE DEF q, r
  <2>3. n * q \in Int /\ n * (-q) = - (n * q)  BY <2>1
  <2> QED  BY <2>1, <2>2, <2>3
<1> QED  BY <1>1, <1>2

\* The division of C keeps the order, across zero, too.
LEMMA QuotientAscends ==
  ASSUME NEW a \in Int, NEW b \in Int, a <= b, NEW n \in Int, n > 0
  PROVE  Quotient(a, n) <= Quotient(b, n)
<1>1. CASE a >= 0
  <2>1. a \div n <= b \div n  BY DivAscends
  <2> QED  BY <1>1, <2>1 DEF Quotient
<1>2. CASE a < 0 /\ b < 0
  <2> DEFINE x == (-b) \div n
             y == (-a) \div n
  <2>1. x <= y /\ x \in Int /\ y \in Int
    <3>1. -a \in Int /\ -b \in Int /\ -b <= -a  OBVIOUS
    <3> QED  BY <3>1, DivAscends, DivMod
  <2>2. Quotient(a, n) = -y /\ Quotient(b, n) = -x  BY <1>2 DEF Quotient
  <2> HIDE DEF x, y
  <2> QED  BY <2>1, <2>2
<1>3. CASE a < 0 /\ b >= 0
  <2>1. 0 \div n = 0
    <3>1. 0 = n * 0 + 0 /\ 0 \in Int /\ 0 <= 0 /\ 0 < n  OBVIOUS
    <3> QED  BY <3>1, ModOf
  <2> DEFINE x == b \div n
             y == (-a) \div n
  <2>2. 0 <= x /\ 0 <= y /\ x \in Int /\ y \in Int
    <3>1. -a \in Int /\ 0 <= -a /\ 0 \in Int /\ 0 <= b  BY <1>3
    <3> QED  BY <2>1, <3>1, DivAscends, DivMod
  <2>3. Quotient(a, n) = -y /\ Quotient(b, n) = x  BY <1>3 DEF Quotient
  <2> HIDE DEF x, y
  <2> QED  BY <2>2, <2>3
<1> QED  BY <1>1, <1>2, <1>3

\* The nanoseconds of a second, and what global_get_time computes at the time c when
\* global_time_init was called at g.
Second == Millis * Nanos
Since(g, c) == (c \div Second - g \div Second) * Millis + Quotient((c % Second) - (g % Second), Nanos)

\* Seconds and the nanoseconds that are left.
LEMMA SecondFacts ==
  /\ Millis \in Int /\ Millis > 0 /\ Nanos \in Int /\ Nanos > 0 /\ MaxClock \in Nat
  /\ Wide \in Int /\ Wide > MaxClock
  /\ Second \in Int /\ Second > 0 /\ Second = Millis * Nanos
  /\ \A c \in Int : /\ c \div Second \in Int /\ c % Second \in Int
                    /\ 0 <= c % Second /\ c % Second < Second
                    /\ c = Second * (c \div Second) + (c % Second)
<1>1. /\ Millis \in Int /\ Millis > 0 /\ Nanos \in Int /\ Nanos > 0 /\ MaxClock \in Nat
      /\ Wide \in Int /\ Wide > MaxClock
  BY ClockAssumption
<1>2. Millis * Nanos \in Int /\ Millis * Nanos > 0  BY <1>1
<1> QED  BY <1>1, <1>2, DivMod DEF Second

\* It is within a millisecond of the time between, and never below zero.
LEMMA SinceClose ==
  ASSUME NEW g \in Nat, NEW c \in Nat, g <= c
  PROVE  /\ Since(g, c) \in Nat /\ Since(g, c) <= c - g /\ Since(g, c) * Nanos \in Int
         /\ Since(g, c) * Nanos < c - g + Nanos /\ Since(g, c) * Nanos > c - g - Nanos
<1> DEFINE cs == c \div Second
           gs == g \div Second
           cn == c % Second
           gn == g % Second
           q == Quotient(cn - gn, Nanos)
           e == Since(g, c)
<1>1. /\ cs \in Int /\ gs \in Int /\ cn \in Int /\ gn \in Int
      /\ c = Second * cs + cn /\ g = Second * gs + gn
  BY SecondFacts
<1>2. cn - gn \in Int /\ Millis \in Int /\ Nanos \in Int /\ Nanos > 0 /\ Second = Millis * Nanos
  BY <1>1, SecondFacts
<1>3. e = (cs - gs) * Millis + q  BY DEF Since
<1> HIDE DEF cs, gs, cn, gn, e
<1>4. /\ q \in Int /\ Nanos * q \in Int
      /\ Nanos * q < cn - gn + Nanos /\ Nanos * q > cn - gn - Nanos
  BY <1>2, QuotientClose
<1> HIDE DEF q
<1>5. e \in Int /\ e * Nanos = Second * (cs - gs) + Nanos * q
  <2>1. (cs - gs) * Millis \in Int  BY <1>1, <1>2
  <2>2. ((cs - gs) * Millis + q) * Nanos = (cs - gs) * Millis * Nanos + q * Nanos
    BY <1>1, <1>2, <1>4
  <2>3. (cs - gs) * Millis * Nanos = (Millis * Nanos) * (cs - gs)  BY <1>1, <1>2
  <2>4. q * Nanos = Nanos * q  BY <1>2, <1>4
  <2> QED  BY <1>2, <1>3, <1>4, <2>1, <2>2, <2>3, <2>4
<1>6. Second * (cs - gs) = Second * cs - Second * gs /\ Second * cs \in Int /\ Second * gs \in Int
  BY <1>1, SecondFacts
<1>7. e * Nanos \in Int /\ e * Nanos < c - g + Nanos /\ e * Nanos > c - g - Nanos
  BY <1>1, <1>2, <1>4, <1>5, <1>6
<1>8. e >= 0
  <2> SUFFICES ASSUME e <= -1 PROVE FALSE  BY <1>5
  <2>1. e * Nanos <= -Nanos  BY <1>2, <1>5
  <2> QED  BY <1>2, <1>7, <2>1
<1>9. e <= c - g
  <2> SUFFICES ASSUME e >= c - g + 1 PROVE FALSE  BY <1>5
  <2>1. e * Nanos >= (c - g + 1) * Nanos  BY <1>2, <1>5
  <2>2. (c - g + 1) * Nanos = (c - g) * Nanos + Nanos /\ (c - g) * Nanos \in Int  BY <1>2
  <2>3. (c - g) * Nanos >= c - g  BY <1>2
  <2> QED  BY <1>2, <1>7, <2>1, <2>2, <2>3
<1>10. e \in Nat  BY <1>5, <1>8
<1> QED  BY <1>7, <1>9, <1>10 DEF e

\* It does not go back, not even where the nanoseconds do.
LEMMA SinceAscends ==
  ASSUME NEW g \in Nat, NEW a \in Nat, NEW c \in Nat, a <= c
  PROVE  Since(g, a) <= Since(g, c)
<1> DEFINE sc == c \div Second
           sa == a \div Second
           sg == g \div Second
           nc == c % Second
           na == a % Second
           ng == g % Second
           p == Quotient(na - ng, Nanos)
           q == Quotient(nc - ng, Nanos)
<1>1. /\ sc \in Int /\ sg \in Int /\ nc \in Int /\ ng \in Int /\ sa \in Int /\ na \in Int
      /\ 0 <= nc /\ 0 <= ng /\ 0 <= na /\ nc < Second /\ ng < Second /\ na < Second
      /\ c = Second * sc + nc /\ a = Second * sa + na
  BY SecondFacts
<1>2. sa <= sc  BY SecondFacts, DivAscends
<1>3. Since(g, a) = (sa - sg) * Millis + p /\ Since(g, c) = (sc - sg) * Millis + q
  BY DEF Since
<1>4. /\ Millis \in Int /\ Millis > 0 /\ Nanos \in Int /\ Nanos > 0 /\ Second = Millis * Nanos
      /\ Second \in Int
  BY SecondFacts
<1> HIDE DEF sc, sa, sg, nc, na, ng
<1>5. p \in Int /\ q \in Int  BY <1>1, <1>4, QuotientClose
<1>6. CASE sa = sc
  <2>1. na <= nc  BY <1>1, <1>4, <1>6
  <2>2. na - ng \in Int /\ nc - ng \in Int /\ na - ng <= nc - ng  BY <1>1, <2>1
  <2>3. p <= q  BY <1>4, <2>2, QuotientAscends
  <2> HIDE DEF p, q
  <2>4. (sa - sg) * Millis \in Int  BY <1>1, <1>4
  <2> DEFINE y == (sa - sg) * Millis
  <2>5. y \in Int /\ Since(g, a) = y + p /\ Since(g, c) = y + q  BY <1>3, <1>6, <2>4
  <2> HIDE DEF y
  <2> QED  BY <1>5, <2>3, <2>5
<1>7. CASE sa # sc
  <2> DEFINE u == ng \div Nanos
             v == ng % Nanos
  <2>1. u \in Int /\ v \in Int /\ 0 <= v /\ v < Nanos /\ ng = Nanos * u + v  BY <1>1, <1>4, DivMod
  <2>2. q >= - u
    <3>1. -ng \in Int /\ nc - ng \in Int /\ -ng <= nc - ng  BY <1>1
    <3>2. Quotient(-ng, Nanos) <= q  BY <1>4, <3>1, QuotientAscends
    <3>3. Quotient(-ng, Nanos) = -u
      <4>1. CASE ng = 0
        <5>1. 0 = Nanos * 0 + 0 /\ 0 \in Int /\ 0 <= 0 /\ 0 < Nanos  BY <1>4
        <5>2. 0 \div Nanos = 0  BY <1>4, <5>1, ModOf
        <5> QED  BY <4>1, <5>2 DEF Quotient
      <4>2. CASE ng > 0
        <5>1. -ng < 0 /\ -(-ng) = ng  BY <1>1, <4>2
        <5> QED  BY <5>1 DEF Quotient
      <4> QED  BY <1>1, <4>1, <4>2
    <3> QED  BY <3>2, <3>3
  <2> HIDE DEF u, v
  <2>3. p <= Millis - u - 1
    <3> DEFINE x == Second - 1 - ng
               w == Millis - u - 1
               r == Nanos - 1 - v
    <3>1. x \in Int /\ na - ng \in Int /\ na - ng <= x /\ x >= 0  BY <1>1, <1>4
    <3>2. p <= Quotient(x, Nanos)
      <4> HIDE DEF x
      <4> QED  BY <1>4, <3>1, QuotientAscends
    <3>3. w \in Int /\ r \in Int /\ 0 <= r /\ r < Nanos  BY <1>4, <2>1
    <3>4. x = Nanos * w + r
      <4>1. Nanos * (Millis - u - 1) = Nanos * Millis - Nanos * u - Nanos  BY <1>4, <2>1
      <4>2. Nanos * Millis = Millis * Nanos /\ Nanos * u \in Int  BY <1>4, <2>1
      <4> QED  BY <1>4, <2>1, <4>1, <4>2
    <3> HIDE DEF x, w, r
    <3>5. Quotient(x, Nanos) = w
      <4>1. x \div Nanos = w  BY <1>4, <3>1, <3>3, <3>4, ModOf
      <4> QED  BY <3>1, <4>1 DEF Quotient
    <3> QED  BY <3>2, <3>5 DEF w
  <2> HIDE DEF p, q
  <2>4. (sc - sg) * Millis >= (sa - sg) * Millis + Millis
    <3> DEFINE y == sa - sg
               z == sc - sa - 1
    <3>1. y \in Int /\ z \in Nat /\ sc - sg = y + z + 1
      <4>1. sa \in Int /\ sc \in Int /\ sg \in Int /\ sa < sc  BY <1>1, <1>2, <1>7
      <4>2. y \in Int /\ z \in Nat  BY <4>1
      <4> QED  BY <4>1, <4>2
    <3> HIDE DEF y, z
    <3>2. (y + z + 1) * Millis = y * Millis + z * Millis + Millis  BY <1>4, <3>1
    <3>3. z * Millis >= 0 /\ z * Millis \in Int /\ y * Millis \in Int  BY <1>4, <3>1
    <3>4. (sc - sg) * Millis >= y * Millis + Millis  BY <1>4, <3>1, <3>2, <3>3
    <3> QED  BY <3>4 DEF y
  <2>5. (sc - sg) * Millis \in Int /\ (sa - sg) * Millis \in Int  BY <1>1, <1>4
  <2> DEFINE y == (sa - sg) * Millis
             z == (sc - sg) * Millis
  <2>6. y \in Int /\ z \in Int /\ z >= y + Millis  BY <2>4, <2>5
  <2>7. Since(g, a) = y + p /\ Since(g, c) = z + q  BY <1>3
  <2> HIDE DEF y, z
  <2> QED  BY <1>4, <1>5, <2>1, <2>2, <2>3, <2>6, <2>7
<1> QED  BY <1>6, <1>7

\* An inductive invariant: the last activity is kept against the same beginning.
ClockInv ==
  /\ clock \in 0 .. MaxClock
  /\ activity = None \/ activity \in Nat
  /\ \E g \in 0 .. clock :
       /\ g_time = Timespec(g)
       /\ activity # None =>
            activity >= g /\ activity <= clock /\ last_activity = Since(g, activity)

\* In the range of the clock the width of the number does not matter.
LEMMA ElapsedSince ==
  ASSUME clock \in 0 .. MaxClock, NEW g \in 0 .. clock, g_time = Timespec(g)
  PROVE  Elapsed = Since(g, clock)
<1>1. g \in Nat /\ clock \in Nat /\ g <= clock /\ clock <= MaxClock  BY SecondFacts
<1>2. Since(g, clock) \in Nat /\ Since(g, clock) <= clock - g  BY <1>1, SinceClose
<1>3. Since(g, clock) < Wide  BY <1>1, <1>2, SecondFacts
<1>4. Elapsed = Since(g, clock) % Wide
  BY DEF Elapsed, Since, Second, Timespec
<1> DEFINE e == Since(g, clock)
<1> HIDE DEF e
<1>5. e = Wide * 0 + e /\ 0 \in Int /\ 0 <= e /\ e < Wide /\ Wide > 0 /\ e \in Int
  BY <1>2, <1>3, SecondFacts DEF e
<1>6. e % Wide = e  BY <1>5, SecondFacts, ModOf
<1> QED  BY <1>4, <1>6 DEF e

\* The invariant holds at the start.
LEMMA ClockBegins == ClockInit => ClockInv
<1> SUFFICES ASSUME ClockInit PROVE ClockInv  OBVIOUS
<1>1. 0 \in 0 .. clock  BY SecondFacts DEF ClockInit
<1> QED  BY <1>1 DEF ClockInit, ClockInv

\* Every step keeps it: the beginning only moves before the first activity.
LEMMA ClockKeeps == ASSUME ClockInv, [ClockNext]_clockVars PROVE ClockInv'
<1>0. PICK g \in 0 .. clock :
        /\ g_time = Timespec(g)
        /\ activity # None =>
             activity >= g /\ activity <= clock /\ last_activity = Since(g, activity)
  BY DEF ClockInv
<1>1. /\ clock \in 0 .. MaxClock /\ (activity = None \/ activity \in Nat)
      /\ clock \in Nat /\ MaxClock \in Nat /\ clock <= MaxClock /\ g \in Nat
  BY SecondFacts DEF ClockInv
<1>2. ASSUME GlobalTimeInit PROVE ClockInv'
  <2>1. clock \in 0 .. clock  BY <1>1
  <2> QED  BY <1>1, <1>2, <2>1 DEF GlobalTimeInit, ClockInv, Timespec
<1>3. ASSUME Tick PROVE ClockInv'
  <2>1. clock' \in 0 .. MaxClock /\ clock' >= clock /\ clock' \in Nat  BY <1>1, <1>3 DEF Tick
  <2>2. g_time' = g_time /\ activity' = activity /\ last_activity' = last_activity
    BY <1>3 DEF Tick
  <2>3. g \in 0 .. clock'  BY <1>1, <2>1
  <2>4. activity # None => activity <= clock'  BY <1>0, <1>1, <2>1
  <2> QED  BY <1>0, <1>1, <2>1, <2>2, <2>3, <2>4 DEF ClockInv, Timespec
<1>4. ASSUME Activity PROVE ClockInv'
  <2>1. last_activity' = Since(g, clock)  BY <1>0, <1>1, <1>4, ElapsedSince DEF Activity
  <2>2. activity' = clock /\ clock' = clock /\ g_time' = g_time  BY <1>4 DEF Activity
  <2>3. g <= clock  BY <1>1
  <2> QED  BY <1>0, <1>1, <2>1, <2>2, <2>3 DEF ClockInv, Timespec
<1>5. ASSUME UNCHANGED clockVars PROVE ClockInv'
  BY <1>0, <1>1, <1>5 DEF clockVars, ClockInv, Timespec
<1> QED  BY <1>2, <1>3, <1>4, <1>5 DEF ClockNext

\* It gives the age of a connection.
LEMMA AgeRight == ClockInv => AgeExact
<1> SUFFICES ASSUME ClockInv, activity # None PROVE AgeExact  BY DEF AgeExact
<1>0. PICK g \in 0 .. clock :
        /\ g_time = Timespec(g)
        /\ activity >= g /\ activity <= clock /\ last_activity = Since(g, activity)
  BY DEF ClockInv
<1>1. /\ clock \in 0 .. MaxClock /\ activity \in Nat /\ clock \in Nat /\ g \in Nat
      /\ MaxClock \in Nat /\ g <= clock /\ g <= activity /\ activity <= clock
  BY <1>0, SecondFacts DEF ClockInv
<1> DEFINE now == Since(g, clock)
           last == Since(g, activity)
<1>2. /\ now \in Nat /\ now <= clock - g /\ now * Nanos \in Int
      /\ now * Nanos < clock - g + Nanos
  BY <1>1, SinceClose
<1>3. /\ last \in Nat /\ last * Nanos \in Int /\ last * Nanos > activity - g - Nanos
  BY <1>1, SinceClose
<1>3a. now * Nanos > clock - g - Nanos /\ last * Nanos < activity - g + Nanos
  BY <1>1, SinceClose
<1>4. last <= now  BY <1>1, SinceAscends
<1>5. Age = (now - last) % Wide  BY <1>0, <1>1, ElapsedSince DEF Age
<1> HIDE DEF now, last
<1>6. Age = now - last
  <2> DEFINE a == now - last
  <2>1. a \in Int /\ 0 <= a /\ a < Wide /\ a = Wide * 0 + a /\ 0 \in Int /\ Wide > 0 /\ Wide \in Int
    BY <1>1, <1>2, <1>3, <1>4, SecondFacts
  <2> HIDE DEF a
  <2>2. a % Wide = a  BY <2>1, ModOf
  <2> QED  BY <1>5, <2>2 DEF a
<1>7. (now - last) * Nanos = now * Nanos - last * Nanos  BY <1>2, <1>3, SecondFacts
<1>8. Age * Nanos = now * Nanos - last * Nanos  BY <1>6, <1>7
<1>9. Nanos \in Int  BY SecondFacts
<1> QED  BY <1>1, <1>2, <1>3, <1>3a, <1>8, <1>9 DEF AgeExact

\* tcpserver_time_on_read compares the timeout with the time since the last activity, to
\* less than two milliseconds, wherever in a second the program was started.
THEOREM AgeSafe == ClockSpec => []AgeExact
<1>1. ClockInv /\ [ClockNext]_clockVars => ClockInv'  BY ClockKeeps
<1>2. ClockSpec => []ClockInv  BY <1>1, ClockBegins, PTL DEF ClockSpec
<1> QED  BY <1>2, AgeRight, PTL
==============================================================================
