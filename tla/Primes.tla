------------------------------- MODULE Primes -------------------------------
(***************************************************************************)
(* other/prime.c, the table of primes that hash tables are sized by, and   *)
(* the beginning of hash_create, which fills the table when it is first    *)
(* needed and looks for the size in it.                                    *)
(***************************************************************************)
EXTENDS Integers, Sequences, FiniteSets

CONSTANTS
  MaxPrime,    \* MAX_PRIME_NUMBER
  Stride       \* the table keeps one prime in so many, 100 in the code

\* With a stride of one or two the table would hold 0 and 1.
ASSUME PrimeAssumption == Stride \in Nat /\ Stride >= 3 /\ MaxPrime \in Nat /\ MaxPrime >= 2

VARIABLES
  prime,       \* the global pointer, << >> while it is NULL
  prime_size,
  asked        \* the number a table was last created for, and the size it got

primeVars == <<prime, prime_size, asked>>

NoSize == 0            \* hash_create returned NULL
Unwritten == -1        \* an entry of the table that was never written

PrimesInit == prime = << >> /\ prime_size = 0 /\ asked = [number |-> 0, size |-> NoSize]

\* The numbers that the inner loop crosses out for i.  Mutant: it stops early.
Multiples_Early(i) == {j \in 2 * i .. MaxPrime - 3 * i : j % i = 0}
Multiples(i) == {j \in 2 * i .. MaxPrime - 1 : j % i = 0}

\* What the first loop crosses out.
Crossed ==
  LET before[i \in 2 .. MaxPrime] ==
        IF i = 2 THEN {}
        ELSE LET S == before[i - 1] IN
             IF i - 1 \in S THEN S ELSE S \union Multiples(i - 1)
  IN  before[MaxPrime]

\* The second loop also counts 0 and 1, the first one does not.
Count(from, i) == Cardinality((from .. i) \ Crossed)
Kept == {i \in (0 .. MaxPrime - 1) \ Crossed : Count(0, i) % Stride = 0}
PrimeSize == Count(2, MaxPrime - 1) \div Stride

\* prime_init, with the numbers it keeps up to the counted size.
Table ==
  [k \in 1 .. PrimeSize |->
     IF k > Cardinality(Kept) THEN Unwritten
     ELSE CHOOSE i \in Kept : Cardinality({j \in Kept : j <= i}) = k]

\* The loop of hash_create between l and r, which the code counts from 0.
\* Mutant: an entry of just the wanted size is passed over.
Enough_Greater(p, number) == p > number
Enough(p, number) == p >= number
Search(t, number) ==
  LET at[lr \in (0 .. Len(t)) \X (0 .. Len(t))] ==
        LET l == lr[1]
            r == lr[2]
            mid == (l + r) \div 2
        IN  IF l + 1 = r THEN t[r]
            ELSE IF Enough(t[mid], number) THEN at[<<l, mid>>] ELSE at[<<mid, r>>]
  IN  at[<<0, Len(t)>>]

\* The size of a table for so many elements.
SizeFor(t, number) ==
  IF 2 * number >= MaxPrime \/ Search(t, 2 * number) < 2 * number THEN NoSize
  ELSE Search(t, 2 * number)

\* hash_create up to its allocations
Ask(number) ==
  /\ prime' = IF prime = << >> THEN Table ELSE prime
  /\ prime_size' = IF prime = << >> THEN prime_size + PrimeSize ELSE prime_size
  /\ asked' = [number |-> number, size |-> SizeFor(prime', number)]

PrimesNext == \E number \in 0 .. MaxPrime : Ask(number)

PrimesSpec == PrimesInit /\ [][PrimesNext]_primeVars
------------------------------------------------------------------------------
IsPrime(i) == i > 1 /\ \A d \in 2 .. i - 1 : i % d # 0

\* Every entry of the table has been written, although its size is counted in
\* one loop and its entries in another that counts two numbers more; the entries
\* are primes and ascend, which the search needs and quadratic probing, too.
TableSound ==
  /\ prime_size = Len(prime)
  /\ \A k \in 1 .. Len(prime) : IsPrime(prime[k]) /\ (k > 1 => prime[k - 1] < prime[k])

\* A hash table gets the smallest size of the table of primes that leaves it
\* half empty, or none when there is no such size.
SizeExact ==
  LET fit == {k \in 1 .. Len(prime) : prime[k] >= 2 * asked.number} IN
  prime # << >> =>
    /\ asked.size = NoSize <=> fit = {}
    /\ fit # {} => asked.size \in {prime[k] : k \in fit} /\ \A k \in fit : asked.size <= prime[k]
=============================================================================
