--------------------------- MODULE MessageProofs ---------------------------
(***************************************************************************)
(* What holds of the reading of HTTP for texts of any length and bytes:    *)
(* the parsers take exactly the messages, wherever the buffer ends, what   *)
(* they say of one is what its lines say, a refusal is for good, and a     *)
(* request does not depend on the pieces it comes in.                      *)
(***************************************************************************)
EXTENDS HttpRead, Recursion, FiniteSetTheorems, SequenceTheorems

\* A part of a sequence.
LEMMA PartOf ==
  ASSUME NEW V, NEW s \in Seq(V), NEW a \in 1 .. Len(s) + 1, NEW b \in a - 1 .. Len(s)
  PROVE  /\ SubSeq(s, a, b) \in Seq(V) /\ Len(SubSeq(s, a, b)) = b - a + 1
         /\ DOMAIN SubSeq(s, a, b) = 1 .. b - a + 1
         /\ \A i \in 1 .. b - a + 1 : SubSeq(s, a, b)[i] = s[a + i - 1]
OBVIOUS
------------------------------------------------------------------------------
(***************************************************************************)
(* Requests that come in pieces: the parts of the parser.                  *)
(***************************************************************************)
Positions(s) == 1 .. Len(s) + 1

\* The first byte of a kind, or the end.
LEMMA FirstOfIs ==
  ASSUME NEW s \in Seq(Bytes), NEW i \in Positions(s), NEW S
  PROVE  /\ FirstOf(s, i, S) \in i .. Len(s) + 1
         /\ \A j \in i .. FirstOf(s, i, S) - 1 : s[j] \notin S
         /\ FirstOf(s, i, S) <= Len(s) => s[FirstOf(s, i, S)] \in S
<1>0. Len(s) \in Nat /\ i \in 1 .. Len(s) + 1  BY DEF Positions
<1> DEFINE P == {p \in i .. Len(s) : s[p] \in S} \union {Len(s) + 1}
           f == FirstOf(s, i, S)
<1>1. P \in SUBSET Nat /\ P # {}  BY <1>0
<1>2. PICK n \in P : \A m \in P : n <= m  BY <1>1, Least
<1>3. f = CHOOSE x \in P : \A y \in P : x <= y  BY DEF FirstOf, Min
<1>4. f \in P /\ \A m \in P : f <= m  BY <1>2, <1>3
<1> HIDE DEF f
<1>5. f \in i .. Len(s) + 1  BY <1>0, <1>4
<1>6. ASSUME NEW j \in i .. f - 1 PROVE s[j] \notin S
  BY <1>0, <1>4, <1>5
<1>7. f <= Len(s) => s[f] \in S  BY <1>0, <1>4
<1> QED  BY <1>5, <1>6, <1>7 DEF f

\* Reach, where it finds its byte.
LEMMA ReachIs ==
  ASSUME NEW s \in Seq(Bytes), NEW i \in Positions(s), NEW S, NEW G, Reach(s, i, S, G) >= 0
  PROVE  /\ Reach(s, i, S, G) \in i .. Len(s) /\ s[Reach(s, i, S, G)] \in G \intersect S
         /\ \A j \in i .. Reach(s, i, S, G) - 1 : s[j] \notin S
<1>0. Len(s) \in Nat /\ i \in Nat  BY DEF Positions
<1> DEFINE f == FirstOf(s, i, S)
<1>1. /\ f \in i .. Len(s) + 1 /\ \A j \in i .. f - 1 : s[j] \notin S
      /\ f <= Len(s) => s[f] \in S
  BY FirstOfIs
<1>2. Reach(s, i, S, G) = IF f = Len(s) + 1 THEN More ELSE IF s[f] \in G THEN f ELSE Bad
  BY DEF Reach, AtEnd
<1> HIDE DEF f
<1>3. ~(More >= 0) /\ ~(Bad >= 0)  BY DEF More, Bad
<1>4. f # Len(s) + 1 /\ s[f] \in G /\ Reach(s, i, S, G) = f  BY <1>2, <1>3
<1> QED  BY <1>0, <1>1, <1>4

\* What the searches return.
LEMMA ReachType ==
  ASSUME NEW s \in Seq(Bytes), NEW i \in Positions(s), NEW S, NEW G
  PROVE  Reach(s, i, S, G) \in Int
<1> DEFINE f == FirstOf(s, i, S)
<1>1. f \in i .. Len(s) + 1 /\ i \in Nat  BY FirstOfIs DEF Positions
<1>2. Reach(s, i, S, G) = IF f = Len(s) + 1 THEN More ELSE IF s[f] \in G THEN f ELSE Bad
  BY DEF Reach, AtEnd
<1> HIDE DEF f
<1> QED  BY <1>1, <1>2 DEF More, Bad

\* A line end.
LEMMA LineEndIs ==
  ASSUME NEW s \in Seq(Bytes), NEW i \in Positions(s)
  PROVE  /\ LineEnd(s, i) \in Int
         /\ LineEnd(s, i) >= 0 =>
              i <= Len(s) /\ s[i] \in {"CR", "LF"} /\ LineEnd(s, i) \in i + 1 .. Len(s) + 1
<1>0. Len(s) \in Nat /\ i \in 1 .. Len(s) + 1  BY DEF Positions
<1>1. CASE i = Len(s) + 1
  BY <1>0, <1>1 DEF LineEnd, AtEnd, More
<1>2. CASE i # Len(s) + 1 /\ s[i] = "CR"
  <2>1. LineEnd(s, i) = IF i + 1 = Len(s) + 1 THEN More ELSE IF s[i + 1] = "LF" THEN i + 2 ELSE Bad
    BY <1>0, <1>2 DEF LineEnd, AtEnd, Expect
  <2> QED  BY <1>0, <1>2, <2>1 DEF More, Bad
<1>3. CASE i # Len(s) + 1 /\ s[i] = "LF"
  <2>1. LineEnd(s, i) = i + 1  BY <1>3 DEF LineEnd, AtEnd
  <2> QED  BY <1>0, <1>3, <2>1
<1>4. CASE i # Len(s) + 1 /\ s[i] \notin {"CR", "LF"}
  <2>1. LineEnd(s, i) = Bad  BY <1>4 DEF LineEnd, AtEnd
  <2> QED  BY <2>1 DEF Bad
<1> QED  BY <1>1, <1>2, <1>3, <1>4

\* Nothing between two positions ends a line.
Plain(s, a, b) == \A j \in a .. b - 1 : s[j] \notin {"CR", "LF"}

\* A token, with nothing in it that ends a line.
LEMMA TokenIs ==
  ASSUME NEW s \in Seq(Bytes), NEW i \in Positions(s), NEW c \in {"SP", ":"}, Token(s, i, c) >= 0
  PROVE  Token(s, i, c) \in i .. Len(s) /\ s[Token(s, i, c)] = c /\ Plain(s, i, Token(s, i, c))
<1> DEFINE S == (Bytes \ TokenChars) \union {c}
           t == Token(s, i, c)
<1>1. t = Reach(s, i, S, {c}) /\ t >= 0  BY DEF Token
<1>2. "CR" \in S /\ "LF" \in S  BY DEF Bytes, TokenChars, Controls
<1> HIDE DEF S, t
<1>3. t \in i .. Len(s) /\ s[t] \in {c} \intersect S /\ \A j \in i .. t - 1 : s[j] \notin S
  BY <1>1, ReachIs
<1> QED  BY <1>2, <1>3 DEF Plain, t

\* What is in front of a space.
LEMMA AdvanceTokenIs ==
  ASSUME NEW s \in Seq(Bytes), NEW i \in Positions(s), AdvanceToken(s, i) >= 0
  PROVE  /\ AdvanceToken(s, i) \in i .. Len(s) /\ s[AdvanceToken(s, i)] = "SP"
         /\ Plain(s, i, AdvanceToken(s, i))
<1> DEFINE S == Controls \union {"SP"}
           t == AdvanceToken(s, i)
<1>1. t = Reach(s, i, S, {"SP"}) /\ t >= 0  BY DEF AdvanceToken
<1>2. "CR" \in S /\ "LF" \in S  BY DEF Controls
<1> HIDE DEF S, t
<1>3. t \in i .. Len(s) /\ s[t] \in {"SP"} \intersect S /\ \A j \in i .. t - 1 : s[j] \notin S
  BY <1>1, ReachIs
<1> QED  BY <1>2, <1>3 DEF Plain, t

\* Over spaces.
LEMMA SkipSpacesIs ==
  ASSUME NEW s \in Seq(Bytes), NEW i \in 1 .. Len(s), s[i] = "SP", SkipSpaces(s, i) >= 0
  PROVE  SkipSpaces(s, i) \in i + 1 .. Len(s) /\ Plain(s, i, SkipSpaces(s, i))
<1> DEFINE S == Bytes \ {"SP"}
           t == SkipSpaces(s, i)
           G == Bytes
<1>0. Len(s) \in Nat /\ i + 1 \in Positions(s)  BY DEF Positions
<1>1. t = Reach(s, i + 1, S, G) /\ t >= 0  BY DEF SkipSpaces
<1>2. "CR" \in S /\ "LF" \in S  BY DEF Bytes, Controls
<1> HIDE DEF S, G, t
<1>3. t \in i + 1 .. Len(s) /\ \A j \in i + 1 .. t - 1 : s[j] \notin S
  BY <1>0, <1>1, ReachIs
<1>4. s[i] \notin {"CR", "LF"}  OBVIOUS
<1> QED  BY <1>0, <1>2, <1>3, <1>4 DEF Plain, t

\* Over blanks.
LEMMA SkipBlanksIs ==
  ASSUME NEW s \in Seq(Bytes), NEW i \in Positions(s), SkipBlanks(s, i) >= 0
  PROVE  SkipBlanks(s, i) \in i .. Len(s) /\ Plain(s, i, SkipBlanks(s, i))
<1> DEFINE S == Bytes \ Blanks
           t == SkipBlanks(s, i)
           G == Bytes
<1>1. t = Reach(s, i, S, G) /\ t >= 0  BY DEF SkipBlanks
<1>2. "CR" \in S /\ "LF" \in S  BY DEF Bytes, Blanks, Controls
<1> HIDE DEF S, G, t
<1>3. t \in i .. Len(s) /\ \A j \in i .. t - 1 : s[j] \notin S  BY <1>1, ReachIs
<1> QED  BY <1>2, <1>3 DEF Plain, t

\* The text of a line.
LEMMA EolIs ==
  ASSUME NEW s \in Seq(Bytes), NEW i \in Positions(s)
  PROVE  /\ Eol(s, i) \in i .. Len(s) + 1 /\ Plain(s, i, Eol(s, i))
         /\ i <= Len(s) /\ s[i] \in Blanks => Eol(s, i) # i
<1> DEFINE S == Controls \ {"HT"}
           e == Eol(s, i)
<1>1. /\ e \in i .. Len(s) + 1 /\ \A j \in i .. e - 1 : s[j] \notin S
      /\ e <= Len(s) => s[e] \in S
  BY FirstOfIs DEF Eol
<1>2. "CR" \in S /\ "LF" \in S /\ \A b \in Blanks : b \notin S  BY DEF Controls, Blanks
<1> HIDE DEF S, e
<1> QED  BY <1>1, <1>2 DEF Plain, e

\* The version.
LEMMA VersionIs ==
  ASSUME NEW s \in Seq(Bytes), NEW i \in 1 .. Len(s)
  PROVE  /\ Version(s, i) \in Int
         /\ Version(s, i) >= 0 =>
              i + 1 <= Len(s) /\ Version(s, i) = i + 2 /\ s[i] = "V" /\ s[i + 1] = "1"
<1>0. Len(s) \in Nat /\ i \in 1 .. Len(s)  OBVIOUS
<1>1. CASE i = Len(s)
  <2> DEFINE V == Versions(s, i)
  <2>1. V = {} \/ V = {i}  BY <1>0, <1>1 DEF Versions
  <2>2. Cardinality(V) \in {0, 1}  BY <2>1, FS_EmptySet, FS_Singleton
  <2>3. Width(s, i) = Len(s) + 1 - i + 6 * Cardinality(V)  BY DEF Width
  <2> HIDE DEF V
  <2>4. Width(s, i) < 9  BY <1>0, <1>1, <2>2, <2>3
  <2> QED  BY <2>4 DEF Version, More
<1>2. CASE i # Len(s)
  BY <1>0, <1>2 DEF Version, More, Bad
<1> QED  BY <1>1, <1>2
------------------------------------------------------------------------------
(***************************************************************************)
(* The search for the blank line.                                          *)
(***************************************************************************)
Places(s) == Positions(s) \X (0 .. 2)

\* What the search says at a place of the buffer, behind so many line ends: at a
\* line end it counts it, at another byte it begins again.
Seeks(s, f) ==
  \A p \in Positions(s) :
    /\ f[<<p, 2>>] = p
    /\ \A n \in 0 .. 1 :
         /\ p <= Len(s) /\ s[p] \in {"CR", "LF"} /\ LineEnd(s, p) >= 0
              => f[<<p, n>>] = f[<<LineEnd(s, p), n + 1>>]
         /\ p <= Len(s) /\ s[p] \notin {"CR", "LF"} => f[<<p, n>>] = f[<<p + 1, 0>>]

SeekStep(s, at, f) ==
  LET p == at[1]
      n == at[2]
  IN  IF n = 2 THEN p
      ELSE IF AtEnd(s, p) THEN More
      ELSE IF s[p] \in {"CR", "LF"}
           THEN IF LineEnd(s, p) < 0 THEN LineEnd(s, p) ELSE f[<<LineEnd(s, p), n + 1>>]
      ELSE f[<<p + 1, 0>>]

\* is_complete, as what a recursive function that exists computes.
LEMMA CompleteUnfolds ==
  ASSUME NEW s \in Seq(Bytes), NEW i \in Positions(s)
  PROVE  /\ IsComplete(s, i) \in Int
         /\ \E f : /\ Seeks(s, f) /\ \A at \in Places(s) : f[at] = SeekStep(s, at, f)
                   /\ IsComplete(s, i) = f[<<i, 0>>]
<1>0. Len(s) \in Nat  OBVIOUS
<1> DEFINE A == Places(s)
           G == [q \in A \X [A -> Int] |-> SeekStep(s, q[1], q[2])]
           rank == [at \in A |-> Len(s) + 1 - at[1]]
<1>1. rank \in [A -> Nat] /\ Int # {}
  <2> SUFFICES ASSUME NEW at \in A PROVE Len(s) + 1 - at[1] \in Nat  OBVIOUS
  <2>1. at[1] \in 1 .. Len(s) + 1  BY DEF Places, Positions
  <2> QED  BY <1>0, <2>1
\* Where the search goes on.
<1>2. ASSUME NEW at \in A, at[2] # 2, ~AtEnd(s, at[1])
      PROVE  /\ at[1] \in Positions(s) /\ at[1] + 1 \in Positions(s) /\ at[2] + 1 \in 0 .. 2
             /\ <<at[1] + 1, 0>> \in A /\ rank[<<at[1] + 1, 0>>] < rank[at]
             /\ LineEnd(s, at[1]) \in Int
             /\ ~(LineEnd(s, at[1]) < 0) =>
                  /\ <<LineEnd(s, at[1]), at[2] + 1>> \in A
                  /\ rank[<<LineEnd(s, at[1]), at[2] + 1>>] < rank[at]
  <2> DEFINE p == at[1]
             n == at[2]
             e == LineEnd(s, p)
  <2>1. p \in Positions(s) /\ n \in 0 .. 2  BY DEF Places
  <2>2. e \in Int /\ (e >= 0 => p <= Len(s) /\ e \in p + 1 .. Len(s) + 1)
    BY <2>1, LineEndIs
  <2>3. n # 2 /\ p # Len(s) + 1  BY <1>2 DEF AtEnd
  <2>4. rank[at] = Len(s) + 1 - p  OBVIOUS
  <2> HIDE DEF p, n, e
  <2>5. p + 1 \in Positions(s) /\ n + 1 \in 0 .. 2 /\ 0 \in 0 .. 2
    BY <1>0, <2>1, <2>3 DEF Positions
  <2>6. <<p + 1, 0>> \in A /\ rank[<<p + 1, 0>>] = Len(s) + 1 - (p + 1)
    BY <2>5 DEF Places
  <2>7. ASSUME ~(e < 0)
        PROVE  <<e, n + 1>> \in A /\ rank[<<e, n + 1>>] = Len(s) + 1 - e /\ e > p
    <3>1. e \in Positions(s) /\ e > p  BY <1>0, <2>1, <2>2, <2>7 DEF Positions
    <3> QED  BY <2>5, <3>1 DEF Places
  <2>8. p \in Int /\ e \in Int /\ Len(s) \in Int  BY <1>0, <2>1, <2>2 DEF Positions
  <2>9. rank[<<p + 1, 0>>] < rank[at]  BY <2>4, <2>6, <2>8
  <2>10. ~(e < 0) => rank[<<e, n + 1>>] < rank[at]  BY <2>4, <2>7, <2>8
  <2> QED  BY <2>1, <2>2, <2>5, <2>6, <2>7, <2>9, <2>10 DEF p, n, e
<1>3. ASSUME NEW at \in A, NEW f, \A b \in A : rank[b] < rank[at] => f[b] \in Int
      PROVE  SeekStep(s, at, f) \in Int
  <2>1. at[1] \in Int  BY DEF Places, Positions
  <2> HIDE DEF A, rank
  <2>2. CASE at[2] = 2  BY <2>1, <2>2 DEF SeekStep
  <2>3. CASE at[2] # 2 /\ AtEnd(s, at[1])  BY <2>3 DEF SeekStep, More
  <2>4. CASE at[2] # 2 /\ ~AtEnd(s, at[1])
    <3>1. f[<<at[1] + 1, 0>>] \in Int  BY <1>2, <1>3, <2>4
    <3>2. ~(LineEnd(s, at[1]) < 0) => f[<<LineEnd(s, at[1]), at[2] + 1>>] \in Int
      BY <1>2, <1>3, <2>4
    <3>3. LineEnd(s, at[1]) \in Int  BY <1>2, <2>4
    <3> QED  BY <2>4, <3>1, <3>2, <3>3 DEF SeekStep
  <2> QED  BY <2>2, <2>3, <2>4
<1>4. LooksBelow(G, A, Int, rank)
  <2> SUFFICES ASSUME NEW at \in A, NEW f \in [A -> Int], NEW g \in [A -> Int],
                      AgreeBelow(f, g, A, rank, rank[at])
               PROVE  SeekStep(s, at, f) = SeekStep(s, at, g)
    BY DEF LooksBelow
  <2> HIDE DEF A, rank
  <2>1. CASE at[2] = 2 \/ AtEnd(s, at[1])  BY <2>1 DEF SeekStep
  <2>2. CASE at[2] # 2 /\ ~AtEnd(s, at[1])
    <3>1. f[<<at[1] + 1, 0>>] = g[<<at[1] + 1, 0>>]  BY <1>2, <2>2 DEF AgreeBelow
    <3>2. ~(LineEnd(s, at[1]) < 0) =>
            f[<<LineEnd(s, at[1]), at[2] + 1>>] = g[<<LineEnd(s, at[1]), at[2] + 1>>]
      BY <1>2, <2>2 DEF AgreeBelow
    <3> QED  BY <2>2, <3>1, <3>2 DEF SeekStep
  <2> QED  BY <2>1, <2>2
<1>5. G \in [A \X [A -> Int] -> Int]
  <2> SUFFICES ASSUME NEW at \in A, NEW f \in [A -> Int] PROVE SeekStep(s, at, f) \in Int
    OBVIOUS
  <2>1. \A b \in A : f[b] \in Int  OBVIOUS
  <2> QED  BY <1>3, <2>1
<1>6. Recursive(G, A, Int, rank)  BY <1>1, <1>4, <1>5 DEF Recursive
<1> HIDE DEF rank, G, A
<1>7. PICK f \in [A -> Int] : \A at \in A : f[at] = G[<<at, f>>]
  BY <1>6, RecursiveFunctionExists
<1>8. f = [at \in A |-> SeekStep(s, at, f)]  BY <1>7 DEF G
<1> DEFINE Eq(from) == from = [at \in A |-> SeekStep(s, at, from)]
           c == CHOOSE from : Eq(from)
<1>9. Eq(c)  BY <1>8
<1>10. IsComplete(s, i) = c[<<i, 0>>]
  BY DEF IsComplete, SeekStep, Then, A, Places, Positions
<1> HIDE DEF c
<1>11. \A at \in A : c[at] = SeekStep(s, at, c)  BY <1>9
<1>12. ASSUME NEW p \in Positions(s), NEW n \in 0 .. 2
       PROVE  /\ n = 2 => c[<<p, n>>] = p
              /\ n # 2 /\ p <= Len(s) /\ s[p] \in {"CR", "LF"} /\ LineEnd(s, p) >= 0
                   => c[<<p, n>>] = c[<<LineEnd(s, p), n + 1>>]
              /\ n # 2 /\ p <= Len(s) /\ s[p] \notin {"CR", "LF"}
                   => c[<<p, n>>] = c[<<p + 1, 0>>]
  <2>1. <<p, n>> \in A  BY DEF A, Places
  <2>2. c[<<p, n>>] = SeekStep(s, <<p, n>>, c)  BY <1>11, <2>1
  <2>3. p <= Len(s) => ~AtEnd(s, p)  BY <1>0 DEF AtEnd, Positions
  <2>4. LineEnd(s, p) \in Int  BY LineEndIs
  <2> QED  BY <2>2, <2>3, <2>4 DEF SeekStep
<1>13. Seeks(s, c)
  <2> SUFFICES ASSUME NEW p \in Positions(s)
               PROVE  /\ c[<<p, 2>>] = p
                      /\ \A n \in 0 .. 1 :
                           /\ p <= Len(s) /\ s[p] \in {"CR", "LF"} /\ LineEnd(s, p) >= 0
                                => c[<<p, n>>] = c[<<LineEnd(s, p), n + 1>>]
                           /\ p <= Len(s) /\ s[p] \notin {"CR", "LF"}
                                => c[<<p, n>>] = c[<<p + 1, 0>>]
    BY DEF Seeks
  <2>1. 2 \in 0 .. 2 /\ \A n \in 0 .. 1 : n \in 0 .. 2 /\ n # 2  OBVIOUS
  <2> QED  BY <1>12, <2>1
<1>14. c[<<i, 0>>] \in Int
  <2> DEFINE S == {at \in A : c[at] \in Int}
  <2>1. ASSUME NEW at \in A, \A b \in A : rank[b] < rank[at] => b \in S PROVE at \in S
    <3>1. \A b \in A : rank[b] < rank[at] => c[b] \in Int  BY <2>1
    <3>2. SeekStep(s, at, c) \in Int  BY <1>3, <3>1
    <3> QED  BY <1>11, <3>2
  <2> HIDE DEF S
  <2>2. A \subseteq S  BY <1>1, <2>1, RankInduction
  <2>3. <<i, 0>> \in A  BY DEF A, Places
  <2> QED  BY <2>2, <2>3 DEF S
<1> QED  BY <1>10, <1>11, <1>13, <1>14 DEF A

\* Over a text without line ends the search begins again.
LEMMA PlainSkips ==
  ASSUME NEW s \in Seq(Bytes), NEW f, Seeks(s, f), NEW a \in Positions(s), NEW b \in Positions(s),
         a < b, Plain(s, a, b), NEW n \in 0 .. 1
  PROVE  f[<<a, n>>] = f[<<b, 0>>]
<1>0. Len(s) \in Nat /\ a \in 1 .. Len(s) + 1 /\ b \in 1 .. Len(s) + 1  BY DEF Positions
<1> DEFINE S == {k \in Nat : a + 1 + k <= b => f[<<a, n>>] = f[<<a + 1 + k, 0>>]}
<1>1. ASSUME NEW p \in a .. b - 1, NEW m \in 0 .. 1 PROVE f[<<p, m>>] = f[<<p + 1, 0>>]
  <2>1. p \in Positions(s) /\ p <= Len(s) /\ s[p] \notin {"CR", "LF"}
    BY <1>0 DEF Positions, Plain
  <2> QED  BY <2>1 DEF Seeks
<1>2. 0 \in S
  <2>1. a \in a .. b - 1 /\ a + 1 + 0 = a + 1  BY <1>0
  <2> QED  BY <1>1, <2>1
<1>3. ASSUME NEW k \in Nat, k \in S PROVE k + 1 \in S
  <2> SUFFICES ASSUME a + 1 + (k + 1) <= b PROVE f[<<a, n>>] = f[<<a + 1 + (k + 1), 0>>]
    OBVIOUS
  <2>1. f[<<a, n>>] = f[<<a + 1 + k, 0>>]  BY <1>0, <1>3
  <2>2. a + 1 + k \in a .. b - 1 /\ (a + 1 + k) + 1 = a + 1 + (k + 1) /\ 0 \in 0 .. 1
    BY <1>0
  <2>3. f[<<a + 1 + k, 0>>] = f[<<(a + 1 + k) + 1, 0>>]  BY <1>1, <2>2
  <2> QED  BY <2>1, <2>2, <2>3
<1> HIDE DEF S
<1>4. \A k \in Nat : k \in S  BY <1>2, <1>3, Induction
<1>5. b - a - 1 \in Nat /\ a + 1 + (b - a - 1) = b  BY <1>0
<1> DEFINE k == b - a - 1
<1>6. k \in S  BY <1>4, <1>5
<1>7. a + 1 + k = b /\ a + 1 + k <= b  BY <1>0, <1>5
<1> HIDE DEF k
<1>8. f[<<a, n>>] = f[<<a + 1 + k, 0>>]  BY <1>6, <1>7 DEF S
<1> QED  BY <1>7, <1>8
------------------------------------------------------------------------------
(***************************************************************************)
(* The headers.                                                            *)
(***************************************************************************)
\* The text from a to b, in two parts.
LEMMA PlainJoins ==
  ASSUME NEW s \in Seq(Bytes), NEW a \in Nat, NEW b \in Nat, NEW c \in Nat,
         Plain(s, a, b), b <= c, Plain(s, b, c)
  PROVE  Plain(s, a, c)
<1> SUFFICES ASSUME NEW j \in a .. c - 1 PROVE s[j] \notin {"CR", "LF"}  BY DEF Plain
<1>1. CASE j < b
  <2>1. j \in a .. b - 1  BY <1>1
  <2> QED  BY <2>1 DEF Plain
<1>2. CASE ~(j < b)
  <2>1. j \in b .. c - 1  BY <1>2
  <2> QED  BY <2>1 DEF Plain
<1> QED  BY <1>1, <1>2

\* A text of one byte.
LEMMA PlainByte ==
  ASSUME NEW s, NEW c \in Nat, s[c] \notin {"CR", "LF"}
  PROVE  Plain(s, c, c + 1)
<1>1. \A j \in c .. (c + 1) - 1 : j = c  OBVIOUS
<1> QED  BY <1>1 DEF Plain

\* Where the value of a header begins.
LEMMA ValueIs ==
  ASSUME NEW s \in Seq(Bytes), NEW i \in 1 .. Len(s), NEW n \in Nat
  PROVE  /\ ValueAt(s, i, n) \in Int
         /\ ValueAt(s, i, n) >= 0 => ValueAt(s, i, n) \in i .. Len(s) /\ Plain(s, i, ValueAt(s, i, n))
<1>0. Len(s) \in Nat /\ i \in Positions(s)  BY DEF Positions
<1>1. CASE Folded(s, i, n)
  <2>1. ValueAt(s, i, n) = i  BY <1>1 DEF ValueAt
  <2>2. Plain(s, i, i)  BY <1>0 DEF Plain
  <2> QED  BY <1>0, <2>1, <2>2
<1>2. CASE ~Folded(s, i, n)
  <2> DEFINE c == Token(s, i, ":")
             v == SkipBlanks(s, c + 1)
  <2>1. ValueAt(s, i, n) = IF c < 0 THEN c ELSE IF c = i THEN Bad ELSE v
    BY <1>2 DEF ValueAt, Then
  <2>2. c \in Int  BY <1>0, ReachType DEF Token
  <2>3. c >= 0 => c \in i .. Len(s) /\ s[c] = ":" /\ Plain(s, i, c)  BY <1>0, TokenIs
  <2>4. c >= 0 => v \in Int
    <3> SUFFICES ASSUME c >= 0 PROVE v \in Int  OBVIOUS
    <3>1. c + 1 \in Positions(s)  BY <1>0, <2>3 DEF Positions
    <3> HIDE DEF c
    <3> QED  BY <3>1, ReachType DEF SkipBlanks
  <2>5. ASSUME c >= 0, v >= 0 PROVE v \in i .. Len(s) /\ Plain(s, i, v)
    <3> HIDE DEF c
    <3>1. c + 1 \in Positions(s) /\ c \in i .. Len(s)  BY <1>0, <2>3, <2>5 DEF Positions
    <3>2. v \in c + 1 .. Len(s) /\ Plain(s, c + 1, v)  BY <2>5, <3>1, SkipBlanksIs
    <3> HIDE DEF v
    <3>3. Plain(s, c, c + 1)
      <4>1. c \in Nat /\ s[c] \notin {"CR", "LF"}  BY <1>0, <2>3, <2>5, <3>1
      <4> QED  BY <4>1, PlainByte
    <3>4. i \in Nat /\ c \in Nat /\ c + 1 \in Nat /\ v \in Nat /\ c <= c + 1 /\ c + 1 <= v /\ i <= c
      BY <1>0, <3>1, <3>2
    <3>5. Plain(s, i, c)  BY <2>3, <2>5
    <3>6. Plain(s, i, c + 1)  BY <3>3, <3>4, <3>5, PlainJoins
    <3>7. Plain(s, i, v)  BY <3>2, <3>4, <3>6, PlainJoins
    <3> QED  BY <1>0, <3>2, <3>4, <3>7
  <2> HIDE DEF c, v
  <2> QED  BY <2>1, <2>2, <2>4, <2>5 DEF Bad
<1> QED  BY <1>1, <1>2

\* Where the line of a header ends.
NextLine(s, i, n) == Then(ValueAt(s, i, n), LAMBDA p : ToEol(s, p))

\* The next line, and what the search for the blank line makes of the one before.
LEMMA NextLineIs ==
  ASSUME NEW s \in Seq(Bytes), NEW i \in 1 .. Len(s), s[i] \notin {"CR", "LF"}, NEW n \in Nat
  PROVE  /\ NextLine(s, i, n) \in Int
         /\ NextLine(s, i, n) >= 0 =>
              /\ NextLine(s, i, n) \in i + 1 .. Len(s) + 1
              /\ \A f : Seeks(s, f) => f[<<i, 1>>] = f[<<NextLine(s, i, n), 1>>]
<1>0. Len(s) \in Nat /\ i \in Positions(s)  BY DEF Positions
<1> DEFINE v == ValueAt(s, i, n)
           e == Eol(s, v)
           q == LineEnd(s, e)
<1>1. NextLine(s, i, n) = IF v < 0 THEN v ELSE q  BY DEF NextLine, Then, ToEol
<1>2. v \in Int /\ (v >= 0 => v \in i .. Len(s) /\ Plain(s, i, v))  BY ValueIs
<1> HIDE DEF v
<1>3. ASSUME v >= 0
      PROVE  /\ q \in Int
             /\ q >= 0 => /\ q \in i + 1 .. Len(s) + 1
                          /\ \A f : Seeks(s, f) => f[<<i, 1>>] = f[<<q, 1>>]
  <2>1. v \in Positions(s) /\ v \in i .. Len(s) /\ Plain(s, i, v)
    BY <1>0, <1>2, <1>3 DEF Positions
  <2>2. e \in v .. Len(s) + 1 /\ Plain(s, v, e)  BY <2>1, EolIs
  <2> HIDE DEF e
  <2>3. e \in Positions(s)  BY <1>0, <2>1, <2>2 DEF Positions
  <2>4. q \in Int /\ (q >= 0 => e <= Len(s) /\ s[e] \in {"CR", "LF"} /\ q \in e + 1 .. Len(s) + 1)
    BY <2>3, LineEndIs
  <2>5. Plain(s, i, e)
    <3>1. i \in Nat /\ v \in Nat /\ e \in Nat /\ v <= e  BY <1>0, <2>1, <2>2
    <3> QED  BY <2>1, <2>2, <3>1, PlainJoins
  <2>6. ASSUME q >= 0, NEW f, Seeks(s, f) PROVE f[<<i, 1>>] = f[<<q, 1>>]
    <3>1. e # i  BY <2>4, <2>6
    <3>2. i < e  BY <1>0, <2>1, <2>2, <3>1
    <3>3. 0 \in 0 .. 1 /\ 1 \in 0 .. 1 /\ q = LineEnd(s, e)  OBVIOUS
    <3> HIDE DEF q
    <3>4. f[<<i, 1>>] = f[<<e, 0>>]  BY <1>0, <2>3, <2>5, <2>6, <3>2, <3>3, PlainSkips
    <3>5. f[<<e, 0>>] = f[<<q, 0 + 1>>]  BY <2>3, <2>4, <2>6, <3>3 DEF Seeks
    <3> QED  BY <3>4, <3>5
  <2> HIDE DEF q
  <2>7. q >= 0 => q \in i + 1 .. Len(s) + 1  BY <1>0, <2>1, <2>2, <2>4
  <2> QED  BY <2>4, <2>6, <2>7
<1> HIDE DEF q
<1>4. CASE v < 0  BY <1>1, <1>2, <1>4
<1>5. CASE ~(v < 0)
  <2>1. v >= 0 /\ NextLine(s, i, n) = q  BY <1>1, <1>2, <1>5
  <2> QED  BY <1>3, <2>1
<1> QED  BY <1>4, <1>5

\* What is kept of the line of a header.
Entry(s, i, n) ==
  [name |-> HeaderName(s, i, n),
   value |-> Trimmed(s, ValueAt(s, i, n), Eol(s, ValueAt(s, i, n)))]

HeaderStep(s, max, at, f) ==
  LET i == at[1]
      n == at[2]
  IN  IF AtEnd(s, i) \/ s[i] \in {"CR", "LF"} THEN Failed(LineEnd(s, i))
      ELSE IF n = max THEN Failed(Bad)
      ELSE IF NextLine(s, i, n) < 0 THEN Failed(NextLine(s, i, n))
      ELSE [f[<<NextLine(s, i, n), n + 1>>] EXCEPT !.headers = <<Entry(s, i, n)>> \o @]

HeaderPlaces(s, max) == Positions(s) \X (0 .. max)

\* The results of parse_headers.
HeaderResults(s, max) ==
  [ret : Int, headers : Seq({Entry(s, at[1], at[2]) : at \in HeaderPlaces(s, max)})]

\* Where a line of the headers is read.
LEMMA LineAt ==
  ASSUME NEW s \in Seq(Bytes), NEW max \in Nat, NEW at \in HeaderPlaces(s, max),
         ~AtEnd(s, at[1]), s[at[1]] \notin {"CR", "LF"}, at[2] # max
  PROVE  /\ at[1] \in 1 .. Len(s) /\ at[2] \in 0 .. max - 1
         /\ NextLine(s, at[1], at[2]) \in Int
         /\ ~(NextLine(s, at[1], at[2]) < 0) =>
              /\ <<NextLine(s, at[1], at[2]), at[2] + 1>> \in HeaderPlaces(s, max)
              /\ Len(s) + 1 - NextLine(s, at[1], at[2]) < Len(s) + 1 - at[1]
<1> DEFINE i == at[1]
           n == at[2]
           e == NextLine(s, i, n)
<1>1. i \in Positions(s) /\ n \in 0 .. max /\ i # Len(s) + 1 /\ n # max /\ s[i] \notin {"CR", "LF"}
  BY DEF HeaderPlaces, AtEnd
<1> HIDE DEF i, n
<1>2. Len(s) \in Nat /\ i \in 1 .. Len(s) /\ n \in 0 .. max - 1 /\ n \in Nat
  BY <1>1 DEF Positions
<1>3. e \in Int /\ (e >= 0 => e \in i + 1 .. Len(s) + 1)  BY <1>1, <1>2, NextLineIs
<1> HIDE DEF e
<1>4. ~(e < 0) => e \in Positions(s) /\ n + 1 \in 0 .. max /\ Len(s) + 1 - e < Len(s) + 1 - i
  BY <1>2, <1>3 DEF Positions
<1>5. ~(e < 0) => <<e, n + 1>> \in HeaderPlaces(s, max)  BY <1>4 DEF HeaderPlaces
<1> QED  BY <1>2, <1>3, <1>4, <1>5 DEF e, i, n

\* A result of the lines behind one is a result of it.
LEMMA HeaderStepType ==
  ASSUME NEW s \in Seq(Bytes), NEW max \in Nat, NEW at \in HeaderPlaces(s, max), NEW f,
         ~AtEnd(s, at[1]) /\ s[at[1]] \notin {"CR", "LF"} /\ at[2] # max
           /\ ~(NextLine(s, at[1], at[2]) < 0)
           => f[<<NextLine(s, at[1], at[2]), at[2] + 1>>] \in HeaderResults(s, max)
  PROVE  HeaderStep(s, max, at, f) \in HeaderResults(s, max)
<1> DEFINE X == {Entry(s, a[1], a[2]) : a \in HeaderPlaces(s, max)}
           e == NextLine(s, at[1], at[2])
           x == Entry(s, at[1], at[2])
           r == f[<<e, at[2] + 1>>]
           h == r.headers
<1>1. HeaderResults(s, max) = [ret : Int, headers : Seq(X)] /\ x \in X  BY DEF HeaderResults
<1> HIDE DEF X
<1>2. ASSUME NEW z \in Int PROVE Failed(z) \in HeaderResults(s, max)
  <2>1. << >> \in Seq(X)  OBVIOUS
  <2> QED  BY <1>1, <2>1 DEF Failed
<1>3. LineEnd(s, at[1]) \in Int /\ Bad \in Int  BY LineEndIs DEF HeaderPlaces, Bad
<1>4. CASE AtEnd(s, at[1]) \/ s[at[1]] \in {"CR", "LF"} \/ at[2] = max
  BY <1>2, <1>3, <1>4 DEF HeaderStep
<1>5. CASE ~(AtEnd(s, at[1]) \/ s[at[1]] \in {"CR", "LF"} \/ at[2] = max)
  <2>1. e \in Int  BY <1>5, LineAt
  <2>2. CASE e < 0  BY <1>2, <1>5, <2>1, <2>2 DEF HeaderStep
  <2>3. CASE ~(e < 0)
    <3>1. HeaderStep(s, max, at, f) = [r EXCEPT !.headers = <<x>> \o @]
      BY <1>5, <2>3 DEF HeaderStep
    <3>2. r \in [ret : Int, headers : Seq(X)]  BY <1>1, <1>5, <2>3
    <3> HIDE DEF r, x
    <3>3. h \in Seq(X) /\ <<x>> \in Seq(X)  BY <1>1, <3>2
    <3>4. <<x>> \o h \in Seq(X)
      <4> HIDE DEF h
      <4> DEFINE y == <<x>>
      <4>1. y \in Seq(X)  BY <3>3
      <4> HIDE DEF y
      <4>2. y \o h \in Seq(X)  BY <3>3, <4>1, ConcatProperties
      <4> QED  BY <4>2 DEF y
    <3>5. HeaderStep(s, max, at, f) = [r EXCEPT !.headers = <<x>> \o h]  BY <3>1
    <3> HIDE DEF h
    <3> DEFINE w == <<x>> \o h
    <3>6. w \in Seq(X) /\ HeaderStep(s, max, at, f) = [r EXCEPT !.headers = w]  BY <3>4, <3>5
    <3> HIDE DEF w
    <3> QED  BY <1>1, <3>2, <3>6
  <2> QED  BY <2>2, <2>3
<1> QED  BY <1>4, <1>5

\* Lines that were read to the end: the blank line, or a header in front of such lines.
Lines(s, max, H) ==
  /\ H \in [HeaderPlaces(s, max) -> HeaderResults(s, max)]
  /\ \A at \in HeaderPlaces(s, max) : H[at] = HeaderStep(s, max, at, H)
  /\ \A i \in Positions(s) : \A n \in 0 .. max :
       H[<<i, n>>].ret >= 0 =>
         /\ i <= Len(s)
         /\ IF s[i] \in {"CR", "LF"} THEN LineEnd(s, i) >= 0
            ELSE /\ n < max /\ NextLine(s, i, n) >= 0
                 /\ H[<<NextLine(s, i, n), n + 1>>].ret >= 0

\* parse_headers, as what a recursive function that exists computes.
LEMMA HeadersUnfold ==
  ASSUME NEW s \in Seq(Bytes), NEW max \in Nat, NEW h0 \in Int
  PROVE  \E H : Lines(s, max, H) /\ Headers(s, h0, max) = IF h0 < 0 THEN Failed(h0) ELSE H[<<h0, 0>>]
<1>0. Len(s) \in Nat  OBVIOUS
<1> DEFINE A == HeaderPlaces(s, max)
           V == HeaderResults(s, max)
           G == [q \in A \X [A -> V] |-> HeaderStep(s, max, q[1], q[2])]
           rank == [at \in A |-> Len(s) + 1 - at[1]]
<1>1. rank \in [A -> Nat]
  <2> SUFFICES ASSUME NEW at \in A PROVE Len(s) + 1 - at[1] \in Nat  OBVIOUS
  <2>1. at[1] \in 1 .. Len(s) + 1  BY DEF HeaderPlaces, Positions
  <2> QED  BY <1>0, <2>1
<1>2. V # {}
  <2>1. [ret |-> 0, headers |-> << >>] \in V  BY DEF HeaderResults
  <2> QED  BY <2>1
<1>3. ASSUME NEW at \in A, ~AtEnd(s, at[1]), s[at[1]] \notin {"CR", "LF"}, at[2] # max,
             ~(NextLine(s, at[1], at[2]) < 0)
      PROVE  /\ <<NextLine(s, at[1], at[2]), at[2] + 1>> \in A
             /\ rank[<<NextLine(s, at[1], at[2]), at[2] + 1>>] < rank[at]
  BY <1>3, LineAt
<1>4. G \in [A \X [A -> V] -> V]
  <2> SUFFICES ASSUME NEW at \in A, NEW f \in [A -> V] PROVE HeaderStep(s, max, at, f) \in V
    OBVIOUS
  <2>1. at[2] # max /\ ~AtEnd(s, at[1]) /\ s[at[1]] \notin {"CR", "LF"}
          /\ ~(NextLine(s, at[1], at[2]) < 0)
          => f[<<NextLine(s, at[1], at[2]), at[2] + 1>>] \in V
    <3> HIDE DEF A, V, rank
    <3> QED  BY <1>3
  <2> QED  BY <2>1, HeaderStepType
<1>5. LooksBelow(G, A, V, rank)
  <2> SUFFICES ASSUME NEW at \in A, NEW f \in [A -> V], NEW g \in [A -> V],
                      AgreeBelow(f, g, A, rank, rank[at])
               PROVE  HeaderStep(s, max, at, f) = HeaderStep(s, max, at, g)
    BY DEF LooksBelow
  <2> HIDE DEF A, V, rank
  <2>1. ~AtEnd(s, at[1]) /\ s[at[1]] \notin {"CR", "LF"} /\ at[2] # max
          /\ ~(NextLine(s, at[1], at[2]) < 0)
          => f[<<NextLine(s, at[1], at[2]), at[2] + 1>>] = g[<<NextLine(s, at[1], at[2]), at[2] + 1>>]
    BY <1>3 DEF AgreeBelow
  <2> QED  BY <2>1 DEF HeaderStep
<1>6. Recursive(G, A, V, rank)  BY <1>1, <1>2, <1>4, <1>5 DEF Recursive
<1> HIDE DEF rank, G, A, V
<1>7. PICK f \in [A -> V] : \A at \in A : f[at] = G[<<at, f>>]
  BY <1>6, RecursiveFunctionExists
<1>8. f = [at \in A |-> HeaderStep(s, max, at, f)]  BY <1>7 DEF G
<1> DEFINE Eq(from) == from = [at \in A |-> HeaderStep(s, max, at, from)]
           c == CHOOSE from : Eq(from)
<1>9. Eq(c)  BY <1>8
<1>10. Headers(s, h0, max) = IF h0 < 0 THEN Failed(h0) ELSE c[<<h0, 0>>]
  BY DEF Headers, HeaderStep, NextLine, Entry, Then, A, HeaderPlaces, Positions
<1> HIDE DEF c
<1>11. \A at \in A : c[at] = HeaderStep(s, max, at, c)  BY <1>9
<1>12. \A at \in A : c[at] \in V
  <2> DEFINE S == {at \in A : c[at] \in V}
  <2>1. ASSUME NEW at \in A, \A b \in A : rank[b] < rank[at] => b \in S PROVE at \in S
    <3>1. ~AtEnd(s, at[1]) /\ s[at[1]] \notin {"CR", "LF"} /\ at[2] # max
            /\ ~(NextLine(s, at[1], at[2]) < 0)
            => c[<<NextLine(s, at[1], at[2]), at[2] + 1>>] \in V
      BY <1>3, <2>1
    <3>2. HeaderStep(s, max, at, c) \in V  BY <3>1, HeaderStepType DEF A, V
    <3> QED  BY <1>11, <3>2
  <2> HIDE DEF S
  <2>2. A \subseteq S  BY <1>1, <2>1, RankInduction
  <2> QED  BY <2>2 DEF S
<1>13. c \in [A -> V]
  BY <1>9, <1>12
<1>14. ASSUME NEW i \in Positions(s), NEW n \in 0 .. max, c[<<i, n>>].ret >= 0
       PROVE  /\ i <= Len(s)
              /\ IF s[i] \in {"CR", "LF"} THEN LineEnd(s, i) >= 0
                 ELSE /\ n < max /\ NextLine(s, i, n) >= 0
                      /\ c[<<NextLine(s, i, n), n + 1>>].ret >= 0
  <2> DEFINE e == NextLine(s, i, n)
             at == <<i, n>>
             x == Entry(s, i, n)
             r == c[<<e, n + 1>>]
  <2>1. at \in A /\ at[1] = i /\ at[2] = n  BY DEF A, HeaderPlaces
  <2>2. c[at] = HeaderStep(s, max, at, c)  BY <1>11, <2>1
  <2>3. \A z : Failed(z).ret = z  BY DEF Failed
  <2>4. i \in 1 .. Len(s) + 1 /\ n \in Nat /\ n <= max  BY <1>0 DEF Positions
  <2>5. i # Len(s) + 1
    <3> SUFFICES ASSUME i = Len(s) + 1 PROVE FALSE  OBVIOUS
    <3>1. c[at] = Failed(More)  BY <2>1, <2>2 DEF HeaderStep, AtEnd, LineEnd
    <3> QED  BY <1>14, <2>3, <3>1 DEF More
  <2>6. i \in 1 .. Len(s) /\ ~AtEnd(s, i)  BY <1>0, <2>4, <2>5 DEF AtEnd
  <2>7. CASE s[i] \in {"CR", "LF"}
    <3>1. c[at] = Failed(LineEnd(s, i))  BY <2>1, <2>2, <2>7 DEF HeaderStep
    <3> QED  BY <1>14, <2>3, <2>6, <2>7, <3>1
  <2>8. CASE s[i] \notin {"CR", "LF"}
    <3>1. n # max
      <4> SUFFICES ASSUME n = max PROVE FALSE  OBVIOUS
      <4>1. c[at] = Failed(Bad)  BY <2>1, <2>2, <2>6, <2>8 DEF HeaderStep
      <4> QED  BY <1>14, <2>3, <4>1 DEF Bad
    <3>2. e \in Int  BY <2>4, <2>6, <2>8, NextLineIs
    <3>3. ~(e < 0)
      <4> SUFFICES ASSUME e < 0 PROVE FALSE  OBVIOUS
      <4>1. c[at] = Failed(e)  BY <2>1, <2>2, <2>6, <2>8, <3>1 DEF HeaderStep
      <4> HIDE DEF e
      <4> QED  BY <1>14, <2>3, <3>2, <4>1
    <3>4. c[at] = [r EXCEPT !.headers = <<x>> \o @]
      BY <2>1, <2>2, <2>6, <2>8, <3>1, <3>3 DEF HeaderStep
    <3>5. <<e, n + 1>> \in A
      <4>1. at \in A /\ ~AtEnd(s, at[1]) /\ s[at[1]] \notin {"CR", "LF"} /\ at[2] # max
            /\ ~(NextLine(s, at[1], at[2]) < 0)
        BY <2>1, <2>6, <2>8, <3>1, <3>3
      <4>2. <<NextLine(s, at[1], at[2]), at[2] + 1>> \in A  BY <1>3, <4>1
      <4> QED  BY <2>1, <4>2
    <3>6. r \in HeaderResults(s, max)  BY <1>13, <3>5 DEF V
    <3> HIDE DEF r, x
    <3>7. c[at].ret = r.ret  BY <3>4, <3>6 DEF HeaderResults
    <3>8. e >= 0 /\ n < max
      <4> HIDE DEF e
      <4> QED  BY <2>4, <3>1, <3>2, <3>3
    <3> QED  BY <1>14, <2>6, <2>8, <3>7, <3>8 DEF r
  <2> QED  BY <2>7, <2>8
<1>15. Lines(s, max, c)  BY <1>11, <1>13, <1>14 DEF Lines, A, V
<1> QED  BY <1>10, <1>15

\* Headers that were read to the end hold a blank line, for a search that comes to
\* them behind a line end.
LEMMA HeadersEnd ==
  ASSUME NEW s \in Seq(Bytes), NEW max \in Nat, NEW H, Lines(s, max, H), NEW f, Seeks(s, f),
         NEW i0 \in Positions(s), NEW n0 \in 0 .. max, H[<<i0, n0>>].ret >= 0
  PROVE  f[<<i0, 1>>] \in Nat \ {0}
<1>0. Len(s) \in Nat  OBVIOUS
<1> SUFFICES ASSUME f[<<i0, 1>>] \notin Nat \ {0} PROVE FALSE  OBVIOUS
<1> DEFINE Missed == {i \in Positions(s) : /\ \E n \in 0 .. max : H[<<i, n>>].ret >= 0
                                           /\ f[<<i, 1>>] \notin Nat \ {0}}
           S == {Len(s) + 1 - i : i \in Missed}
<1>1. S \in SUBSET Nat /\ S # {}
  <2>1. i0 \in Missed  OBVIOUS
  <2>2. \A i \in Missed : Len(s) + 1 - i \in Nat  BY <1>0 DEF Positions
  <2> QED  BY <2>1, <2>2
<1> HIDE DEF S
<1>2. PICK k \in S : \A m \in S : k <= m  BY <1>1, Least
<1>3. PICK i \in Missed : k = Len(s) + 1 - i  BY <1>2 DEF S
<1>4. i \in Positions(s) /\ f[<<i, 1>>] \notin Nat \ {0}  OBVIOUS
<1>5. PICK n \in 0 .. max : H[<<i, n>>].ret >= 0  OBVIOUS
<1>6. ASSUME NEW j \in Missed PROVE ~(j > i)
  <2>1. Len(s) + 1 - j \in S  BY DEF S
  <2>2. Len(s) + 1 - i <= Len(s) + 1 - j  BY <1>2, <1>3, <2>1
  <2> QED  BY <1>0, <2>2 DEF Positions
<1>7. /\ i <= Len(s)
      /\ IF s[i] \in {"CR", "LF"} THEN LineEnd(s, i) >= 0
         ELSE /\ n < max /\ NextLine(s, i, n) >= 0
              /\ H[<<NextLine(s, i, n), n + 1>>].ret >= 0
  BY <1>4, <1>5 DEF Lines
<1>8. i \in 1 .. Len(s)  BY <1>0, <1>4, <1>7 DEF Positions
<1>9. CASE s[i] \in {"CR", "LF"}
  <2> DEFINE q == LineEnd(s, i)
  <2>1. q >= 0 /\ q \in i + 1 .. Len(s) + 1  BY <1>4, <1>7, <1>9, LineEndIs
  <2>2. 1 \in 0 .. 1 /\ 1 + 1 = 2  OBVIOUS
  <2>3. f[<<i, 1>>] = f[<<q, 1 + 1>>]  BY <1>4, <1>7, <1>9, <2>2 DEF Seeks
  <2> HIDE DEF q
  <2>4. q \in Positions(s) /\ q \in Nat \ {0}  BY <1>0, <1>8, <2>1 DEF Positions
  <2>5. f[<<q, 2>>] = q  BY <2>4 DEF Seeks
  <2> QED  BY <1>4, <2>2, <2>3, <2>4, <2>5
<1>10. CASE s[i] \notin {"CR", "LF"}
  <2> DEFINE e == NextLine(s, i, n)
  <2>1. e >= 0 /\ H[<<e, n + 1>>].ret >= 0 /\ n < max  BY <1>7, <1>10
  <2>2. n \in Nat  OBVIOUS
  <2>3. e \in i + 1 .. Len(s) + 1 /\ f[<<i, 1>>] = f[<<e, 1>>]
    BY <1>8, <1>10, <2>1, <2>2, NextLineIs
  <2> HIDE DEF e
  <2>4. e \in Positions(s) /\ e > i /\ n + 1 \in 0 .. max
    BY <1>0, <1>8, <2>1, <2>2, <2>3 DEF Positions
  <2>5. e \in Missed  BY <1>4, <2>1, <2>3, <2>4
  <2> QED  BY <1>6, <2>4, <2>5
<1> QED  BY <1>9, <1>10

\* A request that can be parsed has a blank line: to look for one first loses none.
LEMMA RequestEnds ==
  ASSUME NEW s \in Seq(Bytes), NEW max \in Nat, ParseRequest(s, max).ret > 0
  PROVE  IsComplete(s, 1) \in Nat \ {0}
<1>0. Len(s) \in Nat /\ 1 \in Positions(s)
  <2>1. Len(s) \in Nat  OBVIOUS
  <2> QED  BY <2>1 DEF Positions
<1> DEFINE start == CASE s = << >> -> More
                      [] s # << >> /\ s[1] \in {"CR", "LF"} -> LineEnd(s, 1)
                      [] s # << >> /\ s[1] \notin {"CR", "LF"} -> 1
           method == Then(start, LAMBDA i : Token(s, i, "SP"))
           target == Then(method, LAMBDA i : SkipSpaces(s, i))
           pathEnd == Then(target, LAMBDA i : AdvanceToken(s, i))
           version == Then(pathEnd, LAMBDA i : SkipSpaces(s, i))
           line == Then(version, LAMBDA i : IF method = start \/ pathEnd = target THEN Bad
                                            ELSE Version(s, i))
           h0 == Then(line, LAMBDA i : LineEnd(s, i))
           h == Headers(s, h0, max)
<1>1. ParseRequest(s, max) =
        IF h.ret < 0 THEN NoRequest(h.ret)
        ELSE [ret |-> h.ret, method |-> SubSeq(s, start, method - 1),
              path |-> SubSeq(s, target, pathEnd - 1), headers |-> h.headers]
  BY DEF ParseRequest
<1>2. PICK f : Seeks(s, f) /\ IsComplete(s, 1) = f[<<1, 0>>]  BY <1>0, CompleteUnfolds
\* The parts of the request line, one behind the other.
<1>3. /\ start \in Int
      /\ start >= 0 => /\ start \in Positions(s)
                       /\ \E n \in 0 .. 1 : f[<<1, 0>>] = f[<<start, n>>]
  <2>1. CASE s = << >>
    <3>1. start = More  BY <2>1
    <3> QED  BY <3>1 DEF More
  <2>2. CASE s # << >> /\ s[1] \in {"CR", "LF"}
    <3>1. start = LineEnd(s, 1)  BY <2>2
    <3>2. start \in Int /\ (start >= 0 => 1 <= Len(s) /\ start \in 2 .. Len(s) + 1)
      BY <1>0, <3>1, LineEndIs
    <3> HIDE DEF start
    <3>3. 0 \in 0 .. 1 /\ 0 + 1 \in 0 .. 1  OBVIOUS
    <3>4. start >= 0 => f[<<1, 0>>] = f[<<start, 0 + 1>>]
      BY <1>0, <1>2, <2>2, <3>1, <3>2, <3>3 DEF Seeks
    <3>5. start >= 0 => start \in Positions(s)  BY <1>0, <3>2 DEF Positions
    <3> QED  BY <3>2, <3>3, <3>4, <3>5
  <2>3. CASE s # << >> /\ s[1] \notin {"CR", "LF"}
    <3>1. start = 1 /\ 0 \in 0 .. 1  BY <2>3
    <3> HIDE DEF start
    <3> QED  BY <1>0, <3>1
  <2> QED  BY <2>1, <2>2, <2>3
<1> HIDE DEF start
<1>4. method = IF start < 0 THEN start ELSE Token(s, start, "SP")  BY DEF Then
<1> HIDE DEF method
<1>5. target = IF method < 0 THEN method ELSE SkipSpaces(s, method)  BY DEF Then
<1> HIDE DEF target
<1>6. pathEnd = IF target < 0 THEN target ELSE AdvanceToken(s, target)  BY DEF Then
<1> HIDE DEF pathEnd
<1>7. version = IF pathEnd < 0 THEN pathEnd ELSE SkipSpaces(s, pathEnd)  BY DEF Then
<1> HIDE DEF version
<1>8. line = IF version < 0 THEN version
             ELSE IF method = start \/ pathEnd = target THEN Bad ELSE Version(s, version)
  BY DEF Then
<1> HIDE DEF line
<1>9. h0 = IF line < 0 THEN line ELSE LineEnd(s, line)  BY DEF Then
<1>10. h = Headers(s, h0, max)  OBVIOUS
<1> HIDE DEF h0, h
<1>11. method \in Int /\ (method >= 0 => /\ start >= 0 /\ method \in start .. Len(s)
                                         /\ s[method] = "SP" /\ Plain(s, start, method))
  <2>1. CASE start < 0  BY <1>3, <1>4, <2>1
  <2>2. CASE ~(start < 0)
    <3>1. method = Token(s, start, "SP") /\ start \in Positions(s) /\ start >= 0
      BY <1>3, <1>4, <2>2
    <3>2. method \in Int  BY <3>1, ReachType DEF Token
    <3> QED  BY <3>1, <3>2, TokenIs
  <2> QED  BY <2>1, <2>2
<1>12. target \in Int /\ (target >= 0 => /\ method >= 0 /\ target \in method + 1 .. Len(s)
                                         /\ Plain(s, method, target))
  <2>1. CASE method < 0  BY <1>5, <1>11, <2>1
  <2>2. CASE ~(method < 0)
    <3>1. method >= 0 /\ method \in 1 .. Len(s) /\ s[method] = "SP"
      BY <1>0, <1>3, <1>11, <2>2 DEF Positions
    <3>2. method + 1 \in Positions(s)  BY <1>0, <3>1 DEF Positions
    <3>3. target = SkipSpaces(s, method)  BY <1>5, <2>2
    <3>4. target \in Int  BY <3>2, <3>3, ReachType DEF SkipSpaces
    <3> QED  BY <3>1, <3>3, <3>4, SkipSpacesIs
  <2> QED  BY <2>1, <2>2
<1>13. pathEnd \in Int /\ (pathEnd >= 0 => /\ target >= 0 /\ pathEnd \in target .. Len(s)
                                           /\ s[pathEnd] = "SP" /\ Plain(s, target, pathEnd))
  <2>1. CASE target < 0  BY <1>6, <1>12, <2>1
  <2>2. CASE ~(target < 0)
    <3>1. target >= 0 /\ target \in Positions(s) /\ pathEnd = AdvanceToken(s, target)
      BY <1>0, <1>3, <1>6, <1>11, <1>12, <2>2 DEF Positions
    <3>2. pathEnd \in Int  BY <3>1, ReachType DEF AdvanceToken
    <3> QED  BY <3>1, <3>2, AdvanceTokenIs
  <2> QED  BY <2>1, <2>2
<1>14. version \in Int /\ (version >= 0 => /\ pathEnd >= 0 /\ version \in pathEnd + 1 .. Len(s)
                                           /\ Plain(s, pathEnd, version))
  <2>1. CASE pathEnd < 0  BY <1>7, <1>13, <2>1
  <2>2. CASE ~(pathEnd < 0)
    <3>1. pathEnd >= 0 /\ pathEnd \in 1 .. Len(s) /\ s[pathEnd] = "SP"
      BY <1>0, <1>3, <1>11, <1>12, <1>13, <2>2 DEF Positions
    <3>2. pathEnd + 1 \in Positions(s)  BY <1>0, <3>1 DEF Positions
    <3>3. version = SkipSpaces(s, pathEnd)  BY <1>7, <2>2
    <3>4. version \in Int  BY <3>2, <3>3, ReachType DEF SkipSpaces
    <3> QED  BY <3>1, <3>3, <3>4, SkipSpacesIs
  <2> QED  BY <2>1, <2>2
<1>15. line \in Int /\ (line >= 0 => /\ version >= 0 /\ version + 1 <= Len(s) /\ line = version + 2
                                     /\ s[version] = "V" /\ s[version + 1] = "1")
  <2>1. CASE version < 0  BY <1>8, <1>14, <2>1
  <2>2. CASE ~(version < 0) /\ (method = start \/ pathEnd = target)
    BY <1>8, <2>2 DEF Bad
  <2>3. CASE ~(version < 0) /\ ~(method = start \/ pathEnd = target)
    <3>1. version >= 0 /\ version \in 1 .. Len(s) /\ line = Version(s, version)
      BY <1>0, <1>3, <1>8, <1>11, <1>12, <1>13, <1>14, <2>3 DEF Positions
    <3> QED  BY <3>1, VersionIs
  <2> QED  BY <2>1, <2>2, <2>3
<1>16. h0 \in Int /\ (h0 >= 0 => /\ line >= 0 /\ line <= Len(s) /\ line \in Positions(s)
                                /\ s[line] \in {"CR", "LF"} /\ h0 = LineEnd(s, line)
                                /\ h0 \in Positions(s))
  <2>1. CASE line < 0  BY <1>9, <1>15, <2>1
  <2>2. CASE ~(line < 0)
    <3>1. line >= 0 /\ line \in Positions(s) /\ h0 = LineEnd(s, line)
      BY <1>0, <1>3, <1>9, <1>11, <1>12, <1>13, <1>14, <1>15, <2>2 DEF Positions
    <3>2. h0 \in Int /\ (h0 >= 0 => line <= Len(s) /\ s[line] \in {"CR", "LF"}
                                   /\ h0 \in line + 1 .. Len(s) + 1)
      BY <3>1, LineEndIs
    <3> QED  BY <1>0, <3>1, <3>2 DEF Positions
  <2> QED  BY <2>1, <2>2
<1>17. PICK H : Lines(s, max, H) /\ h = IF h0 < 0 THEN Failed(h0) ELSE H[<<h0, 0>>]
  BY <1>10, <1>16, HeadersUnfold
<1>18. h.ret \in Int
  <2>1. CASE h0 < 0  BY <1>16, <1>17, <2>1 DEF Failed
  <2>2. CASE ~(h0 < 0)
    <3>1. <<h0, 0>> \in HeaderPlaces(s, max)  BY <1>16, <2>2 DEF HeaderPlaces
    <3>2. h \in HeaderResults(s, max)  BY <1>17, <2>2, <3>1 DEF Lines
    <3> QED  BY <3>2 DEF HeaderResults
  <2> QED  BY <2>1, <2>2
<1>19. h.ret >= 0
  <2> SUFFICES ASSUME h.ret < 0 PROVE FALSE  BY <1>18
  <2>1. ParseRequest(s, max).ret = h.ret  BY <1>1 DEF NoRequest
  <2> QED  BY <1>18, <2>1
<1>20. h0 >= 0 /\ H[<<h0, 0>>].ret >= 0
  <2>1. ~(h0 < 0)
    <3> SUFFICES ASSUME h0 < 0 PROVE FALSE  OBVIOUS
    <3>1. h.ret = h0  BY <1>17 DEF Failed
    <3> QED  BY <1>16, <1>19, <3>1
  <2> QED  BY <1>16, <1>17, <1>19, <2>1
<1>21. f[<<h0, 1>>] \in Nat \ {0}
  <2>1. 0 \in 0 .. max /\ h0 \in Positions(s)  BY <1>16, <1>20
  <2> QED  BY <1>2, <1>17, <1>20, <2>1, HeadersEnd
\* The request line is one line.
<1>22. /\ start \in Positions(s) /\ method \in start .. Len(s) /\ target \in method + 1 .. Len(s)
       /\ pathEnd \in target .. Len(s) /\ version \in pathEnd + 1 .. Len(s) /\ line = version + 2
       /\ line \in Positions(s) /\ line <= Len(s) /\ s[line] \in {"CR", "LF"} /\ h0 = LineEnd(s, line)
       /\ Plain(s, start, method) /\ Plain(s, method, target) /\ Plain(s, target, pathEnd)
       /\ Plain(s, pathEnd, version) /\ s[version] = "V" /\ s[version + 1] = "1"
  BY <1>3, <1>11, <1>12, <1>13, <1>14, <1>15, <1>16, <1>20
<1>23. Plain(s, start, line) /\ start < line
  <2>1. /\ start \in Nat /\ method \in Nat /\ target \in Nat /\ pathEnd \in Nat /\ version \in Nat
        /\ version + 1 \in Nat /\ (version + 1) + 1 = line /\ line \in Nat
        /\ start <= method /\ method <= target /\ target <= pathEnd /\ pathEnd <= version
        /\ version <= version + 1 /\ version + 1 <= line
    BY <1>0, <1>22 DEF Positions
  <2>2. Plain(s, start, target)  BY <1>22, <2>1, PlainJoins
  <2>3. Plain(s, start, pathEnd)  BY <1>22, <2>1, <2>2, PlainJoins
  <2>4. Plain(s, start, version)  BY <1>22, <2>1, <2>3, PlainJoins
  <2>5. Plain(s, version, version + 1) /\ Plain(s, version + 1, (version + 1) + 1)
    <3>1. s[version] \notin {"CR", "LF"} /\ s[version + 1] \notin {"CR", "LF"}  BY <1>22
    <3>2. Plain(s, version, version + 1)  BY <2>1, <3>1, PlainByte
    <3>3. Plain(s, version + 1, (version + 1) + 1)  BY <2>1, <3>1, PlainByte
    <3> QED  BY <3>2, <3>3
  <2>6. Plain(s, version + 1, line)  BY <2>1, <2>5
  <2>7. start <= version /\ start <= version + 1  BY <2>1
  <2>8. Plain(s, start, version + 1)  BY <2>1, <2>4, <2>5, <2>7, PlainJoins
  <2>9. Plain(s, start, line)  BY <2>1, <2>6, <2>7, <2>8, PlainJoins
  <2> QED  BY <2>1, <2>9
<1>24. PICK n \in 0 .. 1 : f[<<1, 0>>] = f[<<start, n>>]  BY <1>3, <1>11, <1>12, <1>13, <1>14, <1>15, <1>16, <1>20
<1>25. f[<<start, n>>] = f[<<line, 0>>]
  BY <1>2, <1>22, <1>23, PlainSkips
<1>26. f[<<line, 0>>] = f[<<h0, 0 + 1>>]
  <2>1. 0 \in 0 .. 1 /\ LineEnd(s, line) >= 0  BY <1>20, <1>22
  <2> QED  BY <1>2, <1>22, <2>1 DEF Seeks
<1> QED  BY <1>2, <1>21, <1>24, <1>25, <1>26
------------------------------------------------------------------------------
(***************************************************************************)
(* Requests that come in pieces.                                           *)
(***************************************************************************)
\* The buffer holds bytes, and so do the pieces: the parser can be reasoned about.
ReadInv ==
  /\ read_buf \in Seq(Bytes)
  /\ sent \in Seq(Seq(Bytes)) /\ sent # << >>
  /\ NoRequestMissed

\* A piece is read, and the buffer parsed again.
LEMMA PieceHandled ==
  ASSUME ReadInv, NEW x \in Seq(Bytes), Handled(x)
  PROVE  read_buf' \in Seq(Bytes) /\ NoRequestMissed'
<1> DEFINE s == read_buf \o x
           whole == ParseRequest(s, MaxHeaders)
           r == Parsed(x)
<1>1. s \in Seq(Bytes)
  <2>1. read_buf \in Seq(Bytes)  BY DEF ReadInv
  <2> QED  BY <2>1, ConcatProperties
<1>2. read_buf' = s /\ ret' = r.ret  BY DEF Handled
<1>3. MaxHeaders \in Nat  BY MessagesAssumption DEF MessagesAssumption
<1>4. r = IF last_len # 0 /\ IsComplete(s, 1) < 0 THEN NoRequest(IsComplete(s, 1)) ELSE whole
  BY DEF Parsed, RequestOrMore, ResumeAt
<1> HIDE DEF s, r
<1>5. whole.ret > 0 => IsComplete(s, 1) \in Nat \ {0}  BY <1>1, <1>3, RequestEnds
<1> HIDE DEF whole
<1>6. (r.ret > 0 <=> whole.ret > 0) /\ (r.ret > 0 => r.ret = whole.ret)
  <2>1. CASE last_len # 0 /\ IsComplete(s, 1) < 0
    <3>1. ~(whole.ret > 0)  BY <1>5, <2>1
    <3>2. r.ret = IsComplete(s, 1)  BY <1>4, <2>1 DEF NoRequest
    <3>3. IsComplete(s, 1) \in Int
      <4>1. 1 \in Positions(s)  BY <1>1 DEF Positions
      <4> QED  BY <1>1, <4>1, CompleteUnfolds
    <3> QED  BY <2>1, <3>1, <3>2, <3>3
  <2>2. CASE ~(last_len # 0 /\ IsComplete(s, 1) < 0)  BY <1>4, <2>2
  <2> QED  BY <2>1, <2>2
<1>7. NoRequestMissed'
  <2>1. Whole(read_buf)' = whole  BY <1>2 DEF Whole, whole
  <2> QED  BY <1>2, <1>6, <2>1 DEF NoRequestMissed
<1> QED  BY <1>1, <1>2, <1>7

\* The same for all that connection_recv may make of what arrives.
LEMMA PieceRead ==
  ASSUME ReadInv, NEW x \in Seq(Bytes), OnRead(x)
  PROVE  read_buf' \in Seq(Bytes) /\ NoRequestMissed'
<1>1. read_buf \in Seq(Bytes) /\ BufferCap \in Nat  BY ReadAssumption DEF ReadInv, ReadAssumption
<1>2. ASSUME Len(read_buf) <= BufferCap \/ Len(x) <= BufferCap - Len(read_buf)
      PROVE  Received(x) \in Seq(Bytes)
  <2> DEFINE room == BufferCap - Len(read_buf)
  <2>1. CASE Len(x) <= room  BY <2>1 DEF Received
  <2>2. CASE ~(Len(x) <= room)
    <3>1. room \in 1 - 1 .. Len(x)  BY <1>1, <1>2, <2>2
    <3>2. 1 \in 1 .. Len(x) + 1  BY <1>1
    <3>3. SubSeq(x, 1, room) \in Seq(Bytes)  BY <3>1, <3>2, PartOf
    <3> QED  BY <2>2, <3>3 DEF Received
  <2> QED  BY <2>1, <2>2
<1>3. CASE RecvRefuses  BY <1>1, <1>3 DEF RecvRefuses, NoRequestMissed
<1>4. CASE NoMemory(x)
  <2>1. Received(x) \in Seq(Bytes)  BY <1>1, <1>2, <1>4 DEF NoMemory
  <2>2. read_buf' \in Seq(Bytes)  BY <1>1, <1>4, <2>1, ConcatProperties DEF NoMemory
  <2> QED  BY <1>4, <2>2 DEF NoMemory, NoRequestMissed
<1>5. CASE Handled(Received(x))
  <2>1. Received(x) \in Seq(Bytes)  BY <1>1, <1>2, <1>5 DEF Handled
  <2> QED  BY <1>5, <2>1, PieceHandled
<1> QED  BY <1>3, <1>4, <1>5 DEF OnRead

\* http.c:143: after a first try the buffer is only parsed when it has a blank line.
\* A request of any bytes, in pieces of any sizes, is still found with its last piece.
THEOREM RequestsFound == ReadSpec => []NoRequestMissed
<1>1. ReadInit => ReadInv
  <2> SUFFICES ASSUME ReadInit PROVE ReadInv  OBVIOUS
  <2>1. PICK z \in Firsts : sent = <<z>>  BY DEF ReadInit
  <2>2. z \in Seq(Bytes)  BY ReadAssumption DEF ReadAssumption
  <2>3. sent \in Seq(Seq(Bytes)) /\ sent # << >>  BY <2>1, <2>2
  <2> QED  BY <2>3 DEF ReadInit, ReadInv, NoRequestMissed
<1>2. ReadInv /\ [ReadNext]_readVars => ReadInv'
  <2> SUFFICES ASSUME ReadInv, [ReadNext]_readVars PROVE ReadInv'  OBVIOUS
  <2>1. ASSUME ret = 0, OnRead(sent[1]), UNCHANGED sent PROVE ReadInv'
    <3>1. sent[1] \in Seq(Bytes)  BY DEF ReadInv
    <3>2. read_buf' \in Seq(Bytes) /\ NoRequestMissed'  BY <2>1, <3>1, PieceRead
    <3> QED  BY <2>1, <3>2 DEF ReadInv
  <2>2. ASSUME NEW x \in Pieces, OnRead(x), sent' = Append(sent, x) PROVE ReadInv'
    <3>1. x \in Seq(Bytes)  BY ReadAssumption DEF ReadAssumption
    <3>2. read_buf' \in Seq(Bytes) /\ NoRequestMissed'  BY <2>2, <3>1, PieceRead
    <3>3. sent' \in Seq(Seq(Bytes)) /\ sent' # << >>
      <4> DEFINE B == Seq(Bytes)
      <4>1. sent \in Seq(B) /\ x \in B  BY <3>1 DEF ReadInv
      <4> HIDE DEF B
      <4>2. Append(sent, x) \in Seq(B) /\ Append(sent, x) # << >>  BY <4>1, AppendProperties
      <4> QED  BY <2>2, <4>2 DEF B
    <3> QED  BY <3>2, <3>3 DEF ReadInv
  <2>3. ASSUME OnWrite PROVE ReadInv'
    <3>1. send_st' # "done" /\ open  BY <2>3 DEF OnWrite, Written
    <3>2. read_buf' = read_buf /\ ret' = ret /\ sent' = sent  BY <2>3, <3>1 DEF OnWrite
    <3> QED  BY <3>1, <3>2 DEF ReadInv, NoRequestMissed, Whole
  <2>4. ASSUME UNCHANGED readVars PROVE ReadInv'
    BY <2>4 DEF ReadInv, NoRequestMissed, Whole, readVars
  <2> QED  BY <2>1, <2>2, <2>3, <2>4 DEF ReadNext, Arrives
<1>3. ReadInv => NoRequestMissed  BY DEF ReadInv
<1> QED  BY <1>1, <1>2, <1>3, PTL DEF ReadSpec
------------------------------------------------------------------------------
(***************************************************************************)
(* Messages: the lines of a text.                                          *)
(***************************************************************************)
\* The line feeds in front of f, and how many.
FeedsBefore(s, f) == {g \in Feeds(s) : g < f}
Number(s, f) == Cardinality(FeedsBefore(s, f))
NextFeed(s, f) == Min({p \in Feeds(s) : p > f})

\* Line feeds are positions, counted from 0.
LEMMA FeedsType ==
  ASSUME NEW s \in Seq(Bytes), NEW f \in Int
  PROVE  /\ Len(s) \in Nat /\ Feeds(s) \in SUBSET (0 .. Len(s)) /\ 0 \in Feeds(s)
         /\ IsFiniteSet(FeedsBefore(s, f)) /\ Number(s, f) \in Nat /\ Number(s, 0) = 0
<1>1. Len(s) \in Nat /\ DOMAIN s = 1 .. Len(s)  OBVIOUS
<1>2. Feeds(s) \in SUBSET (0 .. Len(s)) /\ 0 \in Feeds(s)  BY <1>1 DEF Feeds
<1>3. ASSUME NEW a \in Int PROVE IsFiniteSet(FeedsBefore(s, a)) /\ Number(s, a) \in Nat
  <2>1. FeedsBefore(s, a) \in SUBSET (0 .. Len(s))  BY <1>2 DEF FeedsBefore
  <2>2. IsFiniteSet(0 .. Len(s))  BY <1>1, FS_Interval
  <2>3. IsFiniteSet(FeedsBefore(s, a))  BY <2>1, <2>2, FS_Subset
  <2> QED  BY <2>3, FS_CardinalityType DEF Number
<1>4. FeedsBefore(s, 0) = {}  BY <1>2 DEF FeedsBefore
<1>5. Number(s, 0) = 0  BY <1>4, FS_EmptySet DEF Number
<1> QED  BY <1>1, <1>2, <1>3, <1>5

\* The next line feed, and its number.
LEMMA NextFeedIs ==
  ASSUME NEW s \in Seq(Bytes), NEW f \in Feeds(s), NEW k \in Feeds(s), f < k
  PROVE  /\ NextFeed(s, f) \in Feeds(s) /\ f < NextFeed(s, f) /\ NextFeed(s, f) <= k
         /\ \A g \in Feeds(s) : g > f => NextFeed(s, f) <= g
         /\ Number(s, NextFeed(s, f)) = Number(s, f) + 1
<1>0. Feeds(s) \in SUBSET Nat  BY FeedsType
<1> DEFINE P == {p \in Feeds(s) : p > f}
           e == NextFeed(s, f)
<1>1. P \in SUBSET Nat /\ P # {}  BY <1>0
<1>2. PICK n \in P : \A m \in P : n <= m  BY <1>1, Least
<1>3. e = CHOOSE x \in P : \A y \in P : x <= y  BY DEF NextFeed, Min
<1>4. e \in P /\ \A m \in P : e <= m  BY <1>2, <1>3
<1> HIDE DEF e
<1>5. e \in Feeds(s) /\ f < e /\ e <= k /\ \A g \in Feeds(s) : g > f => e <= g
  BY <1>0, <1>4
<1>6. FeedsBefore(s, e) = FeedsBefore(s, f) \union {f}  BY <1>0, <1>5 DEF FeedsBefore
<1>7. f \notin FeedsBefore(s, f) /\ IsFiniteSet(FeedsBefore(s, f))
  <2>1. f \in Int  BY <1>0
  <2> QED  BY <2>1, FeedsType DEF FeedsBefore
<1>8. Number(s, e) = Number(s, f) + 1  BY <1>6, <1>7, FS_AddElement DEF Number
<1> QED  BY <1>5, <1>8 DEF e

\* A later line feed has a greater number.
LEMMA NumberGrows ==
  ASSUME NEW s \in Seq(Bytes), NEW f \in Feeds(s), NEW g \in Feeds(s), f < g
  PROVE  Number(s, f) < Number(s, g)
<1> DEFINE e == NextFeed(s, f)
<1>0. Feeds(s) \in SUBSET Nat  BY FeedsType
<1>1. e \in Feeds(s) /\ e <= g /\ Number(s, e) = Number(s, f) + 1  BY NextFeedIs
<1> HIDE DEF e
<1>2. e \in Int /\ f \in Int /\ g \in Int  BY <1>0, <1>1
<1>3. FeedsBefore(s, e) \in SUBSET FeedsBefore(s, g)  BY <1>0, <1>1 DEF FeedsBefore
<1>4. IsFiniteSet(FeedsBefore(s, g))  BY <1>2, FeedsType
<1>5. Number(s, e) <= Number(s, g)  BY <1>3, <1>4, FS_Subset DEF Number
<1>6. Number(s, f) \in Nat /\ Number(s, e) \in Nat /\ Number(s, g) \in Nat
  BY <1>2, FeedsType
<1> QED  BY <1>1, <1>5, <1>6

\* Each number has its line feed.
LEMMA NumberReached ==
  ASSUME NEW s \in Seq(Bytes), NEW k \in Feeds(s), NEW n \in Nat, n < Number(s, k)
  PROVE  \E f \in Feeds(s) : f < k /\ Number(s, f) = n
<1>0. Feeds(s) \in SUBSET Nat /\ 0 \in Feeds(s) /\ Number(s, 0) = 0 /\ Number(s, k) \in Nat
  BY FeedsType
<1> DEFINE S == {m \in Nat : m < Number(s, k) => \E f \in Feeds(s) : f < k /\ Number(s, f) = m}
<1>1. 0 \in S
  <2> SUFFICES ASSUME 0 < Number(s, k) PROVE \E f \in Feeds(s) : f < k /\ Number(s, f) = 0
    OBVIOUS
  <2>1. k # 0  BY <1>0
  <2> QED  BY <1>0, <2>1
<1>2. ASSUME NEW m \in Nat, m \in S PROVE m + 1 \in S
  <2> SUFFICES ASSUME m + 1 < Number(s, k)
               PROVE  \E f \in Feeds(s) : f < k /\ Number(s, f) = m + 1
    OBVIOUS
  <2>1. m < Number(s, k)  BY <1>0
  <2>2. PICK f \in Feeds(s) : f < k /\ Number(s, f) = m  BY <1>2, <2>1
  <2> DEFINE e == NextFeed(s, f)
  <2>3. e \in Feeds(s) /\ e <= k /\ Number(s, e) = m + 1  BY <2>2, NextFeedIs
  <2> HIDE DEF e
  <2>4. e # k  BY <1>0, <2>3
  <2> QED  BY <1>0, <2>3, <2>4
<1> HIDE DEF S
<1>3. n \in S  BY <1>1, <1>2, Induction
<1> QED  BY <1>3 DEF S

FeedAt(s, n) == CHOOSE f \in Feeds(s) : Number(s, f) = n

\* The line feed with a number is the one with it.
LEMMA FeedAtIs ==
  ASSUME NEW s \in Seq(Bytes), NEW f \in Feeds(s)
  PROVE  FeedAt(s, Number(s, f)) = f
<1>0. Feeds(s) \in SUBSET Nat  BY FeedsType
<1>1. ASSUME NEW g \in Feeds(s), Number(s, g) = Number(s, f) PROVE g = f
  <2>1. ~(g < f) /\ ~(f < g)
    <3>1. Number(s, f) \in Nat /\ Number(s, g) \in Nat  BY <1>0, FeedsType
    <3> QED  BY <1>1, <3>1, NumberGrows
  <2> QED  BY <1>0, <2>1
<1> QED  BY <1>1 DEF FeedAt

\* The lines from behind the line feed f up to the line feed k.
LinesBetween(s, f, k) ==
  [m \in 1 .. Number(s, k) - Number(s, f) |-> LineFrom(s, FeedAt(s, Number(s, f) + m - 1))]

\* Where the line behind f ends, without its line end.
LineLast(s, f) ==
  IF NextFeed(s, f) > f + 1 /\ s[NextFeed(s, f) - 1] = "CR" THEN NextFeed(s, f) - 2
  ELSE NextFeed(s, f) - 1

\* The line behind f, and what is behind the line.
LEMMA LineFromIs ==
  ASSUME NEW s \in Seq(Bytes), NEW f \in Feeds(s), NEW k \in Feeds(s), f < k
  PROVE  /\ LineLast(s, f) \in f .. k - 1 /\ k <= Len(s)
         /\ LineFrom(s, f) = SubSeq(s, f + 1, LineLast(s, f)) /\ LineFrom(s, f) \in Seq(Bytes)
         /\ Len(LineFrom(s, f)) = LineLast(s, f) - f
         /\ \A j \in 1 .. LineLast(s, f) - f : LineFrom(s, f)[j] = s[f + j] /\ s[f + j] # "LF"
         /\ s[LineLast(s, f) + 1] \in {"CR", "LF"}
         /\ LineEnd(s, LineLast(s, f) + 1) = NextFeed(s, f) + 1
<1> DEFINE e == NextFeed(s, f)
           z == LineLast(s, f)
<1>0. Len(s) \in Nat /\ Feeds(s) \in SUBSET (0 .. Len(s)) /\ f \in Nat /\ k \in Nat /\ k <= Len(s)
  BY FeedsType
<1>1. e \in Feeds(s) /\ f < e /\ e <= k /\ \A g \in Feeds(s) : g > f => e <= g  BY NextFeedIs
<1>2. z = IF e > f + 1 /\ s[e - 1] = "CR" THEN e - 2 ELSE e - 1  BY DEF LineLast
<1>3. LineFrom(s, f) = SubSeq(s, f + 1, z)  BY <1>2 DEF LineFrom, NextFeed
<1> HIDE DEF e, z
<1>4. e \in 1 .. Len(s) /\ s[e] = "LF" /\ z \in f .. e - 1  BY <1>0, <1>1, <1>2 DEF Feeds
<1>5. f + 1 \in 1 .. Len(s) + 1 /\ z \in (f + 1) - 1 .. Len(s)  BY <1>0, <1>1, <1>4
<1>6. /\ LineFrom(s, f) \in Seq(Bytes) /\ Len(LineFrom(s, f)) = z - (f + 1) + 1
      /\ \A j \in 1 .. z - (f + 1) + 1 : LineFrom(s, f)[j] = s[f + 1 + j - 1]
  <2> DEFINE l == SubSeq(s, f + 1, z)
             a == f + 1
             B == Bytes
  <2>1. a \in 1 .. Len(s) + 1 /\ z \in a - 1 .. Len(s) /\ s \in Seq(B)  BY <1>5
  <2> HIDE DEF a, B
  <2>2. /\ SubSeq(s, a, z) \in Seq(B) /\ Len(SubSeq(s, a, z)) = z - a + 1
        /\ \A j \in 1 .. z - a + 1 : SubSeq(s, a, z)[j] = s[a + j - 1]
    BY <2>1, PartOf
  <2> QED  BY <1>3, <2>2 DEF a, B
<1>7. z - (f + 1) + 1 = z - f /\ \A j \in 1 .. z - f : f + 1 + j - 1 = f + j
  BY <1>0, <1>4
<1>8. ASSUME NEW j \in 1 .. z - f PROVE s[f + j] # "LF"
  <2>1. f + j \in 1 .. Len(s) /\ f + j > f /\ f + j < e  BY <1>0, <1>1, <1>4
  <2>2. f + j \notin Feeds(s)  BY <1>1, <1>4, <2>1
  <2>3. f + j \in DOMAIN s  BY <2>1
  <2> QED  BY <2>2, <2>3 DEF Feeds
<1>9. s[z + 1] \in {"CR", "LF"} /\ LineEnd(s, z + 1) = e + 1
  <2>1. CASE e > f + 1 /\ s[e - 1] = "CR"
    <3>1. z + 1 = e - 1 /\ (z + 1) + 1 = e /\ z + 1 # Len(s) + 1 /\ e # Len(s) + 1
      BY <1>0, <1>2, <1>4, <2>1
    <3>2. s[z + 1] = "CR" /\ ~AtEnd(s, z + 1)  BY <2>1, <3>1 DEF AtEnd
    <3>3. LineEnd(s, z + 1) = Expect(s, (z + 1) + 1, "LF")  BY <3>2 DEF LineEnd
    <3>4. Expect(s, e, "LF") = e + 1  BY <1>4, <3>1 DEF Expect, AtEnd
    <3> QED  BY <3>1, <3>2, <3>3, <3>4
  <2>2. CASE ~(e > f + 1 /\ s[e - 1] = "CR")
    <3>1. z + 1 = e /\ e # Len(s) + 1  BY <1>0, <1>2, <1>4, <2>2
    <3> QED  BY <1>4, <3>1 DEF LineEnd, AtEnd
  <2> QED  BY <2>1, <2>2
<1>10. z \in f .. k - 1  BY <1>0, <1>1, <1>4
<1> QED  BY <1>0, <1>3, <1>6, <1>7, <1>8, <1>9, <1>10 DEF e, z

\* A text without line ends and a line end behind it are the line behind f.
LEMMA LineFromWhen ==
  ASSUME NEW s \in Seq(Bytes), NEW f \in Feeds(s), NEW z \in f .. Len(s),
         Plain(s, f + 1, z + 1), LineEnd(s, z + 1) >= 0
  PROVE  /\ LineEnd(s, z + 1) - 1 \in Feeds(s) /\ f < LineEnd(s, z + 1) - 1
         /\ NextFeed(s, f) = LineEnd(s, z + 1) - 1 /\ LineLast(s, f) = z
<1> DEFINE q == LineEnd(s, z + 1)
           e == NextFeed(s, f)
<1>0. Len(s) \in Nat /\ Feeds(s) \in SUBSET (0 .. Len(s)) /\ f \in Nat /\ z \in Nat
      /\ z + 1 \in Positions(s) /\ DOMAIN s = 1 .. Len(s)
  BY FeedsType DEF Positions
<1>1. z + 1 <= Len(s) /\ s[z + 1] \in {"CR", "LF"} /\ q \in Int  BY <1>0, LineEndIs
<1>2. \/ s[z + 1] = "LF" /\ q = z + 2
      \/ s[z + 1] = "CR" /\ q = z + 3 /\ z + 2 <= Len(s) /\ s[z + 2] = "LF"
  <2>1. ~AtEnd(s, z + 1)  BY <1>0, <1>1 DEF AtEnd
  <2>2. (z + 1) + 1 = z + 2 /\ (z + 2) + 1 = z + 3  BY <1>0
  <2>3. CASE s[z + 1] = "LF"
    <3>1. q = (z + 1) + 1  BY <2>1, <2>3 DEF LineEnd
    <3> QED  BY <2>2, <2>3, <3>1
  <2>4. CASE s[z + 1] = "CR"
    <3>1. q = Expect(s, (z + 1) + 1, "LF")  BY <2>1, <2>4 DEF LineEnd
    <3>2. q = IF z + 2 = Len(s) + 1 THEN More ELSE IF s[z + 2] = "LF" THEN z + 3 ELSE Bad
      BY <2>2, <3>1 DEF Expect, AtEnd
    <3>3. q >= 0  OBVIOUS
    <3> HIDE DEF q
    <3> QED  BY <1>0, <1>1, <2>4, <3>2, <3>3 DEF More, Bad
  <2> QED  BY <1>1, <2>3, <2>4
<1> HIDE DEF q
<1>3. q - 1 \in 1 .. Len(s) /\ s[q - 1] = "LF" /\ q - 1 \in Feeds(s) /\ f < q - 1
  <2>1. (z + 2) - 1 = z + 1 /\ (z + 3) - 1 = z + 2  BY <1>0
  <2>2. q - 1 \in 1 .. Len(s) /\ s[q - 1] = "LF" /\ f < q - 1  BY <1>0, <1>1, <1>2, <2>1
  <2> QED  BY <1>0, <2>2 DEF Feeds
<1>4. ASSUME NEW g \in Feeds(s), g > f PROVE g >= q - 1
  <2>1. g \in 1 .. Len(s) /\ s[g] = "LF"  BY <1>0, <1>4 DEF Feeds
  <2>2. ~(g < z + 1)
    <3> SUFFICES ASSUME g < z + 1 PROVE FALSE  OBVIOUS
    <3>1. g \in f + 1 .. (z + 1) - 1  BY <1>0, <1>4, <2>1
    <3> QED  BY <2>1, <3>1 DEF Plain
  <2>3. s[z + 1] = "CR" => g # z + 1  BY <2>1
  <2> QED  BY <1>0, <1>2, <2>1, <2>2, <2>3
<1>5. e \in Feeds(s) /\ f < e /\ e <= q - 1  BY <1>3, NextFeedIs
<1>6. LineLast(s, f) = IF e > f + 1 /\ s[e - 1] = "CR" THEN e - 2 ELSE e - 1
  BY DEF LineLast
<1> HIDE DEF e
<1>7. e = q - 1  BY <1>0, <1>3, <1>4, <1>5
<1>8. z > f => s[z] # "CR"
  <2> SUFFICES ASSUME z > f PROVE s[z] # "CR"  OBVIOUS
  <2>1. z \in f + 1 .. (z + 1) - 1  BY <1>0
  <2> QED  BY <2>1 DEF Plain
<1>9. CASE s[z + 1] = "LF" /\ q = z + 2
  <2>1. e = z + 1 /\ e - 1 = z /\ (e > f + 1 => z > f)  BY <1>0, <1>7, <1>9
  <2> QED  BY <1>3, <1>6, <1>7, <1>8, <2>1 DEF e, q
<1>10. CASE s[z + 1] = "CR" /\ q = z + 3
  <2>1. e = z + 2 /\ e - 1 = z + 1 /\ e - 2 = z /\ e > f + 1  BY <1>0, <1>7, <1>10
  <2> QED  BY <1>3, <1>6, <1>7, <1>10, <2>1 DEF e, q
<1> QED  BY <1>2, <1>9, <1>10 DEF q

\* The line feeds of a prefix that ends with one, and the lines behind them.
LEMMA PrefixFeeds ==
  ASSUME NEW s \in Seq(Bytes), NEW k \in DOMAIN s, s[k] = "LF"
  PROVE  LET t == Prefix(s, k) IN
         /\ t \in Seq(Bytes) /\ Len(t) = k /\ k \in Feeds(s) /\ 0 < k
         /\ Feeds(t) = {g \in Feeds(s) : g <= k}
         /\ \A f \in Feeds(t) : FeedsBefore(t, f) = FeedsBefore(s, f)
         /\ \A f \in Feeds(t) : f < k => LineFrom(t, f) = LineFrom(s, f)
<1> DEFINE t == Prefix(s, k)
<1>0. Len(s) \in Nat /\ k \in 1 .. Len(s) /\ DOMAIN s = 1 .. Len(s)  OBVIOUS
<1>1. t \in Seq(Bytes) /\ Len(t) = k /\ DOMAIN t = 1 .. k /\ \A j \in 1 .. k : t[j] = s[j]
  <2> DEFINE B == Bytes
  <2>1. 1 \in 1 .. Len(s) + 1 /\ k \in 1 - 1 .. Len(s) /\ s \in Seq(B) /\ k - 1 + 1 = k
        /\ \A j \in 1 .. k : 1 + j - 1 = j
    BY <1>0
  <2> HIDE DEF B
  <2>2. /\ SubSeq(s, 1, k) \in Seq(B) /\ Len(SubSeq(s, 1, k)) = k - 1 + 1
        /\ DOMAIN SubSeq(s, 1, k) = 1 .. k - 1 + 1
        /\ \A j \in 1 .. k - 1 + 1 : SubSeq(s, 1, k)[j] = s[1 + j - 1]
    BY <2>1, PartOf
  <2> QED  BY <2>1, <2>2 DEF Prefix, B
<1> HIDE DEF t
<1>2. Feeds(s) \in SUBSET (0 .. Len(s)) /\ k \in Feeds(s)  BY <1>0, FeedsType DEF Feeds
<1>3. Feeds(t) = {g \in Feeds(s) : g <= k}  BY <1>0, <1>1 DEF Feeds
<1>4. ASSUME NEW f \in Feeds(t) PROVE FeedsBefore(t, f) = FeedsBefore(s, f)
  BY <1>0, <1>2, <1>3 DEF FeedsBefore
<1>5. ASSUME NEW f \in Feeds(t), f < k PROVE LineFrom(t, f) = LineFrom(s, f)
  <2>1. f \in Feeds(s) /\ k \in Feeds(t) /\ f \in Nat  BY <1>0, <1>2, <1>3
  <2> DEFINE e == NextFeed(s, f)
             d == NextFeed(t, f)
  <2>2. e \in Feeds(s) /\ f < e /\ e <= k /\ \A g \in Feeds(s) : g > f => e <= g
    BY <1>2, <1>5, <2>1, NextFeedIs
  <2>3. d \in Feeds(t) /\ f < d /\ d <= k /\ \A g \in Feeds(t) : g > f => d <= g
    BY <1>1, <1>5, <2>1, NextFeedIs
  <2> HIDE DEF e, d
  <2>4. e = d
    <3>1. e \in Feeds(t) /\ d \in Feeds(s)  BY <1>3, <2>2, <2>3
    <3>2. e <= d /\ d <= e  BY <2>2, <2>3, <3>1
    <3> QED  BY <1>2, <2>2, <3>1, <3>2
  <2>5. e \in 1 .. k /\ e - 1 \in 0 .. k  BY <1>0, <1>2, <2>1, <2>2
  <2>6. LineLast(t, f) = LineLast(s, f)
    <3>1. e > f + 1 => t[e - 1] = s[e - 1]
      <4> SUFFICES ASSUME e > f + 1 PROVE t[e - 1] = s[e - 1]  OBVIOUS
      <4>1. e - 1 \in 1 .. k  BY <2>1, <2>5
      <4> QED  BY <1>1, <4>1
    <3> QED  BY <2>4, <3>1 DEF LineLast, e, d
  <2> DEFINE z == LineLast(s, f)
  <2>7. /\ z \in f .. k - 1 /\ LineFrom(s, f) \in Seq(Bytes) /\ Len(LineFrom(s, f)) = z - f
        /\ \A j \in 1 .. z - f : LineFrom(s, f)[j] = s[f + j]
    BY <1>2, <1>5, <2>1, LineFromIs
  <2>8. /\ LineFrom(t, f) \in Seq(Bytes) /\ Len(LineFrom(t, f)) = z - f
        /\ \A j \in 1 .. z - f : LineFrom(t, f)[j] = t[f + j]
    BY <1>1, <1>5, <2>1, <2>6, LineFromIs
  <2> HIDE DEF z
  <2> DEFINE l == LineFrom(s, f)
             m == LineFrom(t, f)
  <2>9. ASSUME NEW j \in 1 .. z - f PROVE l[j] = m[j]
    <3>1. f + j \in 1 .. k  BY <1>0, <2>1, <2>7
    <3> QED  BY <1>1, <2>7, <2>8, <3>1
  <2>10. l \in Seq(Bytes) /\ m \in Seq(Bytes) /\ Len(l) = Len(m) /\ \A j \in 1 .. Len(l) : l[j] = m[j]
    BY <2>7, <2>8, <2>9
  <2> HIDE DEF l, m
  <2>11. l = m
    <3> DEFINE B == Bytes
    <3>1. l \in Seq(B) /\ m \in Seq(B)  BY <2>10
    <3> HIDE DEF B
    <3> QED  BY <2>10, <3>1, SeqEqual
  <2> QED  BY <2>11 DEF l, m
<1>6. 0 < k  BY <1>0
<1> QED  BY <1>1, <1>2, <1>3, <1>4, <1>5, <1>6 DEF t

\* The lines of such a prefix are the first lines of the text.
LEMMA PrefixLines ==
  ASSUME NEW s \in Seq(Bytes), NEW k \in DOMAIN s, s[k] = "LF"
  PROVE  LinesOf(Prefix(s, k)) = LinesBetween(s, 0, k) /\ EndsLine(Prefix(s, k))
<1> DEFINE t == Prefix(s, k)
           N == Number(s, k)
<1>1. /\ t \in Seq(Bytes) /\ Len(t) = k /\ k \in Feeds(s) /\ 0 < k
      /\ Feeds(t) = {g \in Feeds(s) : g <= k}
      /\ \A f \in Feeds(t) : FeedsBefore(t, f) = FeedsBefore(s, f)
      /\ \A f \in Feeds(t) : f < k => LineFrom(t, f) = LineFrom(s, f)
  BY PrefixFeeds
<1>2. t[k] = "LF"
  <2>1. k \in Feeds(t) /\ 0 < k  BY <1>1, FeedsType
  <2> QED  BY <2>1 DEF Feeds
<1> HIDE DEF t
<1>3. EndsLine(t)
  <2>1. t # << >>  BY <1>1
  <2> QED  BY <1>1, <1>2, <2>1 DEF EndsLine
<1>4. Feeds(s) \in SUBSET Nat /\ k \in Int /\ Number(s, 0) = 0 /\ 0 \in Feeds(s) /\ N \in Nat
  BY <1>1, FeedsType
<1>5. Cardinality(Feeds(t)) = N + 1
  <2>1. Feeds(t) = FeedsBefore(s, k) \union {k} /\ k \notin FeedsBefore(s, k)
    BY <1>1, <1>4 DEF FeedsBefore
  <2>2. IsFiniteSet(FeedsBefore(s, k))  BY <1>4, FeedsType
  <2> QED  BY <2>1, <2>2, FS_AddElement DEF Number
<1>6. ASSUME NEW m \in 1 .. N
      PROVE  LineFrom(t, CHOOSE f \in Feeds(t) : Cardinality({g \in Feeds(t) : g < f}) = m - 1)
               = LineFrom(s, FeedAt(s, m - 1))
  <2> DEFINE c == CHOOSE f \in Feeds(t) : Cardinality({g \in Feeds(t) : g < f}) = m - 1
  <2>1. m - 1 \in Nat /\ m - 1 < N  BY <1>4
  <2>2. PICK f \in Feeds(s) : f < k /\ Number(s, f) = m - 1  BY <1>1, <2>1, NumberReached
  <2>3. \A h \in Feeds(t) : {g \in Feeds(t) : g < h} = FeedsBefore(s, h)
    BY <1>1 DEF FeedsBefore
  <2>4. f \in Feeds(t)  BY <1>1, <1>4, <2>2
  <2>5. ASSUME NEW h \in Feeds(t), Cardinality({g \in Feeds(t) : g < h}) = m - 1 PROVE h = f
    <3>1. h \in Feeds(s) /\ Number(s, h) = m - 1  BY <1>1, <2>3, <2>5 DEF Number
    <3> QED  BY <2>2, <3>1, FeedAtIs
  <2>6. Cardinality({g \in Feeds(t) : g < f}) = m - 1  BY <2>2, <2>3, <2>4 DEF Number
  <2>7. c = f  BY <2>4, <2>5, <2>6
  <2>8. FeedAt(s, m - 1) = f  BY <2>2, FeedAtIs
  <2> HIDE DEF c
  <2>9. LineFrom(t, c) = LineFrom(s, FeedAt(s, m - 1))  BY <1>1, <2>2, <2>4, <2>7, <2>8
  <2> QED  BY <2>9 DEF c
<1>7. LinesOf(t) = [m \in 1 .. N |-> LineFrom(s, FeedAt(s, m - 1))]
  <2>1. Cardinality(Feeds(t)) - 1 = N  BY <1>4, <1>5
  <2> HIDE DEF N
  <2> QED  BY <1>6, <2>1 DEF LinesOf
<1>8. LinesBetween(s, 0, k) = [m \in 1 .. N |-> LineFrom(s, FeedAt(s, m - 1))]
  <2>1. Number(s, k) - Number(s, 0) = N  BY <1>4
  <2>2. \A m \in 1 .. N : Number(s, 0) + m - 1 = m - 1  BY <1>4
  <2> HIDE DEF N
  <2> QED  BY <2>1, <2>2 DEF LinesBetween
<1> QED  BY <1>3, <1>7, <1>8 DEF t

\* The lines from f on: the one behind f, and the others.
LEMMA LinesBetweenIs ==
  ASSUME NEW s \in Seq(Bytes), NEW f \in Feeds(s), NEW k \in Feeds(s), f < k
  PROVE  LET L == LinesBetween(s, f, k) IN
         /\ L \in Seq(Seq(Bytes)) /\ L # << >> /\ L[1] = LineFrom(s, f)
         /\ Without1(L) = LinesBetween(s, NextFeed(s, f), k)
         /\ Len(L) = 1 <=> NextFeed(s, f) = k
<1> DEFINE L == LinesBetween(s, f, k)
           e == NextFeed(s, f)
           n == Number(s, f)
           N == Number(s, k)
<1>1. e \in Feeds(s) /\ f < e /\ e <= k /\ Number(s, e) = n + 1  BY NextFeedIs
<1>2. Feeds(s) \in SUBSET Nat /\ n \in Nat /\ N \in Nat /\ n < N
  <2>1. Feeds(s) \in SUBSET Nat  BY FeedsType
  <2>2. f \in Int /\ k \in Int  BY <2>1
  <2> QED  BY <2>1, <2>2, FeedsType, NumberGrows
<1>3. L = [m \in 1 .. N - n |-> LineFrom(s, FeedAt(s, n + m - 1))]  BY DEF LinesBetween
<1>4. LinesBetween(s, e, k) = [m \in 1 .. N - (n + 1) |-> LineFrom(s, FeedAt(s, (n + 1) + m - 1))]
  BY <1>1 DEF LinesBetween
<1>5. e = k <=> N = n + 1
  <2>1. e < k => Number(s, e) < N  BY <1>1, NumberGrows
  <2>2. e \in Int /\ k \in Int  BY <1>1, <1>2
  <2> HIDE DEF e, n, N
  <2> QED  BY <1>1, <1>2, <2>1, <2>2 DEF N
<1> HIDE DEF e, n, N, L
<1>6. ASSUME NEW m \in 1 .. N - n PROVE LineFrom(s, FeedAt(s, n + m - 1)) \in Seq(Bytes)
  <2>1. n + m - 1 \in Nat /\ n + m - 1 < N  BY <1>2
  <2>2. PICK g \in Feeds(s) : g < k /\ Number(s, g) = n + m - 1
    BY <2>1, NumberReached DEF N
  <2>3. FeedAt(s, n + m - 1) = g  BY <2>2, FeedAtIs
  <2> QED  BY <2>2, <2>3, LineFromIs
<1>7. L \in Seq(Seq(Bytes)) /\ Len(L) = N - n /\ N - n >= 1
  <2> DEFINE Q == Seq(Bytes)
  <2>1. N - n \in Nat /\ N - n >= 1  BY <1>2
  <2>2. \A m \in 1 .. N - n : LineFrom(s, FeedAt(s, n + m - 1)) \in Q  BY <1>6
  <2> HIDE DEF Q
  <2> QED  BY <1>3, <2>1, <2>2 DEF Q
<1>8. L[1] = LineFrom(s, f)
  <2>1. 1 \in 1 .. N - n /\ n + 1 - 1 = n  BY <1>2, <1>7
  <2>2. FeedAt(s, n) = f  BY FeedAtIs DEF n
  <2> QED  BY <1>3, <2>1, <2>2
<1>9. Without1(L) = LinesBetween(s, e, k)
  <2> DEFINE Q == Seq(Bytes)
             M == LinesBetween(s, e, k)
             W == SubSeq(L, 2, Len(L))
             a == 2
             b == Len(L)
  <2>1. L \in Seq(Q) /\ a \in 1 .. Len(L) + 1 /\ b \in a - 1 .. Len(L) /\ W = SubSeq(L, a, b)
    BY <1>2, <1>7
  <2> HIDE DEF Q, W, a, b
  <2>2. /\ W \in Seq(Q) /\ Len(W) = b - a + 1 /\ DOMAIN W = 1 .. b - a + 1
        /\ \A m \in 1 .. b - a + 1 : W[m] = L[a + m - 1]
    BY <2>1, PartOf
  <2> USE DEF a, b
  <2>3. Len(L) - 2 + 1 = N - (n + 1)  BY <1>2, <1>7
  <2>4. ASSUME NEW m \in 1 .. N - (n + 1)
        PROVE  W[m] = LineFrom(s, FeedAt(s, (n + 1) + m - 1))
    <3>1. 2 + m - 1 \in 1 .. N - n /\ n + (2 + m - 1) - 1 = (n + 1) + m - 1  BY <1>2
    <3> HIDE DEF W
    <3> QED  BY <1>3, <2>2, <2>3, <3>1
  <2>5. W = [m \in 1 .. N - (n + 1) |-> W[m]]
    <3> HIDE DEF W
    <3>1. W = [m \in DOMAIN W |-> W[m]]  BY <2>2
    <3> QED  BY <2>2, <2>3, <3>1
  <2> HIDE DEF W
  <2>6. W = LinesBetween(s, e, k)  BY <1>4, <2>4, <2>5
  <2> QED  BY <2>6 DEF W, Without1
<1>10. Len(L) = 1 <=> e = k  BY <1>2, <1>5, <1>7
<1>11. L # << >>  BY <1>7
<1> QED  BY <1>7, <1>8, <1>9, <1>10, <1>11 DEF L, e

------------------------------------------------------------------------------
(***************************************************************************)
(* Messages: the line of a header.                                         *)
(***************************************************************************)
\* A byte of the kind that has none in front of it is the first.
LEMMA FirstOfWhen ==
  ASSUME NEW s \in Seq(Bytes), NEW i \in 1 .. Len(s), NEW p \in i .. Len(s), NEW S,
         s[p] \in S, \A j \in i .. p - 1 : s[j] \notin S
  PROVE  FirstOf(s, i, S) = p
<1> DEFINE r == FirstOf(s, i, S)
<1>1. Len(s) \in Nat /\ i \in Positions(s)  BY DEF Positions
<1>2. /\ r \in i .. Len(s) + 1 /\ \A j \in i .. r - 1 : s[j] \notin S
      /\ r <= Len(s) => s[r] \in S
  BY <1>1, FirstOfIs
<1> HIDE DEF r
<1>3. ~(r < p)
  <2> SUFFICES ASSUME r < p PROVE FALSE  OBVIOUS
  <2>1. r \in i .. p - 1 /\ r <= Len(s)  BY <1>1, <1>2
  <2> QED  BY <1>2, <2>1
<1>4. ~(p < r)
  <2> SUFFICES ASSUME p < r PROVE FALSE  OBVIOUS
  <2>1. p \in i .. r - 1  BY <1>1, <1>2
  <2> QED  BY <1>2, <2>1
<1> QED  BY <1>1, <1>2, <1>3, <1>4 DEF r

\* A search that finds such a byte, and may.
LEMMA ReachWhen ==
  ASSUME NEW s \in Seq(Bytes), NEW i \in 1 .. Len(s), NEW p \in i .. Len(s), NEW S, NEW G,
         s[p] \in S, s[p] \in G, \A j \in i .. p - 1 : s[j] \notin S
  PROVE  Reach(s, i, S, G) = p
<1>1. FirstOf(s, i, S) = p  BY FirstOfWhen
<1>2. p # Len(s) + 1  OBVIOUS
<1> QED  BY <1>1, <1>2 DEF Reach, AtEnd

\* The greatest of some positions.
LEMMA MostIs ==
  ASSUME NEW a \in Int, NEW b \in Int, NEW S \in SUBSET (a .. b), S # {}
  PROVE  Max(S) \in S /\ \A x \in S : x <= Max(S)
<1> DEFINE T == {b - x : x \in S}
<1>1. T \in SUBSET Nat /\ T # {}  OBVIOUS
<1> HIDE DEF T
<1>2. PICK n \in T : \A m \in T : n <= m  BY <1>1, Least
<1>3. PICK x \in S : n = b - x  BY <1>2 DEF T
<1>4. \A y \in S : y <= x
  <2> SUFFICES ASSUME NEW y \in S PROVE y <= x  OBVIOUS
  <2>1. b - y \in T  BY DEF T
  <2>2. b - x <= b - y /\ x \in Int /\ y \in Int  BY <1>2, <1>3, <2>1
  <2> QED  BY <2>2
<1>5. \E y \in S : \A z \in S : y >= z  BY <1>4
<1>6. Max(S) \in S /\ \A z \in S : Max(S) >= z  BY <1>5 DEF Max
<1> QED  BY <1>6

\* A part of a line is a part of the text.
LEMMA LinePart ==
  ASSUME NEW s \in Seq(Bytes), NEW f \in Feeds(s), NEW k \in Feeds(s), f < k,
         NEW a \in 1 .. Len(LineFrom(s, f)) + 1, NEW b \in a - 1 .. Len(LineFrom(s, f))
  PROVE  SubSeq(LineFrom(s, f), a, b) = SubSeq(s, f + a, f + b)
<1> DEFINE l == LineFrom(s, f)
           z == LineLast(s, f)
           B == Bytes
           x == f + a
           y == f + b
<1>0. Len(s) \in Nat /\ f \in Nat /\ k \in Nat  BY FeedsType
<1>1. /\ z \in f .. k - 1 /\ k <= Len(s) /\ l \in Seq(B) /\ Len(l) = z - f
      /\ \A j \in 1 .. z - f : l[j] = s[f + j]
  BY LineFromIs
<1>2. s \in Seq(B) /\ a \in 1 .. Len(l) + 1 /\ b \in a - 1 .. Len(l)  OBVIOUS
<1>3. x \in 1 .. Len(s) + 1 /\ y \in x - 1 .. Len(s)
  <2>1. a \in 1 .. (z - f) + 1 /\ b \in a - 1 .. z - f /\ z \in f .. k - 1 /\ k <= Len(s)
    BY <1>1, <1>2
  <2> HIDE DEF l, z
  <2> QED  BY <1>0, <2>1
<1>4. x = f + a /\ y = f + b  OBVIOUS
<1> HIDE DEF l, z, B, x, y
<1> DEFINE v == SubSeq(l, a, b)
           w == SubSeq(s, x, y)
<1>5. v \in Seq(B) /\ Len(v) = b - a + 1 /\ \A i \in 1 .. b - a + 1 : v[i] = l[a + i - 1]
  BY <1>1, <1>2, PartOf
<1>6. w \in Seq(B) /\ Len(w) = y - x + 1 /\ \A i \in 1 .. y - x + 1 : w[i] = s[x + i - 1]
  BY <1>2, <1>3, PartOf
<1> HIDE DEF v, w
<1>7. a \in Int /\ b \in Int /\ y - x + 1 = b - a + 1  BY <1>0, <1>1, <1>2, <1>4
<1>8. ASSUME NEW i \in 1 .. b - a + 1 PROVE v[i] = w[i]
  <2>1. a + i - 1 \in 1 .. z - f /\ x + i - 1 = f + (a + i - 1)  BY <1>0, <1>1, <1>2, <1>4, <1>7
  <2> QED  BY <1>1, <1>5, <1>6, <1>7, <2>1
<1>9. v = w
  <2>1. Len(v) = Len(w) /\ \A i \in 1 .. Len(v) : v[i] = w[i]  BY <1>5, <1>6, <1>7, <1>8
  <2> QED  BY <1>5, <1>6, <2>1, SeqEqual
<1> QED  BY <1>9 DEF v, w, x, y, l

\* What is taken for a header is one.
LEMMA HeaderGiven ==
  ASSUME NEW s \in Seq(Bytes), NEW f \in Feeds(s), NEW k \in Feeds(s), f < k,
         s[f + 1] \notin {"CR", "LF"}, NEW n \in Nat, NextLine(s, f + 1, n) >= 0
  PROVE  IsHeader(LineFrom(s, f), n + 1)
<1> DEFINE i == f + 1
           v == ValueAt(s, i, n)
           e == Eol(s, v)
           q == LineEnd(s, e)
           l == LineFrom(s, f)
           c == Token(s, i, ":")
           N == NextLine(s, i, n)
           E == Controls \ {"HT"}
<1>0. /\ Len(s) \in Nat /\ f \in Nat /\ k \in Nat /\ k <= Len(s) /\ i \in 1 .. Len(s)
      /\ i \in Positions(s) /\ i = f + 1
  <2>1. Len(s) \in Nat /\ f \in Nat /\ k \in Nat /\ k <= Len(s)  BY FeedsType
  <2> QED  BY <2>1 DEF Positions
<1>1. N = IF v < 0 THEN v ELSE q  BY DEF NextLine, Then, ToEol
<1>2. v \in Int /\ (v >= 0 => v \in i .. Len(s))  BY <1>0, ValueIs
<1>3. N >= 0  OBVIOUS
<1> HIDE DEF v, N
<1>4. v \in i .. Len(s) /\ N = q  BY <1>1, <1>2, <1>3
<1>5. v \in Positions(s)  BY <1>0, <1>4 DEF Positions
<1>6. e \in v .. Len(s) + 1 /\ \A j \in v .. e - 1 : s[j] \notin E
  BY <1>5, FirstOfIs DEF Eol
<1>7. i <= Len(s) /\ s[i] \in Blanks => Eol(s, i) # i  BY <1>0, EolIs
<1> HIDE DEF e
<1>8. e \in Positions(s)  BY <1>0, <1>4, <1>6 DEF Positions
<1>9. q \in Int /\ q >= 0  BY <1>3, <1>4, <1>8, LineEndIs
\* The name.
<1>10. ASSUME ~Folded(s, i, n)
       PROVE  /\ c \in i + 1 .. v - 1 /\ s[c] = ":" /\ \A j \in i .. c - 1 : s[j] \in TokenChars
              /\ \A j \in c + 1 .. v - 1 : s[j] \in Blanks
  <2> DEFINE b == SkipBlanks(s, c + 1)
             S == (Bytes \ TokenChars) \union {":"}
             T == Bytes \ Blanks
  <2>1. v = IF c < 0 THEN c ELSE IF c = i THEN Bad ELSE b  BY <1>10 DEF ValueAt, Then, v
  <2>2. c \in Int /\ c = Reach(s, i, S, {":"})  BY <1>0, ReachType DEF Token
  <2> HIDE DEF c
  <2>3. c >= 0 /\ c # i /\ v = b
    <3> HIDE DEF b
    <3> QED  BY <1>0, <1>4, <2>1, <2>2 DEF Bad
  <2>4. c \in i .. Len(s) /\ s[c] \in {":"} \intersect S /\ \A j \in i .. c - 1 : s[j] \notin S
    <3> DEFINE G == {":"}
    <3>1. c = Reach(s, i, S, G)  BY <2>2
    <3> HIDE DEF S, G
    <3>2. c \in i .. Len(s) /\ s[c] \in G \intersect S /\ \A j \in i .. c - 1 : s[j] \notin S
      BY <1>0, <2>3, <3>1, ReachIs
    <3> QED  BY <3>2 DEF G
  <2>5. c + 1 \in Positions(s)  BY <1>0, <2>4 DEF Positions
  <2>6. b = Reach(s, c + 1, T, Bytes)  BY DEF SkipBlanks
  <2> HIDE DEF b
  <2>7. v \in c + 1 .. Len(s) /\ \A j \in c + 1 .. v - 1 : s[j] \notin T
    <3> DEFINE G == Bytes
    <3>1. v = Reach(s, c + 1, T, G) /\ v >= 0  BY <1>0, <1>4, <2>3, <2>6
    <3> HIDE DEF T, G
    <3> QED  BY <2>5, <3>1, ReachIs
  <2>8. \A j \in 1 .. Len(s) : s[j] \in Bytes  OBVIOUS
  <2>9. ASSUME NEW j \in i .. c - 1 PROVE s[j] \in TokenChars
    <3>1. j \in 1 .. Len(s) /\ s[j] \notin S  BY <1>0, <2>4
    <3> QED  BY <2>8, <3>1 DEF S
  <2>10. ASSUME NEW j \in c + 1 .. v - 1 PROVE s[j] \in Blanks
    <3>1. j \in 1 .. Len(s) /\ s[j] \notin T  BY <1>0, <1>4, <2>4, <2>7
    <3> QED  BY <2>8, <3>1 DEF T
  <2>11. c \in i + 1 .. v - 1 /\ s[c] = ":"  BY <1>0, <1>4, <2>3, <2>4, <2>7
  <2> QED  BY <2>9, <2>10, <2>11
<1>11. Folded(s, i, n) => v = i  BY DEF ValueAt, v
<1> HIDE DEF c
<1>12. ASSUME NEW j \in i .. e - 1 PROVE s[j] \notin E
  <2>1. CASE j >= v
    <3>1. j \in v .. e - 1  BY <1>0, <1>4, <1>6, <2>1
    <3> QED  BY <1>6, <3>1
  <2>2. CASE ~(j >= v)
    <3>1. ~Folded(s, i, n)  BY <1>0, <1>11, <2>2
    <3>2. j \in i .. c - 1 \/ j = c \/ j \in c + 1 .. v - 1
      BY <1>0, <1>4, <1>10, <2>2, <3>1
    <3>3. s[j] \in TokenChars \union {":"} \union Blanks  BY <1>10, <3>1, <3>2
    <3> QED  BY <3>3 DEF TokenChars, Blanks, Controls
  <2> QED  BY <2>1, <2>2
<1>13. e # i
  <2>1. CASE Folded(s, i, n)
    <3>1. e = Eol(s, i) /\ s[i] \in Blanks  BY <1>11, <2>1 DEF Folded, e
    <3> QED  BY <1>0, <1>7, <3>1
  <2>2. CASE ~Folded(s, i, n)
    <3>1. c \in i + 1 .. v - 1  BY <1>10, <2>2
    <3> QED  BY <1>0, <1>4, <1>6, <3>1
  <2> QED  BY <2>1, <2>2
\* The line.
<1> DEFINE z == e - 1
<1>14. z \in f .. Len(s) /\ z + 1 = e /\ z >= i  BY <1>0, <1>4, <1>6, <1>8, <1>13 DEF Positions
<1>15. Plain(s, f + 1, z + 1)
  <2>1. "CR" \in E /\ "LF" \in E  BY DEF Controls
  <2>2. \A j \in f + 1 .. (z + 1) - 1 : j \in i .. e - 1  BY <1>0, <1>14
  <2> QED  BY <1>12, <2>1, <2>2 DEF Plain
<1>16. LineEnd(s, z + 1) >= 0  BY <1>9, <1>14
<1> HIDE DEF z, q, E
<1>17. LineLast(s, f) = z  BY <1>14, <1>15, <1>16, LineFromWhen
<1>18. l \in Seq(Bytes) /\ Len(l) = z - f /\ \A j \in 1 .. z - f : l[j] = s[f + j]
  BY <1>17, LineFromIs
<1> HIDE DEF l
<1>19. DOMAIN l = 1 .. z - f /\ Len(l) \in Nat /\ Len(l) >= 1  BY <1>0, <1>14, <1>18
<1>20. Text(l)
  <2> SUFFICES ASSUME NEW j \in 1 .. z - f PROVE l[j] \notin Controls \ {"HT"}
    BY <1>19 DEF Text
  <2>1. f + j \in i .. e - 1  BY <1>0, <1>14
  <2> QED  BY <1>12, <1>18, <2>1 DEF E
<1>21. CASE Folded(s, i, n)
  <2>1. n # 0 /\ s[i] \in Blanks  BY <1>21 DEF Folded
  <2>2. n + 1 > 1 /\ l[1] = s[f + 1] /\ f + 1 = i  BY <1>0, <1>18, <1>19, <2>1
  <2> QED  BY <1>20, <2>1, <2>2 DEF IsHeader, l
<1>22. CASE ~Folded(s, i, n)
  <2> DEFINE d == c - f
  <2>1. c \in i + 1 .. v - 1 /\ s[c] = ":" /\ \A j \in i .. c - 1 : s[j] \in TokenChars
    BY <1>10, <1>22
  <2>2. d \in 2 .. Len(l) /\ f + d = c  BY <1>0, <1>4, <1>6, <1>14, <1>18, <2>1
  <2> HIDE DEF d
  <2>3. l[d] = ":"  BY <1>18, <2>1, <2>2
  <2>4. ASSUME NEW j \in 1 .. d - 1 PROVE l[j] \in TokenChars
    <3>1. f + j \in i .. c - 1 /\ j \in 1 .. z - f  BY <1>0, <1>18, <2>1, <2>2
    <3> QED  BY <1>18, <2>1, <3>1
  <2>5. FirstOf(l, 1, {":"}) = d
    <3>1. ":" \notin TokenChars  BY DEF TokenChars
    <3>2. 1 \in 1 .. Len(l) /\ d \in 1 .. Len(l)  BY <1>19, <2>2
    <3> DEFINE S == {":"}
    <3>3. l[d] \in S /\ \A j \in 1 .. d - 1 : l[j] \notin S  BY <2>3, <2>4, <3>1
    <3> HIDE DEF S
    <3>4. FirstOf(l, 1, S) = d  BY <1>18, <3>2, <3>3, FirstOfWhen
    <3> QED  BY <3>4 DEF S
  <2>6. Colon(l) = d  BY <2>5 DEF Colon
  <2> QED  BY <1>20, <2>2, <2>4, <2>6 DEF IsHeader, AllIn, l
<1> QED  BY <1>21, <1>22

\* What is a header is taken for one: where its value begins, and where it ends.
LEMMA HeaderTaken ==
  ASSUME NEW s \in Seq(Bytes), NEW f \in Feeds(s), NEW k \in Feeds(s), f < k, NEW n \in Nat,
         LineFrom(s, f) # << >>, IsHeader(LineFrom(s, f), n + 1)
  PROVE  LET i == f + 1
             l == LineFrom(s, f)
             v == ValueAt(s, i, n)
         IN  /\ s[i] \notin {"CR", "LF"} /\ Eol(s, v) = LineLast(s, f) + 1
             /\ NextLine(s, i, n) = NextFeed(s, f) + 1
             /\ Folded(s, i, n) <=> n + 1 > 1 /\ l[1] \in Blanks
             /\ Folded(s, i, n) => v = i
             /\ ~Folded(s, i, n) =>
                  /\ Colon(l) \in 2 .. Len(l) /\ Token(s, i, ":") = f + Colon(l)
                  /\ v = f + Min(NonBlank(l, Colon(l) + 1) \union {Len(l) + 1})
                  /\ Min(NonBlank(l, Colon(l) + 1) \union {Len(l) + 1}) \in 1 .. Len(l) + 1
<1> DEFINE i == f + 1
           z == LineLast(s, f)
           l == LineFrom(s, f)
           v == ValueAt(s, i, n)
           d == Colon(l)
           a == Min(NonBlank(l, d + 1) \union {Len(l) + 1})
           E == Controls \ {"HT"}
<1>0. Len(s) \in Nat /\ f \in Nat /\ k \in Nat /\ k <= Len(s)  BY FeedsType
<1>1. /\ z \in f .. k - 1 /\ l \in Seq(Bytes) /\ Len(l) = z - f
      /\ \A j \in 1 .. z - f : l[j] = s[f + j] /\ s[f + j] # "LF"
      /\ s[z + 1] \in {"CR", "LF"} /\ LineEnd(s, z + 1) = NextFeed(s, f) + 1
  BY LineFromIs
<1>2. NextFeed(s, f) \in Nat /\ NextFeed(s, f) > f
  <2>1. NextFeed(s, f) \in Feeds(s) /\ f < NextFeed(s, f)  BY NextFeedIs
  <2>2. Feeds(s) \in SUBSET (0 .. Len(s))  BY FeedsType
  <2> QED  BY <1>0, <2>1, <2>2
<1>3. l # << >> /\ IsHeader(l, n + 1)  OBVIOUS
<1> HIDE DEF l, z
<1>4. DOMAIN l = 1 .. Len(l) /\ Len(l) \in Nat /\ Len(l) >= 1  BY <1>1, <1>3
<1>5. i \in 1 .. Len(s) /\ i \in Positions(s) /\ i <= z /\ z + 1 \in 1 .. Len(s) /\ l[1] = s[i]
      /\ i = f + 1
  BY <1>0, <1>1, <1>4 DEF Positions
<1>6. ASSUME NEW j \in i .. z PROVE s[j] \notin E
  <2>1. j - f \in 1 .. z - f /\ f + (j - f) = j  BY <1>0, <1>1
  <2>2. l[j - f] = s[j] /\ j - f \in DOMAIN l  BY <1>1, <1>4, <2>1
  <2> QED  BY <1>3, <2>2 DEF IsHeader, Text
<1>7. s[i] \notin {"CR", "LF"}
  <2>1. i \in i .. z /\ "CR" \in E /\ "LF" \in E  BY <1>5 DEF Controls
  <2> QED  BY <1>6, <2>1
<1>8. Folded(s, i, n) <=> n + 1 > 1 /\ l[1] \in Blanks
  BY <1>5 DEF Folded
<1>9. Folded(s, i, n) => v = i  BY DEF ValueAt
<1>10. ASSUME ~Folded(s, i, n)
       PROVE  /\ d \in 2 .. Len(l) /\ Token(s, i, ":") = f + d /\ v = f + a /\ a \in d + 1 .. Len(l) + 1
  <2>1. d \in 2 .. Len(l) /\ \A j \in 1 .. d - 1 : l[j] \in TokenChars
    BY <1>3, <1>8, <1>10 DEF IsHeader, AllIn
  <2>2. l[d] = ":"
    <3>1. 1 \in Positions(l) /\ d <= Len(l)  BY <1>4, <2>1 DEF Positions
    <3> DEFINE S == {":"}
    <3>2. d = FirstOf(l, 1, S)  BY DEF Colon
    <3> HIDE DEF S, d
    <3>3. l[d] \in S  BY <1>1, <3>1, <3>2, FirstOfIs
    <3> QED  BY <3>3 DEF S
  <2> HIDE DEF d
  <2> DEFINE c == f + d
             P == NonBlank(l, d + 1) \union {Len(l) + 1}
  <2>3. c \in i + 1 .. z /\ s[c] = ":" /\ c + 1 \in 1 .. Len(s)
    BY <1>0, <1>1, <1>5, <2>1, <2>2
  <2>4. ASSUME NEW j \in i .. c - 1 PROVE s[j] \in TokenChars
    <3>1. j - f \in 1 .. d - 1 /\ j - f \in 1 .. z - f /\ f + (j - f) = j
      BY <1>0, <1>1, <1>5, <2>1, <2>3
    <3> QED  BY <1>1, <2>1, <3>1
  <2> HIDE DEF c
  <2>5. Token(s, i, ":") = c
    <3> DEFINE S == (Bytes \ TokenChars) \union {":"}
               G == {":"}
    <3>1. s[c] \in S /\ s[c] \in G /\ \A j \in i .. c - 1 : s[j] \notin S
      BY <2>3, <2>4 DEF TokenChars
    <3>2. c \in i .. Len(s)  BY <1>0, <1>1, <1>5, <2>3
    <3>3. Token(s, i, ":") = Reach(s, i, S, G)  BY DEF Token
    <3> HIDE DEF S, G
    <3> QED  BY <1>5, <3>1, <3>2, <3>3, ReachWhen
  <2>6. P \in SUBSET Nat /\ P # {} /\ P \in SUBSET (d + 1 .. Len(l) + 1)
    BY <1>4, <2>1 DEF NonBlank
  <2>7. PICK m \in P : \A y \in P : m <= y  BY <2>6, Least
  <2>8. a = CHOOSE x \in P : \A y \in P : x <= y  BY DEF Min, d
  <2> HIDE DEF a
  <2>9. a \in P /\ \A y \in P : a <= y  BY <2>7, <2>8
  <2> DEFINE p == f + a
             T == Bytes \ Blanks
  <2>10. a \in d + 1 .. Len(l) + 1 /\ p \in c + 1 .. z + 1
    <3> HIDE DEF P
    <3>1. a \in d + 1 .. Len(l) + 1  BY <2>6, <2>9
    <3>2. c = f + d /\ d \in Int /\ Len(l) = z - f /\ z \in Int  BY <1>0, <1>1, <2>1 DEF c
    <3>3. p \in c + 1 .. z + 1  BY <1>0, <3>1, <3>2
    <3> QED  BY <3>1, <3>3
  <2>11. s[p] \in T
    <3>1. CASE a = Len(l) + 1
      <4>1. p = z + 1  BY <1>0, <1>1, <3>1
      <4> QED  BY <1>1, <4>1 DEF Bytes, Blanks, Controls
    <3>2. CASE a # Len(l) + 1
      <4>1. l[a] \notin Blanks /\ a \in 1 .. z - f
        BY <1>1, <2>1, <2>9, <2>10, <3>2 DEF NonBlank
      <4>2. s[p] = l[a] /\ l[a] \in Bytes  BY <1>1, <4>1
      <4> QED  BY <4>1, <4>2
    <3> QED  BY <3>1, <3>2
  <2>12. ASSUME NEW j \in c + 1 .. p - 1 PROVE s[j] \notin T
    <3>1. j - f \in d + 1 .. Len(l) /\ j - f < a /\ j - f \in 1 .. z - f /\ f + (j - f) = j
      BY <1>0, <1>1, <2>1, <2>10 DEF c
    <3>2. j - f \notin P
      <4> HIDE DEF P
      <4> QED  BY <2>9, <2>10, <3>1
    <3>3. l[j - f] \in Blanks  BY <3>1, <3>2 DEF NonBlank
    <3>4. s[j] \in Blanks  BY <1>1, <3>1, <3>3
    <3> QED  BY <3>4
  <2> HIDE DEF p
  <2>13. SkipBlanks(s, c + 1) = p
    <3> DEFINE G == Bytes
    <3>1. SkipBlanks(s, c + 1) = Reach(s, c + 1, T, G)  BY DEF SkipBlanks
    <3>2. p \in c + 1 .. Len(s)  BY <1>0, <1>5, <2>3, <2>10
    <3>3. s[p] \in T /\ s[p] \in G /\ \A j \in c + 1 .. p - 1 : s[j] \notin T
      BY <2>11, <2>12
    <3> HIDE DEF T, G
    <3> QED  BY <2>3, <3>1, <3>2, <3>3, ReachWhen
  <2>14. v = p
    <3>1. v = IF Token(s, i, ":") < 0 THEN Token(s, i, ":")
              ELSE IF Token(s, i, ":") = i THEN Bad ELSE SkipBlanks(s, Token(s, i, ":") + 1)
      BY <1>10 DEF ValueAt, Then
    <3>2. ~(c < 0) /\ c # i  BY <1>0, <1>5, <2>3
    <3> HIDE DEF v
    <3> QED  BY <2>5, <2>13, <3>1, <3>2
  <2> QED  BY <2>1, <2>5, <2>10, <2>14 DEF c, p
<1>11. v \in i .. z + 1
  <2>1. CASE Folded(s, i, n)  BY <1>0, <1>1, <1>5, <1>9, <2>1
  <2>2. CASE ~Folded(s, i, n)
    <3> HIDE DEF v, a, d
    <3>1. d \in 2 .. Len(l) /\ v = f + a /\ a \in d + 1 .. Len(l) + 1  BY <1>10, <2>2
    <3> QED  BY <1>0, <1>1, <1>5, <3>1
  <2> QED  BY <2>1, <2>2
<1> HIDE DEF v
<1>12. Eol(s, v) = z + 1
  <2>1. s[z + 1] \in E  BY <1>1 DEF Controls
  <2>2. \A j \in v .. (z + 1) - 1 : j \in i .. z  BY <1>0, <1>1, <1>5, <1>11
  <2>3. v \in 1 .. Len(s) /\ z + 1 \in v .. Len(s)  BY <1>0, <1>1, <1>5, <1>11
  <2>4. \A j \in v .. (z + 1) - 1 : s[j] \notin E  BY <1>6, <2>2
  <2>5. Eol(s, v) = FirstOf(s, v, E)  BY DEF Eol
  <2> HIDE DEF E
  <2> DEFINE y == z + 1
  <2>6. y \in v .. Len(s) /\ s[y] \in E /\ \A j \in v .. y - 1 : s[j] \notin E
    BY <2>1, <2>3, <2>4
  <2> HIDE DEF y
  <2>7. Eol(s, v) = y  BY <2>3, <2>5, <2>6, FirstOfWhen
  <2> QED  BY <2>7 DEF y
<1>13. NextLine(s, i, n) = NextFeed(s, f) + 1
  <2>1. NextLine(s, i, n) = IF v < 0 THEN v ELSE LineEnd(s, Eol(s, v))
    BY DEF NextLine, Then, ToEol, v
  <2>2. ~(v < 0)  BY <1>0, <1>5, <1>11
  <2> QED  BY <1>1, <1>12, <2>1, <2>2
<1>14. ASSUME ~Folded(s, i, n)
       PROVE  d \in 2 .. Len(l) /\ Token(s, i, ":") = f + d /\ v = f + a /\ a \in 1 .. Len(l) + 1
  <2>1. d \in 2 .. Len(l) /\ Token(s, i, ":") = f + d /\ v = f + a /\ a \in d + 1 .. Len(l) + 1
    BY <1>10, <1>14
  <2> HIDE DEF a, d
  <2>2. a \in 1 .. Len(l) + 1  BY <1>4, <2>1
  <2> QED  BY <2>1, <2>2
<1> QED  BY <1>7, <1>8, <1>9, <1>12, <1>13, <1>14 DEF v, l, z

\* The value from some position of a line on, without the blanks behind it.
LEMMA ValueSame ==
  ASSUME NEW s \in Seq(Bytes), NEW f \in Feeds(s), NEW k \in Feeds(s), f < k,
         NEW a \in 1 .. Len(LineFrom(s, f)) + 1
  PROVE  Trimmed(s, f + a, LineLast(s, f) + 1) = ValueFrom(LineFrom(s, f), a)
<1> DEFINE l == LineFrom(s, f)
           z == LineLast(s, f)
           v == f + a
           Q == NonBlank(l, a)
           P == {p \in v .. (z + 1) - 1 : s[p] \notin Blanks} \union {v - 1}
<1>0. Len(s) \in Nat /\ f \in Nat /\ k \in Nat /\ k <= Len(s)  BY FeedsType
<1>1. z \in f .. k - 1 /\ l \in Seq(Bytes) /\ Len(l) = z - f /\ \A j \in 1 .. z - f : l[j] = s[f + j]
  BY LineFromIs
<1>2. Trimmed(s, v, z + 1) = SubSeq(s, v, Max(P))  BY DEF Trimmed
<1>3. ValueFrom(l, a) = IF Q = {} THEN << >> ELSE SubSeq(l, a, Max(Q))  BY DEF ValueFrom
<1>4. a \in 1 .. Len(l) + 1  OBVIOUS
<1> HIDE DEF l, z
<1>5. Len(l) \in Nat /\ v \in 1 .. z + 1 /\ a \in Nat /\ z \in Nat  BY <1>0, <1>1, <1>4
<1>6. Q \in SUBSET (a .. Len(l)) /\ P \in SUBSET (v - 1 .. z) /\ P # {}
  BY <1>5 DEF NonBlank
<1>7. Max(P) \in P /\ \A x \in P : x <= Max(P)
  <2> DEFINE lo == v - 1
  <2>1. lo \in Int /\ z \in Int /\ P \in SUBSET (lo .. z)  BY <1>5, <1>6
  <2> HIDE DEF lo, P
  <2> QED  BY <1>6, <2>1, MostIs
<1>8. ASSUME NEW j \in a .. Len(l) PROVE j \in Q <=> f + j \in P
  <2>1. f + j \in v .. (z + 1) - 1 /\ f + j # v - 1 /\ j \in 1 .. z - f
    <3>1. j \in Int /\ a <= j /\ j <= Len(l) /\ f \in Int  BY <1>0, <1>5
    <3>2. v = f + a /\ Len(l) = z - f  BY <1>1
    <3> HIDE DEF P, Q, v
    <3> QED  BY <1>5, <3>1, <3>2
  <2>2. l[j] = s[f + j]  BY <1>1, <2>1
  <2> QED  BY <2>1, <2>2 DEF NonBlank
<1>9. ASSUME NEW x \in P PROVE x = v - 1 \/ x - f \in Q
  <2> SUFFICES ASSUME x # v - 1 PROVE x - f \in Q  OBVIOUS
  <2>1. x \in v - 1 .. z /\ x \in Int  BY <1>5, <1>6
  <2>2. Len(l) = z - f  BY <1>1
  <2>3. x - f \in a .. Len(l) /\ f + (x - f) = x
    <3> HIDE DEF P, Q
    <3> QED  BY <1>0, <1>5, <2>1, <2>2
  <2> QED  BY <1>8, <2>3
<1> DEFINE M == Max(P)
<1>10. M \in P /\ M \in Int /\ \A x \in P : x <= M  BY <1>5, <1>6, <1>7
<1> HIDE DEF M
<1>11. CASE Q = {}
  <2>1. M = v - 1  BY <1>9, <1>10, <1>11
  <2> DEFINE b == v - 1
             B == Bytes
             w == SubSeq(s, v, b)
  <2>2. s \in Seq(B) /\ v \in 1 .. Len(s) + 1 /\ b \in v - 1 .. Len(s) /\ b - v + 1 = 0
    <3>1. v \in 1 .. z + 1 /\ z \in Nat /\ z <= Len(s) /\ Len(s) \in Nat  BY <1>0, <1>1, <1>5
    <3> HIDE DEF v, P, Q
    <3>2. v \in 1 .. Len(s) + 1 /\ b \in v - 1 .. Len(s) /\ b - v + 1 = 0  BY <3>1
    <3> QED  BY <3>2
  <2> HIDE DEF B, v, b
  <2>3. w \in Seq(B) /\ Len(w) = b - v + 1  BY <2>2, PartOf
  <2> HIDE DEF w
  <2>4. w = << >>  BY <2>2, <2>3, EmptySeq
  <2>5. Trimmed(s, v, z + 1) = w  BY <1>2, <2>1 DEF M, w, b
  <2> QED  BY <1>3, <1>11, <2>4, <2>5 DEF l, z, v
<1>12. CASE Q # {}
  <2> DEFINE m == Max(Q)
  <2>1. m \in Q /\ \A x \in Q : x <= m
    <3> DEFINE hi == Len(l)
    <3>1. a \in Int /\ hi \in Int /\ Q \in SUBSET (a .. hi)  BY <1>5, <1>6
    <3> HIDE DEF hi, Q
    <3> QED  BY <1>12, <3>1, MostIs
  <2> HIDE DEF m
  <2>2. m \in a .. Len(l) /\ f + m \in P  BY <1>6, <1>8, <2>1
  <2>3. M >= f + m  BY <1>10, <2>2
  <2>4. M # v - 1 /\ M - f \in Q  BY <1>0, <1>4, <1>5, <1>9, <1>10, <2>2, <2>3
  <2>5. M - f <= m /\ M - f \in Int /\ m \in Int  BY <1>0, <1>6, <1>10, <2>1, <2>4
  <2>6. M = f + m  BY <1>0, <1>10, <2>3, <2>5
  <2>7. SubSeq(l, a, m) = SubSeq(s, f + a, f + m)
    <3>1. m \in a - 1 .. Len(l)  BY <1>4, <1>5, <2>2
    <3> QED  BY <1>4, <3>1, LinePart DEF l
  <2> QED  BY <1>2, <1>3, <1>12, <2>6, <2>7 DEF l, z, m, M
<1> QED  BY <1>11, <1>12

\* What is kept of such a line is what the line says.
LEMMA EntryIs ==
  ASSUME NEW s \in Seq(Bytes), NEW f \in Feeds(s), NEW k \in Feeds(s), f < k, NEW n \in Nat,
         LineFrom(s, f) # << >>, IsHeader(LineFrom(s, f), n + 1)
  PROVE  Entry(s, f + 1, n) = HeaderOf(LineFrom(s, f), n + 1)
<1> DEFINE i == f + 1
           l == LineFrom(s, f)
           v == ValueAt(s, i, n)
           d == Colon(l)
           a == Min(NonBlank(l, d + 1) \union {Len(l) + 1})
           z == LineLast(s, f)
<1>1. /\ Eol(s, v) = z + 1
      /\ Folded(s, i, n) <=> n + 1 > 1 /\ l[1] \in Blanks
      /\ Folded(s, i, n) => v = i
      /\ ~Folded(s, i, n) => /\ d \in 2 .. Len(l) /\ Token(s, i, ":") = f + d
                             /\ v = f + a /\ a \in 1 .. Len(l) + 1
  BY HeaderTaken
<1>2. Entry(s, i, n) = [name |-> HeaderName(s, i, n), value |-> Trimmed(s, v, Eol(s, v))]
  BY DEF Entry
<1>3. f \in Nat /\ Len(l) \in Nat /\ i = f + 1
  <2>1. l \in Seq(Bytes)  BY LineFromIs
  <2> QED  BY <2>1, FeedsType
<1>4. \A b \in 1 .. Len(l) + 1 : Trimmed(s, f + b, z + 1) = ValueFrom(l, b)  BY ValueSame
<1> HIDE DEF v, z
<1>5. CASE Folded(s, i, n)
  <2>1. Trimmed(s, f + 1, z + 1) = ValueFrom(l, 1)
    <3>1. 1 \in 1 .. Len(l) + 1  BY <1>3
    <3> QED  BY <1>4, <3>1
  <2>2. HeaderName(s, i, n) = << >>  BY <1>5 DEF HeaderName
  <2>3. HeaderOf(l, n + 1) = [name |-> << >>, value |-> ValueFrom(l, 1)]
    BY <1>1, <1>5 DEF HeaderOf
  <2> QED  BY <1>1, <1>2, <1>5, <2>1, <2>2, <2>3
<1>6. CASE ~Folded(s, i, n)
  <2>1. d \in 2 .. Len(l) /\ Token(s, i, ":") = f + d /\ v = f + a /\ a \in 1 .. Len(l) + 1
    BY <1>1, <1>6
  <2>2. HeaderOf(l, n + 1) = [name |-> Prefix(l, d - 1), value |-> ValueFrom(l, a)]
    BY <1>1, <1>6 DEF HeaderOf
  <2>3. HeaderName(s, i, n) = SubSeq(s, i, (f + d) - 1)  BY <1>6, <2>1 DEF HeaderName
  <2> HIDE DEF a, d
  <2>4. Trimmed(s, v, Eol(s, v)) = ValueFrom(l, a)  BY <1>1, <1>4, <2>1
  <2>5. Prefix(l, d - 1) = SubSeq(s, i, (f + d) - 1)
    <3> DEFINE b == d - 1
               o == 1
    <3>1. o \in 1 .. Len(l) + 1 /\ b \in o - 1 .. Len(l) /\ f + b = (f + d) - 1
      BY <1>3, <2>1
    <3> HIDE DEF b, o
    <3>2. SubSeq(l, o, b) = SubSeq(s, f + o, f + b)  BY <3>1, LinePart
    <3> QED  BY <3>1, <3>2 DEF Prefix, b, o
  <2> QED  BY <1>2, <2>2, <2>3, <2>4, <2>5
<1> QED  BY <1>5, <1>6

------------------------------------------------------------------------------
(***************************************************************************)
(* Messages: the headers.                                                  *)
(***************************************************************************)
\* Lines that are headers behind n others, and what they say.
AreHeadersFrom(L, n) ==
  /\ L # << >> /\ n + Len(L) - 1 <= MaxHeaders
  /\ \A m \in DOMAIN L :
       IF m = Len(L) THEN L[m] = << >> ELSE L[m] # << >> /\ IsHeader(L[m], n + m)
HeadersFrom(L, n) == [m \in 1 .. Len(L) - 1 |-> HeaderOf(L[m], n + m)]

\* A function of the first numbers is a sequence.
LEMMA SequenceOf ==
  ASSUME NEW X, NEW K \in Nat, NEW h, h = [m \in 1 .. K |-> h[m]], \A m \in 1 .. K : h[m] \in X
  PROVE  h \in Seq(X) /\ Len(h) = K
OBVIOUS

\* The first line, and those behind it.
LEMMA HeadersSplit ==
  ASSUME NEW L \in Seq(Seq(Bytes)), L # << >>, NEW n \in Nat
  PROVE  LET W == Without1(L) IN
         /\ W \in Seq(Seq(Bytes)) /\ Len(W) = Len(L) - 1
         /\ L[1] = << >> =>
              /\ AreHeadersFrom(L, n) <=> Len(L) = 1 /\ n <= MaxHeaders
              /\ AreHeadersFrom(L, n) => HeadersFrom(L, n) = << >>
         /\ L[1] # << >> =>
              /\ AreHeadersFrom(L, n) <=>
                   n < MaxHeaders /\ IsHeader(L[1], n + 1) /\ AreHeadersFrom(W, n + 1)
              /\ AreHeadersFrom(L, n) =>
                   HeadersFrom(L, n) = <<HeaderOf(L[1], n + 1)>> \o HeadersFrom(W, n + 1)
<1> DEFINE W == Without1(L)
           N == Len(L)
<1>0. N \in Nat \ {0} /\ DOMAIN L = 1 .. N /\ MaxHeaders \in Nat
  <2>1. MaxHeaders \in Nat  BY MessagesAssumption DEF MessagesAssumption
  <2>2. N \in Nat /\ DOMAIN L = 1 .. N /\ N # 0  BY EmptySeq
  <2> QED  BY <2>1, <2>2
<1>1. /\ W \in Seq(Seq(Bytes)) /\ Len(W) = N - 1 /\ DOMAIN W = 1 .. N - 1
      /\ \A m \in 1 .. N - 1 : W[m] = L[m + 1]
  <2> DEFINE Q == Seq(Bytes)
             a == 2
             b == Len(L)
             w == SubSeq(L, a, b)
  <2>1. L \in Seq(Q) /\ a \in 1 .. Len(L) + 1 /\ b \in a - 1 .. Len(L) /\ W = w
    BY <1>0 DEF Without1
  <2> HIDE DEF Q, W, a, b
  <2>2. /\ w \in Seq(Q) /\ Len(w) = b - a + 1 /\ DOMAIN w = 1 .. b - a + 1
        /\ \A m \in 1 .. b - a + 1 : w[m] = L[a + m - 1]
    BY <2>1, PartOf
  <2> HIDE DEF w
  <2>3. b - a + 1 = N - 1 /\ \A m \in 1 .. N - 1 : a + m - 1 = m + 1
    <3>1. a = 2 /\ b = N  BY DEF a, b
    <3>2. N \in Nat  BY <1>0
    <3> HIDE DEF N
    <3> QED  BY <3>1, <3>2
  <2> QED  BY <2>1, <2>2, <2>3 DEF Q
<1> HIDE DEF W, N
<1>2. AreHeadersFrom(L, n) <=>
        /\ n + N - 1 <= MaxHeaders
        /\ \A m \in 1 .. N : IF m = N THEN L[m] = << >> ELSE L[m] # << >> /\ IsHeader(L[m], n + m)
  BY <1>0 DEF AreHeadersFrom, N
<1>3. AreHeadersFrom(W, n + 1) <=>
        /\ N > 1 /\ (n + 1) + (N - 1) - 1 <= MaxHeaders
        /\ \A m \in 1 .. N - 1 :
             IF m = N - 1 THEN W[m] = << >> ELSE W[m] # << >> /\ IsHeader(W[m], (n + 1) + m)
  <2>1. W # << >> <=> N > 1
    <3>1. W # << >> <=> Len(W) # 0  BY <1>1, EmptySeq
    <3> QED  BY <1>0, <1>1, <3>1
  <2> QED  BY <1>1, <2>1 DEF AreHeadersFrom
<1>4. ASSUME L[1] = << >>
      PROVE  /\ AreHeadersFrom(L, n) <=> N = 1 /\ n <= MaxHeaders
             /\ AreHeadersFrom(L, n) => HeadersFrom(L, n) = << >>
  <2>1. AreHeadersFrom(L, n) => N = 1 /\ n <= MaxHeaders  BY <1>0, <1>2, <1>4
  <2>2. N = 1 /\ n <= MaxHeaders => AreHeadersFrom(L, n)  BY <1>0, <1>2, <1>4
  <2>3. N = 1 => HeadersFrom(L, n) = << >>
    <3> SUFFICES ASSUME N = 1 PROVE HeadersFrom(L, n) = << >>  OBVIOUS
    <3>1. HeadersFrom(L, n) = [m \in 1 .. N - 1 |-> HeaderOf(L[m], n + m)]
      BY DEF HeadersFrom, N
    <3>2. 1 .. N - 1 = {}  OBVIOUS
    <3> QED  BY <3>1, <3>2
  <2> QED  BY <2>1, <2>2, <2>3
<1>5. ASSUME L[1] # << >>
      PROVE  AreHeadersFrom(L, n) <=>
               n < MaxHeaders /\ IsHeader(L[1], n + 1) /\ AreHeadersFrom(W, n + 1)
  <2>1. ASSUME AreHeadersFrom(L, n)
        PROVE  n < MaxHeaders /\ IsHeader(L[1], n + 1) /\ AreHeadersFrom(W, n + 1)
    <3>1. N > 1 /\ n < MaxHeaders /\ (n + 1) + (N - 1) - 1 <= MaxHeaders
      BY <1>0, <1>2, <1>5, <2>1
    <3>2. IsHeader(L[1], n + 1)
      <4>1. 1 \in 1 .. N /\ 1 # N  BY <1>0, <3>1
      <4> QED  BY <1>2, <2>1, <4>1
    <3>3. ASSUME NEW m \in 1 .. N - 1
          PROVE  IF m = N - 1 THEN W[m] = << >> ELSE W[m] # << >> /\ IsHeader(W[m], (n + 1) + m)
      <4>1. m + 1 \in 1 .. N /\ n + (m + 1) = (n + 1) + m /\ (m + 1 = N <=> m = N - 1)
            /\ W[m] = L[m + 1]
        BY <1>0, <1>1
      <4> QED  BY <1>2, <2>1, <4>1
    <3> QED  BY <1>3, <3>1, <3>2, <3>3
  <2>2. ASSUME n < MaxHeaders, IsHeader(L[1], n + 1), AreHeadersFrom(W, n + 1)
        PROVE  AreHeadersFrom(L, n)
    <3>1. N > 1 /\ n + N - 1 <= MaxHeaders  BY <1>0, <1>3, <2>2
    <3>2. ASSUME NEW m \in 1 .. N
          PROVE  IF m = N THEN L[m] = << >> ELSE L[m] # << >> /\ IsHeader(L[m], n + m)
      <4>1. CASE m = 1  BY <1>5, <2>2, <3>1, <4>1
      <4>2. CASE m # 1
        <5> DEFINE p == m - 1
        <5>1. p \in 1 .. N - 1 /\ p + 1 = m /\ (n + 1) + p = n + m /\ (p = N - 1 <=> m = N)
          BY <1>0, <4>2
        <5> HIDE DEF p
        <5>2. W[p] = L[m]  BY <1>1, <5>1
        <5> QED  BY <1>3, <2>2, <5>1, <5>2
      <4> QED  BY <4>1, <4>2
    <3> QED  BY <1>2, <3>1, <3>2
  <2> QED  BY <2>1, <2>2
<1>6. ASSUME AreHeadersFrom(L, n), L[1] # << >>
      PROVE  HeadersFrom(L, n) = <<HeaderOf(L[1], n + 1)>> \o HeadersFrom(W, n + 1)
  <2>1. N > 1  BY <1>0, <1>3, <1>5, <1>6
  <2> DEFINE h == HeadersFrom(L, n)
             g == HeadersFrom(W, n + 1)
             x == HeaderOf(L[1], n + 1)
             X == {HeaderOf(L[m], n + m) : m \in 1 .. N - 1}
  <2>2. h = [m \in 1 .. N - 1 |-> HeaderOf(L[m], n + m)]  BY DEF HeadersFrom, N
  <2>3. g = [m \in 1 .. N - 2 |-> HeaderOf(L[m + 1], n + (m + 1))]
    <3>1. Len(W) - 1 = N - 2  BY <1>0, <1>1
    <3>2. \A m \in 1 .. N - 2 : W[m] = L[m + 1] /\ (n + 1) + m = n + (m + 1)
      BY <1>0, <1>1
    <3>3. g = [m \in 1 .. Len(W) - 1 |-> HeaderOf(W[m], (n + 1) + m)]  BY DEF HeadersFrom
    <3> HIDE DEF g
    <3> QED  BY <3>1, <3>2, <3>3
  <2>4. \A m \in 1 .. N - 1 : HeaderOf(L[m], n + m) \in X  OBVIOUS
  <2>5. x = HeaderOf(L[1], n + 1) /\ 1 \in 1 .. N - 1  BY <1>0, <2>1
  <2>6. N - 1 \in Nat /\ N - 2 \in Nat /\ N - 1 = (N - 2) + 1  BY <1>0, <2>1
  <2>7. \A m \in 1 .. N - 2 : m + 1 \in 1 .. N - 1  BY <2>6
  <2> HIDE DEF X
  <2>8. x \in X  BY <2>4, <2>5
  <2>9. h \in Seq(X) /\ Len(h) = N - 1 /\ \A m \in 1 .. N - 1 : h[m] = HeaderOf(L[m], n + m)
    <3> DEFINE K == N - 1
    <3>1. K \in Nat /\ h = [m \in 1 .. K |-> HeaderOf(L[m], n + m)]  BY <2>2, <2>6
    <3>2. \A m \in 1 .. K : HeaderOf(L[m], n + m) \in X  BY <2>4
    <3> HIDE DEF h, x, K
    <3>3. \A m \in 1 .. K : h[m] = HeaderOf(L[m], n + m)  BY <3>1
    <3>4. h = [m \in 1 .. K |-> h[m]]  BY <3>1
    <3>5. \A m \in 1 .. K : h[m] \in X  BY <3>2, <3>3
    <3>6. h \in Seq(X) /\ Len(h) = K  BY <3>1, <3>4, <3>5, SequenceOf
    <3> QED  BY <3>3, <3>6 DEF K
  <2>10. g \in Seq(X) /\ Len(g) = N - 2
         /\ \A m \in 1 .. N - 2 : g[m] = HeaderOf(L[m + 1], n + (m + 1))
    <3> DEFINE K == N - 2
    <3>1. K \in Nat /\ g = [m \in 1 .. K |-> HeaderOf(L[m + 1], n + (m + 1))]  BY <2>3, <2>6
    <3>2. \A m \in 1 .. K : HeaderOf(L[m + 1], n + (m + 1)) \in X  BY <2>4, <2>7
    <3> HIDE DEF g, x, K
    <3>3. \A m \in 1 .. K : g[m] = HeaderOf(L[m + 1], n + (m + 1))  BY <3>1
    <3>4. g = [m \in 1 .. K |-> g[m]]  BY <3>1
    <3>5. \A m \in 1 .. K : g[m] \in X  BY <3>2, <3>3
    <3>6. g \in Seq(X) /\ Len(g) = K  BY <3>1, <3>4, <3>5, SequenceOf
    <3> QED  BY <3>3, <3>6 DEF K
  <2> HIDE DEF h, g
  <2> DEFINE y == <<x>>
             w == y \o g
  <2>11. y \in Seq(X) /\ Len(y) = 1 /\ y[1] = x
    <3> HIDE DEF x
    <3> QED  BY <2>8
  <2> HIDE DEF x, y
  <2>12. /\ w \in Seq(X) /\ Len(w) = 1 + (N - 2)
         /\ \A m \in 1 .. 1 + (N - 2) : w[m] = IF m <= 1 THEN y[m] ELSE g[m - 1]
    <3>1. g \in Seq(X) /\ y \in Seq(X)  BY <2>10, <2>11
    <3>2. /\ w \in Seq(X) /\ Len(w) = Len(y) + Len(g)
          /\ \A m \in 1 .. Len(y) + Len(g) : w[m] = IF m <= Len(y) THEN y[m] ELSE g[m - Len(y)]
      BY <3>1, ConcatProperties
    <3> HIDE DEF w
    <3> QED  BY <2>10, <2>11, <3>2
  <2> HIDE DEF w
  <2>13. ASSUME NEW m \in 1 .. N - 1 PROVE h[m] = w[m]
    <3>1. CASE m = 1
      <4>1. w[m] = x  BY <2>6, <2>11, <2>12, <3>1
      <4> QED  BY <2>5, <2>9, <3>1, <4>1
    <3>2. CASE m # 1
      <4>1. m - 1 \in 1 .. N - 2 /\ (m - 1) + 1 = m /\ ~(m <= 1) /\ m \in 1 .. 1 + (N - 2)
        BY <2>6, <3>2
      <4>2. w[m] = g[m - 1]  BY <2>12, <4>1
      <4>3. g[m - 1] = HeaderOf(L[m], n + m)  BY <2>10, <4>1
      <4> QED  BY <2>9, <4>2, <4>3
    <3> QED  BY <3>1, <3>2
  <2>14. h = w
    <3>1. Len(h) = Len(w) /\ \A m \in 1 .. Len(h) : h[m] = w[m]  BY <2>6, <2>9, <2>12, <2>13
    <3> QED  BY <2>9, <2>12, <3>1, SeqEqual
  <2> QED  BY <2>14 DEF h, w, y, x, g
<1> QED  BY <1>1, <1>4, <1>5, <1>6 DEF W, N

\* A line end that is complete ends with a line feed.
LEMMA LineEndFeeds ==
  ASSUME NEW s \in Seq(Bytes), NEW i \in Positions(s), LineEnd(s, i) >= 0
  PROVE  LineEnd(s, i) - 1 \in Feeds(s) /\ i <= LineEnd(s, i) - 1
<1>0. Len(s) \in Nat /\ i \in 1 .. Len(s) + 1 /\ DOMAIN s = 1 .. Len(s)  BY DEF Positions
<1> DEFINE q == LineEnd(s, i)
<1>1. i <= Len(s) /\ s[i] \in {"CR", "LF"} /\ q \in i + 1 .. Len(s) + 1  BY LineEndIs
<1>2. ~AtEnd(s, i)  BY <1>0, <1>1 DEF AtEnd
<1>3. s[q - 1] = "LF"
  <2>1. CASE s[i] = "LF"
    <3>1. q = i + 1  BY <1>2, <2>1 DEF LineEnd
    <3> HIDE DEF q
    <3>2. q - 1 = i  BY <1>0, <3>1
    <3> QED  BY <2>1, <3>2
  <2>2. CASE s[i] = "CR"
    <3>1. q = IF AtEnd(s, i + 1) THEN More ELSE IF s[i + 1] = "LF" THEN i + 1 + 1 ELSE Bad
      BY <1>2, <2>2 DEF LineEnd, Expect
    <3>2. q >= 0  OBVIOUS
    <3> HIDE DEF q
    <3>3. s[i + 1] = "LF" /\ q = i + 1 + 1  BY <3>1, <3>2 DEF More, Bad
    <3>4. q - 1 = i + 1  BY <1>0, <3>3
    <3> QED  BY <3>3, <3>4
  <2> QED  BY <1>1, <2>1, <2>2
<1> HIDE DEF q
<1>4. q - 1 \in 1 .. Len(s) /\ i <= q - 1  BY <1>0, <1>1
<1> QED  BY <1>0, <1>3, <1>4 DEF Feeds, q

\* The results of parse_headers at a place behind a line feed: a blank line is the end,
\* and what is read up to one is the headers in front of it.
HeadersRight(s, H, at) ==
  LET f == at[1] - 1
      r == H[at]
  IN  /\ r.ret >= 0 => r.ret - 1 \in Feeds(s) /\ f < r.ret - 1
      /\ \A k \in Feeds(s) :
           f < k => /\ r.ret = k + 1 <=> AreHeadersFrom(LinesBetween(s, f, k), at[2])
                    /\ r.ret = k + 1 => r.headers = HeadersFrom(LinesBetween(s, f, k), at[2])

\* A line that is empty, for the parser and for the grammar.
LEMMA EmptyLine ==
  ASSUME NEW s \in Seq(Bytes), NEW f \in Feeds(s), NEW k \in Feeds(s), f < k
  PROVE  /\ LineEnd(s, f + 1) >= 0 <=> LineFrom(s, f) = << >>
         /\ LineEnd(s, f + 1) >= 0 => LineEnd(s, f + 1) = NextFeed(s, f) + 1
         /\ LineFrom(s, f) = << >> => s[f + 1] \in {"CR", "LF"}
<1> DEFINE z == LineLast(s, f)
           l == LineFrom(s, f)
<1>0. Len(s) \in Nat /\ f \in Nat /\ k \in Nat /\ k <= Len(s)  BY FeedsType
<1>1. /\ z \in f .. k - 1 /\ l \in Seq(Bytes) /\ Len(l) = z - f
      /\ s[z + 1] \in {"CR", "LF"} /\ LineEnd(s, z + 1) = NextFeed(s, f) + 1
  BY LineFromIs
<1>2. NextFeed(s, f) \in Feeds(s)  BY NextFeedIs
<1>3. NextFeed(s, f) \in Nat  BY <1>2, FeedsType
<1>4. ASSUME LineEnd(s, f + 1) >= 0 PROVE z = f
  <2>1. f \in f .. Len(s) /\ Plain(s, f + 1, f + 1)  BY <1>0 DEF Plain
  <2> QED  BY <1>4, <2>1, LineFromWhen
<1> HIDE DEF z, l
<1>5. l = << >> <=> z = f
  <2>1. l = << >> <=> Len(l) = 0  BY <1>1, EmptySeq
  <2> QED  BY <1>0, <1>1, <2>1
<1>6. z = f => LineEnd(s, f + 1) = NextFeed(s, f) + 1 /\ s[f + 1] \in {"CR", "LF"}
  BY <1>1
<1> QED  BY <1>3, <1>4, <1>5, <1>6 DEF l

\* The lines up to the line feed itself are none.
LEMMA NoLines ==
  ASSUME NEW s \in Seq(Bytes), NEW k \in Feeds(s)
  PROVE  LinesBetween(s, k, k) = << >>
<1> DEFINE n == Number(s, k)
<1>1. n \in Nat
  <2>1. k \in Int  BY FeedsType
  <2> QED  BY <2>1, FeedsType
<1> HIDE DEF n
<1>2. 1 .. n - n = {}  BY <1>1
<1>3. LinesBetween(s, k, k) = [m \in 1 .. n - n |-> LineFrom(s, FeedAt(s, n + m - 1))]
  BY DEF LinesBetween, n
<1> QED  BY <1>2, <1>3

\* The results of the parser behind one line are those the grammar has for it.
LEMMA HeadersRightStep ==
  ASSUME NEW s \in Seq(Bytes), NEW H, Lines(s, MaxHeaders, H),
         NEW f \in Feeds(s), NEW n \in 0 .. MaxHeaders,
         f + 1 <= Len(s) /\ s[f + 1] \notin {"CR", "LF"} /\ n # MaxHeaders
           /\ NextLine(s, f + 1, n) >= 0
           => HeadersRight(s, H, <<NextLine(s, f + 1, n), n + 1>>)
  PROVE  HeadersRight(s, H, <<f + 1, n>>)
<1> DEFINE i == f + 1
           at == <<i, n>>
           e == NextLine(s, i, n)
           r == H[at]
           next == H[<<e, n + 1>>]
<1>0. Len(s) \in Nat /\ f \in 0 .. Len(s) /\ MaxHeaders \in Nat /\ n \in Nat /\ n <= MaxHeaders
  <2>1. MaxHeaders \in Nat  BY MessagesAssumption DEF MessagesAssumption
  <2> QED  BY <2>1, FeedsType
<1>1. at \in HeaderPlaces(s, MaxHeaders) /\ i - 1 = f /\ i \in Positions(s)
  BY <1>0 DEF HeaderPlaces, Positions
<1>2. r = HeaderStep(s, MaxHeaders, at, H)  BY <1>1 DEF Lines
<1>3. /\ AtEnd(s, i) \/ s[i] \in {"CR", "LF"} => r = Failed(LineEnd(s, i))
      /\ ~(AtEnd(s, i) \/ s[i] \in {"CR", "LF"}) =>
           /\ n = MaxHeaders => r = Failed(Bad)
           /\ n # MaxHeaders /\ e < 0 => r = Failed(e)
           /\ n # MaxHeaders /\ ~(e < 0) => r = [next EXCEPT !.headers = <<Entry(s, i, n)>> \o @]
  BY <1>2 DEF HeaderStep
<1>4. HeadersRight(s, H, at) <=>
        /\ r.ret >= 0 => r.ret - 1 \in Feeds(s) /\ f < r.ret - 1
        /\ \A k \in Feeds(s) :
             f < k => /\ r.ret = k + 1 <=> AreHeadersFrom(LinesBetween(s, f, k), n)
                      /\ r.ret = k + 1 => r.headers = HeadersFrom(LinesBetween(s, f, k), n)
  <2>1. at[1] - 1 = f /\ at[2] = n  BY <1>0
  <2> HIDE DEF at
  <2> QED  BY <2>1 DEF HeadersRight
<1>5. ASSUME NEW k \in Feeds(s), f < k
      PROVE  LET L == LinesBetween(s, f, k)
                 W == LinesBetween(s, NextFeed(s, f), k)
             IN  /\ LineFrom(s, f) = << >> =>
                      /\ AreHeadersFrom(L, n) <=> NextFeed(s, f) = k
                      /\ AreHeadersFrom(L, n) => HeadersFrom(L, n) = << >>
                 /\ LineFrom(s, f) # << >> =>
                      /\ AreHeadersFrom(L, n) <=>
                           n < MaxHeaders /\ IsHeader(LineFrom(s, f), n + 1) /\ AreHeadersFrom(W, n + 1)
                      /\ AreHeadersFrom(L, n) =>
                           HeadersFrom(L, n) =
                             <<HeaderOf(LineFrom(s, f), n + 1)>> \o HeadersFrom(W, n + 1)
  <2> DEFINE L == LinesBetween(s, f, k)
             W == LinesBetween(s, NextFeed(s, f), k)
             l == LineFrom(s, f)
  <2>1. /\ L \in Seq(Seq(Bytes)) /\ L # << >> /\ L[1] = l
        /\ Without1(L) = W /\ (Len(L) = 1 <=> NextFeed(s, f) = k)
    BY <1>5, LinesBetweenIs
  <2> HIDE DEF L, W, l
  <2>2. /\ L[1] = << >> =>
             /\ AreHeadersFrom(L, n) <=> Len(L) = 1 /\ n <= MaxHeaders
             /\ AreHeadersFrom(L, n) => HeadersFrom(L, n) = << >>
        /\ L[1] # << >> =>
             /\ AreHeadersFrom(L, n) <=>
                  n < MaxHeaders /\ IsHeader(L[1], n + 1) /\ AreHeadersFrom(Without1(L), n + 1)
             /\ AreHeadersFrom(L, n) =>
                  HeadersFrom(L, n) = <<HeaderOf(L[1], n + 1)>> \o HeadersFrom(Without1(L), n + 1)
    BY <1>0, <2>1, HeadersSplit
  <2> QED  BY <1>0, <2>1, <2>2 DEF L, W, l
<1>6. ASSUME NEW z \in Int PROVE Failed(z).ret = z /\ Failed(z).headers = << >>
  BY DEF Failed
<1>7. \A k \in Feeds(s) : k \in Nat /\ k <= Len(s)  BY FeedsType
\* The end of the text.
<1>8. CASE AtEnd(s, i)
  <2>1. i = Len(s) + 1 /\ LineEnd(s, i) = More  BY <1>8 DEF AtEnd, LineEnd
  <2>2. r.ret = More  BY <1>3, <1>6, <1>8, <2>1 DEF More
  <2>3. \A k \in Feeds(s) : ~(f < k)  BY <1>0, <1>7, <2>1
  <2> QED  BY <1>4, <2>2, <2>3 DEF More
\* A line end.
<1>9. CASE ~AtEnd(s, i) /\ s[i] \in {"CR", "LF"}
  <2> DEFINE q == LineEnd(s, i)
  <2>1. q \in Int  BY <1>1, LineEndIs
  <2>2. r.ret = q /\ r.headers = << >>  BY <1>3, <1>6, <1>9, <2>1
  <2>3. q >= 0 => q - 1 \in Feeds(s) /\ f < q - 1
    <3>1. q >= 0 => q - 1 \in Feeds(s) /\ i <= q - 1  BY <1>1, LineEndFeeds
    <3> HIDE DEF q
    <3> QED  BY <1>0, <1>7, <2>1, <3>1
  <2>4. ASSUME NEW k \in Feeds(s), f < k
        PROVE  /\ q = k + 1 <=> AreHeadersFrom(LinesBetween(s, f, k), n)
               /\ q = k + 1 => r.headers = HeadersFrom(LinesBetween(s, f, k), n)
    <3>1. /\ q >= 0 <=> LineFrom(s, f) = << >>
          /\ q >= 0 => q = NextFeed(s, f) + 1
      BY <2>4, EmptyLine
    <3>2. NextFeed(s, f) \in Nat /\ k \in Nat
      <4>1. NextFeed(s, f) \in Feeds(s)  BY <2>4, NextFeedIs
      <4> QED  BY <1>7, <4>1
    <3> HIDE DEF q
    <3>3. CASE LineFrom(s, f) = << >>
      <4>1. q = k + 1 <=> NextFeed(s, f) = k  BY <3>1, <3>2, <3>3
      <4> QED  BY <1>5, <2>2, <2>4, <3>3, <4>1
    <3>4. CASE LineFrom(s, f) # << >>
      <4>1. q # k + 1  BY <2>1, <3>1, <3>2, <3>4
      <4>2. ~IsHeader(LineFrom(s, f), n + 1)
        <5> SUFFICES ASSUME IsHeader(LineFrom(s, f), n + 1) PROVE FALSE  OBVIOUS
        <5>1. s[f + 1] \notin {"CR", "LF"}  BY <1>0, <2>4, <3>4, HeaderTaken
        <5> QED  BY <1>9, <5>1
      <4> QED  BY <1>5, <2>4, <3>4, <4>1, <4>2
    <3> QED  BY <3>3, <3>4
  <2> HIDE DEF q, r
  <2>5. /\ r.ret >= 0 => r.ret - 1 \in Feeds(s) /\ f < r.ret - 1
        /\ \A k \in Feeds(s) :
             f < k => /\ r.ret = k + 1 <=> AreHeadersFrom(LinesBetween(s, f, k), n)
                      /\ r.ret = k + 1 => r.headers = HeadersFrom(LinesBetween(s, f, k), n)
    BY <2>2, <2>3, <2>4
  <2> QED  BY <1>4, <2>5 DEF r
\* A line with text, when there is no room for it or it is none of a header.
<1>10. CASE ~AtEnd(s, i) /\ s[i] \notin {"CR", "LF"} /\ (n = MaxHeaders \/ e < 0)
  <2>1. i \in 1 .. Len(s) /\ i <= Len(s)  BY <1>0, <1>1, <1>10 DEF AtEnd, Positions
  <2>2. e \in Int  BY <1>0, <1>10, <2>1, NextLineIs
  <2>3. r.ret < 0
    <3>1. CASE n = MaxHeaders
      <4>1. r = Failed(Bad) /\ Bad \in Int  BY <1>3, <1>10, <3>1 DEF Bad
      <4> HIDE DEF r
      <4> QED  BY <1>6, <4>1 DEF Bad
    <3>2. CASE n # MaxHeaders /\ e < 0
      <4>1. r = Failed(e)  BY <1>3, <1>10, <3>2
      <4> HIDE DEF r, e
      <4>2. r.ret = e  BY <1>6, <2>2, <4>1
      <4> QED  BY <3>2, <4>2
    <3> QED  BY <1>10, <3>1, <3>2
  <2>4. r.ret \in Int
    <3>1. r \in HeaderResults(s, MaxHeaders)  BY <1>1 DEF Lines
    <3> QED  BY <3>1 DEF HeaderResults
  <2>5. ASSUME NEW k \in Feeds(s), f < k
        PROVE  r.ret # k + 1 /\ ~AreHeadersFrom(LinesBetween(s, f, k), n)
    <3>1. LineFrom(s, f) # << >>  BY <1>10, <2>5, EmptyLine
    <3>2. ~(n < MaxHeaders /\ IsHeader(LineFrom(s, f), n + 1))
      <4> SUFFICES ASSUME n < MaxHeaders, IsHeader(LineFrom(s, f), n + 1) PROVE FALSE  OBVIOUS
      <4>1. e = NextFeed(s, f) + 1  BY <1>0, <2>5, <3>1, HeaderTaken
      <4>2. NextFeed(s, f) \in Feeds(s)  BY <2>5, NextFeedIs
      <4>3. NextFeed(s, f) \in Nat  BY <1>7, <4>2
      <4> HIDE DEF e
      <4> QED  BY <1>0, <1>10, <4>1, <4>3
    <3>3. r.ret # k + 1
      <4>1. k \in Nat  BY <1>7
      <4> HIDE DEF r
      <4> QED  BY <2>3, <2>4, <4>1
    <3> QED  BY <1>5, <2>5, <3>1, <3>2, <3>3
  <2> HIDE DEF r, e, at
  <2>6. ~(r.ret >= 0)  BY <2>3, <2>4
  <2> QED  BY <1>4, <2>5, <2>6 DEF at
\* A header.
<1>11. CASE ~AtEnd(s, i) /\ s[i] \notin {"CR", "LF"} /\ ~(n = MaxHeaders \/ e < 0)
  <2>1. i \in 1 .. Len(s) /\ i <= Len(s)  BY <1>0, <1>1, <1>11 DEF AtEnd, Positions
  <2>2. e \in i + 1 .. Len(s) + 1
    <3>1. e \in Int /\ (e >= 0 => e \in i + 1 .. Len(s) + 1)  BY <1>0, <1>11, <2>1, NextLineIs
    <3> HIDE DEF e
    <3> QED  BY <1>11, <3>1
  <2>3. HeadersRight(s, H, <<e, n + 1>>)
    <3>1. e >= 0
      <4> HIDE DEF e
      <4> QED  BY <1>0, <2>2
    <3> QED  BY <1>11, <2>1, <3>1
  <2> DEFINE g == e - 1
             x == Entry(s, i, n)
  <2>4. /\ next.ret >= 0 => next.ret - 1 \in Feeds(s) /\ g < next.ret - 1
        /\ \A k \in Feeds(s) :
             g < k => /\ next.ret = k + 1 <=> AreHeadersFrom(LinesBetween(s, g, k), n + 1)
                      /\ next.ret = k + 1 => next.headers = HeadersFrom(LinesBetween(s, g, k), n + 1)
    <3> DEFINE to == <<e, n + 1>>
    <3>1. to[1] - 1 = g /\ to[2] = n + 1 /\ next = H[to]  OBVIOUS
    <3>2. HeadersRight(s, H, to)  BY <2>3
    <3> HIDE DEF to, g, next
    <3> QED  BY <3>1, <3>2 DEF HeadersRight
  <2>5. next.ret \in Int /\ r.ret = next.ret /\ r.headers = <<x>> \o next.headers
    <3>1. r = [next EXCEPT !.headers = <<x>> \o @]  BY <1>3, <1>11
    <3>2. <<e, n + 1>> \in HeaderPlaces(s, MaxHeaders)
      <4>1. at \in HeaderPlaces(s, MaxHeaders) /\ at[1] = i /\ at[2] = n  BY <1>1
      <4>2. ~(NextLine(s, at[1], at[2]) < 0) =>
              <<NextLine(s, at[1], at[2]), at[2] + 1>> \in HeaderPlaces(s, MaxHeaders)
        <5> HIDE DEF at
        <5> QED  BY <1>0, <1>11, <4>1, LineAt
      <4> QED  BY <1>11, <4>2
    <3>3. next \in HeaderResults(s, MaxHeaders)  BY <3>2 DEF Lines
    <3> DEFINE w == <<x>> \o next.headers
    <3>4. r = [next EXCEPT !.headers = w]  BY <3>1
    <3> HIDE DEF next, r, w
    <3>5. next.ret \in Int /\ r.ret = next.ret /\ r.headers = w  BY <3>3, <3>4 DEF HeaderResults
    <3> QED  BY <3>5 DEF w
  <2> HIDE DEF next, r
  <2>6. g \in Nat /\ f < g  BY <1>0, <2>2
  <2>7. r.ret >= 0 => r.ret - 1 \in Feeds(s) /\ f < r.ret - 1
    <3> HIDE DEF g
    <3> QED  BY <1>0, <2>4, <2>5, <2>6
  <2>8. ASSUME NEW k \in Feeds(s), f < k
        PROVE  /\ r.ret = k + 1 <=> AreHeadersFrom(LinesBetween(s, f, k), n)
               /\ r.ret = k + 1 => r.headers = HeadersFrom(LinesBetween(s, f, k), n)
    <3>1. LineFrom(s, f) # << >>  BY <1>11, <2>8, EmptyLine
    <3>2. e >= 0 /\ n < MaxHeaders
      <4> HIDE DEF e
      <4> QED  BY <1>0, <1>11, <2>2
    <3>3. IsHeader(LineFrom(s, f), n + 1)  BY <1>0, <1>11, <2>8, <3>2, HeaderGiven
    <3>4. e = NextFeed(s, f) + 1  BY <1>0, <2>8, <3>1, <3>3, HeaderTaken
    <3>5. x = HeaderOf(LineFrom(s, f), n + 1)  BY <1>0, <2>8, <3>1, <3>3, EntryIs
    <3>6. NextFeed(s, f) \in Feeds(s) /\ NextFeed(s, f) <= k  BY <2>8, NextFeedIs
    <3>7. NextFeed(s, f) = g /\ NextFeed(s, f) \in Nat /\ k \in Nat  BY <1>7, <3>4, <3>6
    <3> HIDE DEF g, e, x
    <3> DEFINE L == LinesBetween(s, f, k)
               W == LinesBetween(s, g, k)
    <3>8. /\ AreHeadersFrom(L, n) <=> AreHeadersFrom(W, n + 1)
          /\ AreHeadersFrom(L, n) => HeadersFrom(L, n) = <<x>> \o HeadersFrom(W, n + 1)
      BY <1>5, <2>8, <3>1, <3>2, <3>3, <3>5, <3>7
    <3>9. next.ret = k + 1 <=> AreHeadersFrom(W, n + 1)
      <4>1. CASE g < k  BY <2>4, <4>1
      <4>2. CASE ~(g < k)
        <5>1. g = k  BY <3>6, <3>7, <4>2
        <5>2. W = << >>  BY <5>1, NoLines
        <5>3. ~AreHeadersFrom(W, n + 1)  BY <5>2 DEF AreHeadersFrom
        <5>4. next.ret # k + 1
          <6> SUFFICES ASSUME next.ret = k + 1 PROVE FALSE  OBVIOUS
          <6>1. next.ret - 1 = k /\ next.ret >= 0  BY <3>7
          <6> QED  BY <2>4, <3>7, <5>1, <6>1
        <5> QED  BY <5>3, <5>4
      <4> QED  BY <4>1, <4>2
    <3>10. next.ret = k + 1 => next.headers = HeadersFrom(W, n + 1)
      <4> SUFFICES ASSUME next.ret = k + 1 PROVE next.headers = HeadersFrom(W, n + 1)  OBVIOUS
      <4>1. next.ret - 1 = k /\ next.ret >= 0  BY <3>7
      <4>2. g < k  BY <2>4, <4>1
      <4> QED  BY <2>4, <4>2
    <3> HIDE DEF L, W
    <3>11. /\ r.ret = k + 1 <=> AreHeadersFrom(L, n)
           /\ r.ret = k + 1 => r.headers = HeadersFrom(L, n)
      BY <2>5, <3>8, <3>9, <3>10
    <3> QED  BY <3>11 DEF L
  <2> HIDE DEF at
  <2> QED  BY <1>4, <2>7, <2>8 DEF at
<1> QED  BY <1>8, <1>9, <1>10, <1>11

\* parse_headers takes exactly the headers, behind any line feed and n others.
LEMMA HeadersExact ==
  ASSUME NEW s \in Seq(Bytes), NEW H, Lines(s, MaxHeaders, H),
         NEW f \in Feeds(s), NEW n \in 0 .. MaxHeaders
  PROVE  HeadersRight(s, H, <<f + 1, n>>)
<1>0. Len(s) \in Nat /\ Feeds(s) \in SUBSET (0 .. Len(s)) /\ MaxHeaders \in Nat
  <2>1. MaxHeaders \in Nat  BY MessagesAssumption DEF MessagesAssumption
  <2> QED  BY <2>1, FeedsType
<1> DEFINE A == HeaderPlaces(s, MaxHeaders)
           rank == [at \in A |-> Len(s) + 1 - at[1]]
           S == {at \in A : at[1] - 1 \in Feeds(s) => HeadersRight(s, H, at)}
<1>1. rank \in [A -> Nat]
  <2> SUFFICES ASSUME NEW at \in A PROVE Len(s) + 1 - at[1] \in Nat  OBVIOUS
  <2>1. at[1] \in 1 .. Len(s) + 1  BY DEF HeaderPlaces, Positions
  <2> QED  BY <1>0, <2>1
<1>2. ASSUME NEW at \in A, \A b \in A : rank[b] < rank[at] => b \in S PROVE at \in S
  <2> SUFFICES ASSUME at[1] - 1 \in Feeds(s) PROVE HeadersRight(s, H, at)  OBVIOUS
  <2> DEFINE g == at[1] - 1
             m == at[2]
             e == NextLine(s, g + 1, m)
  <2>1. at[1] \in 1 .. Len(s) + 1 /\ m \in 0 .. MaxHeaders /\ at = <<at[1], m>>
    BY DEF HeaderPlaces, Positions
  <2>2. g + 1 = at[1] /\ g \in Feeds(s)  BY <1>0, <2>1
  <2> HIDE DEF g, m
  <2>3. ASSUME g + 1 <= Len(s), s[g + 1] \notin {"CR", "LF"}, m # MaxHeaders, e >= 0
        PROVE  HeadersRight(s, H, <<e, m + 1>>)
    <3>1. ~AtEnd(s, at[1]) /\ s[at[1]] \notin {"CR", "LF"} /\ at[2] # MaxHeaders
      BY <1>0, <2>1, <2>2, <2>3 DEF AtEnd, m
    <3>2. /\ NextLine(s, at[1], at[2]) \in Int
          /\ ~(NextLine(s, at[1], at[2]) < 0) =>
               /\ <<NextLine(s, at[1], at[2]), at[2] + 1>> \in A
               /\ Len(s) + 1 - NextLine(s, at[1], at[2]) < Len(s) + 1 - at[1]
      BY <1>0, <3>1, LineAt
    <3>3. e = NextLine(s, at[1], at[2]) /\ m = at[2]  BY <2>2 DEF m
    <3>4. e \in Int /\ e - 1 \in Feeds(s)
      <4>1. g + 1 \in 1 .. Len(s) /\ m \in Nat /\ g + 1 \in Positions(s)
        BY <1>0, <2>1, <2>2, <2>3 DEF Positions
      <4> DEFINE v == ValueAt(s, g + 1, m)
                 p == Eol(s, v)
      <4>2. e = IF v < 0 THEN v ELSE LineEnd(s, p)  BY DEF NextLine, Then, ToEol
      <4>3. v \in Int /\ (v >= 0 => v \in g + 1 .. Len(s))  BY <4>1, ValueIs
      <4>4. e >= 0  BY <2>3
      <4> HIDE DEF v, e
      <4>5. v \in Positions(s) /\ e = LineEnd(s, p)  BY <4>1, <4>2, <4>3, <4>4 DEF Positions
      <4>6. p \in v .. Len(s) + 1  BY <4>5, EolIs
      <4> HIDE DEF p
      <4>7. p \in Positions(s)  BY <1>0, <4>5, <4>6 DEF Positions
      <4> QED  BY <4>4, <4>5, <4>7, LineEndIs, LineEndFeeds
    <3> DEFINE b == <<e, m + 1>>
    <3>5. b \in A /\ rank[b] < rank[at] /\ b[1] = e
      <4>1. b \in A /\ Len(s) + 1 - e < Len(s) + 1 - at[1] /\ b[1] = e
        <5> HIDE DEF e
        <5> QED  BY <2>3, <3>2, <3>3, <3>4
      <4> HIDE DEF b, e, A
      <4> QED  BY <4>1
    <3>6. b \in S  BY <1>2, <3>5
    <3>7. b[1] - 1 \in Feeds(s)  BY <3>4, <3>5
    <3> QED  BY <3>6, <3>7
  <2> HIDE DEF e
  <2>4. HeadersRight(s, H, <<g + 1, m>>)
    <3>1. g + 1 <= Len(s) /\ s[g + 1] \notin {"CR", "LF"} /\ m # MaxHeaders
            /\ NextLine(s, g + 1, m) >= 0
            => HeadersRight(s, H, <<NextLine(s, g + 1, m), m + 1>>)
      BY <2>3 DEF e
    <3>2. m \in 0 .. MaxHeaders /\ g \in Feeds(s)  BY <2>1, <2>2
    <3> QED  BY <3>1, <3>2, HeadersRightStep
  <2> QED  BY <2>1, <2>2, <2>4
<1> HIDE DEF S, rank
<1>3. A \subseteq S  BY <1>1, <1>2, RankInduction
<1> DEFINE at == <<f + 1, n>>
<1>4. at \in A /\ at[1] - 1 = f
  <2>1. f + 1 \in 1 .. Len(s) + 1 /\ (f + 1) - 1 = f  BY <1>0
  <2> QED  BY <2>1 DEF HeaderPlaces, Positions
<1> HIDE DEF at
<1>5. at \in S  BY <1>3, <1>4
<1> QED  BY <1>4, <1>5 DEF S, at

------------------------------------------------------------------------------
(***************************************************************************)
(* Messages: the line of a request.                                        *)
(***************************************************************************)
\* All bytes of a part of a line, as bytes of the text.
LEMMA LineAll ==
  ASSUME NEW s \in Seq(Bytes), NEW f \in Feeds(s), NEW k \in Feeds(s), f < k,
         NEW a \in Nat \ {0}, NEW b \in Int, b <= Len(LineFrom(s, f)), NEW S
  PROVE  AllIn(LineFrom(s, f), a, b, S) <=> AllIn(s, f + a, f + b, S)
<1> DEFINE l == LineFrom(s, f)
           z == LineLast(s, f)
<1>0. f \in Nat  BY FeedsType
<1>1. z \in f .. k - 1 /\ Len(l) = z - f /\ \A j \in 1 .. z - f : l[j] = s[f + j]
  BY LineFromIs
<1>2. b <= Len(l)  OBVIOUS
<1> HIDE DEF l, z
<1>3. ASSUME AllIn(l, a, b, S), NEW p \in f + a .. f + b PROVE s[p] \in S
  <2>1. p - f \in a .. b /\ p - f \in 1 .. z - f /\ f + (p - f) = p  BY <1>0, <1>1, <1>2
  <2>2. l[p - f] \in S /\ l[p - f] = s[f + (p - f)]  BY <1>1, <1>3, <2>1 DEF AllIn
  <2> QED  BY <2>1, <2>2
<1>4. ASSUME AllIn(s, f + a, f + b, S), NEW p \in a .. b PROVE l[p] \in S
  <2>1. f + p \in f + a .. f + b /\ p \in 1 .. z - f  BY <1>0, <1>1, <1>2
  <2> QED  BY <1>1, <1>4, <2>1 DEF AllIn
<1> QED  BY <1>3, <1>4 DEF AllIn, l

\* The parts of a request line between the line feed f and the position z.
Visible == Bytes \ (Controls \union {"SP"})
RequestParts(s, f, z, m, p, q) ==
  /\ f + 1 < m /\ m < p /\ p < q /\ q <= z - 2
  /\ AllIn(s, f + 1, m - 1, TokenChars) /\ AllIn(s, m, p - 1, {"SP"})
  /\ AllIn(s, p, q - 1, Visible) /\ AllIn(s, q, z - 2, {"SP"})
  /\ s[z - 1] = "V" /\ s[z] = "1"

\* A request line, by its positions in the text.
LEMMA RequestLineParts ==
  ASSUME NEW s \in Seq(Bytes), NEW f \in Feeds(s), NEW k \in Feeds(s), f < k
  PROVE  IsRequestLine(LineFrom(s, f)) <=>
           \E m, p, q \in f + 1 .. LineLast(s, f) : RequestParts(s, f, LineLast(s, f), m, p, q)
<1> DEFINE l == LineFrom(s, f)
           z == LineLast(s, f)
           N == Len(l)
           Parts(i, j, h) ==
             /\ 1 < i /\ i < j /\ j < h /\ h <= N - 2
             /\ AllIn(l, 1, i - 1, TokenChars) /\ AllIn(l, i, j - 1, {"SP"})
             /\ AllIn(l, j, h - 1, Visible) /\ AllIn(l, h, N - 2, {"SP"})
             /\ l[N - 1] = "V" /\ l[N] = "1"
<1>0. Len(s) \in Nat /\ f \in Nat /\ k \in Nat  BY FeedsType
<1>1. z \in f .. k - 1 /\ l \in Seq(Bytes) /\ N = z - f /\ \A j \in 1 .. z - f : l[j] = s[f + j]
  BY LineFromIs
<1>2. \A a \in Nat \ {0} : \A b \in Int : \A S :
        b <= N => (AllIn(l, a, b, S) <=> AllIn(s, f + a, f + b, S))
  BY LineAll
<1>3. IsRequestLine(l) <=> \E i, j, h \in DOMAIN l : Parts(i, j, h)
  BY DEF IsRequestLine, Visible
<1>4. DOMAIN l = 1 .. N  BY <1>1
<1> HIDE DEF l, z, N
<1>5. ASSUME NEW i \in 1 .. N, NEW j \in 1 .. N, NEW h \in 1 .. N
      PROVE  Parts(i, j, h) <=> RequestParts(s, f, z, f + i, f + j, f + h)
  <2>0. f \in Int /\ z \in Int /\ N \in Int /\ N = z - f /\ i \in Int /\ j \in Int /\ h \in Int
    <3>1. f \in Int /\ z \in Int /\ N = z - f  BY <1>0, <1>1
    <3> QED  BY <3>1
  <2>1. /\ 1 < i <=> f + 1 < f + i
        /\ i < j <=> f + i < f + j
        /\ j < h <=> f + j < f + h
        /\ h <= N - 2 <=> f + h <= z - 2
    <3> HIDE DEF Parts
    <3> QED  BY <2>0
  <2>2. /\ f + (i - 1) = (f + i) - 1 /\ f + (j - 1) = (f + j) - 1 /\ f + (h - 1) = (f + h) - 1
        /\ f + (N - 2) = z - 2
    <3> HIDE DEF Parts
    <3> QED  BY <2>0
  <2>3. /\ AllIn(l, 1, i - 1, TokenChars) <=> AllIn(s, f + 1, (f + i) - 1, TokenChars)
        /\ AllIn(l, i, j - 1, {"SP"}) <=> AllIn(s, f + i, (f + j) - 1, {"SP"})
        /\ AllIn(l, j, h - 1, Visible) <=> AllIn(s, f + j, (f + h) - 1, Visible)
        /\ AllIn(l, h, N - 2, {"SP"}) <=> AllIn(s, f + h, z - 2, {"SP"})
    <3>1. /\ 1 \in Nat \ {0} /\ i \in Nat \ {0} /\ j \in Nat \ {0} /\ h \in Nat \ {0}
          /\ i - 1 \in Int /\ j - 1 \in Int /\ h - 1 \in Int /\ N - 2 \in Int
          /\ i - 1 <= N /\ j - 1 <= N /\ h - 1 <= N /\ N - 2 <= N
      <4>1. N \in Int  BY <1>0, <1>1
      <4> QED  BY <4>1
    <3>2. AllIn(l, 1, i - 1, TokenChars) <=> AllIn(s, f + 1, (f + i) - 1, TokenChars)
      BY <1>2, <2>2, <3>1
    <3>3. AllIn(l, i, j - 1, {"SP"}) <=> AllIn(s, f + i, (f + j) - 1, {"SP"})
      BY <1>2, <2>2, <3>1
    <3>4. AllIn(l, j, h - 1, Visible) <=> AllIn(s, f + j, (f + h) - 1, Visible)
      BY <1>2, <2>2, <3>1
    <3>5. AllIn(l, h, N - 2, {"SP"}) <=> AllIn(s, f + h, z - 2, {"SP"})
      BY <1>2, <2>2, <3>1
    <3> QED  BY <3>2, <3>3, <3>4, <3>5
  <2>4. h <= N - 2 => l[N - 1] = s[z - 1] /\ l[N] = s[z]
    <3> SUFFICES ASSUME h <= N - 2 PROVE l[N - 1] = s[z - 1] /\ l[N] = s[z]  OBVIOUS
    <3>1. N - 1 \in 1 .. z - f /\ N \in 1 .. z - f /\ f + (N - 1) = z - 1 /\ f + N = z
      BY <1>0, <1>1
    <3>2. l[N - 1] = s[f + (N - 1)] /\ l[N] = s[f + N]  BY <1>1, <3>1
    <3> QED  BY <3>1, <3>2
  <2> QED  BY <2>1, <2>3, <2>4 DEF RequestParts
<1> HIDE DEF Parts
<1>6. ASSUME NEW i \in 1 .. N, NEW j \in 1 .. N, NEW h \in 1 .. N, Parts(i, j, h)
      PROVE  \E m, p, q \in f + 1 .. z : RequestParts(s, f, z, m, p, q)
  <2>1. f + i \in f + 1 .. z /\ f + j \in f + 1 .. z /\ f + h \in f + 1 .. z
    BY <1>0, <1>1
  <2>2. RequestParts(s, f, z, f + i, f + j, f + h)  BY <1>5, <1>6
  <2> QED  BY <2>1, <2>2
<1>7. ASSUME NEW m \in f + 1 .. z, NEW p \in f + 1 .. z, NEW q \in f + 1 .. z,
             RequestParts(s, f, z, m, p, q)
      PROVE  \E i, j, h \in 1 .. N : Parts(i, j, h)
  <2> DEFINE i == m - f
             j == p - f
             h == q - f
  <2>1. /\ i \in 1 .. N /\ j \in 1 .. N /\ h \in 1 .. N
        /\ f + i = m /\ f + j = p /\ f + h = q
    BY <1>0, <1>1
  <2> HIDE DEF i, j, h
  <2>2. RequestParts(s, f, z, f + i, f + j, f + h)  BY <1>7, <2>1
  <2>3. Parts(i, j, h)
    <3> HIDE DEF Parts
    <3>1. i \in 1 .. N /\ j \in 1 .. N /\ h \in 1 .. N  BY <2>1
    <3>2. Parts(i, j, h) <=> RequestParts(s, f, z, f + i, f + j, f + h)  BY <1>5, <3>1
    <3> QED  BY <2>2, <3>2
  <2> QED  BY <2>1, <2>3
<1> QED  BY <1>3, <1>4, <1>6, <1>7 DEF l, z

\* The parts of the parser of a request line that begins at i, one behind the other.
MethodEnd(s, i) == Token(s, i, "SP")
PathAt(s, i) == Then(MethodEnd(s, i), LAMBDA p : SkipSpaces(s, p))
PathEnd(s, i) == Then(PathAt(s, i), LAMBDA p : AdvanceToken(s, p))
VersionAt(s, i) == Then(PathEnd(s, i), LAMBDA p : SkipSpaces(s, p))
VersionEnd(s, i) ==
  Then(VersionAt(s, i), LAMBDA p : IF MethodEnd(s, i) = i \/ PathEnd(s, i) = PathAt(s, i) THEN Bad
                                   ELSE Version(s, p))
RequestLineEnd(s, i) == Then(VersionEnd(s, i), LAMBDA p : LineEnd(s, p))

\* Each part stops with the first that fails.
LEMMA PartsInOrder ==
  ASSUME NEW s, NEW i
  PROVE  /\ PathAt(s, i) = IF MethodEnd(s, i) < 0 THEN MethodEnd(s, i)
                           ELSE SkipSpaces(s, MethodEnd(s, i))
         /\ PathEnd(s, i) = IF PathAt(s, i) < 0 THEN PathAt(s, i) ELSE AdvanceToken(s, PathAt(s, i))
         /\ VersionAt(s, i) = IF PathEnd(s, i) < 0 THEN PathEnd(s, i) ELSE SkipSpaces(s, PathEnd(s, i))
         /\ VersionEnd(s, i) =
              IF VersionAt(s, i) < 0 THEN VersionAt(s, i)
              ELSE IF MethodEnd(s, i) = i \/ PathEnd(s, i) = PathAt(s, i) THEN Bad
              ELSE Version(s, VersionAt(s, i))
         /\ RequestLineEnd(s, i) = IF VersionEnd(s, i) < 0 THEN VersionEnd(s, i)
                                   ELSE LineEnd(s, VersionEnd(s, i))
BY DEF PathAt, PathEnd, VersionAt, VersionEnd, RequestLineEnd, Then

\* What a part of the parser gives.
Codes == Nat \union {More, Bad}

\* A failure is one of the two.
LEMMA PartCodes ==
  ASSUME NEW s \in Seq(Bytes), NEW i \in Positions(s)
  PROVE  LineEnd(s, i) \in Codes /\ \A S, G : Reach(s, i, S, G) \in Codes
<1>0. Len(s) \in Nat /\ i \in 1 .. Len(s) + 1  BY DEF Positions
<1>1. LineEnd(s, i) \in Codes
  <2>1. i + 1 \in Nat /\ i + 1 + 1 \in Nat  BY <1>0
  <2>2. LineEnd(s, i) \in {More, Bad, i + 1, i + 1 + 1}
    <3>1. Expect(s, i + 1, "LF") \in {More, Bad, i + 1 + 1}  BY DEF Expect
    <3>2. CASE AtEnd(s, i)  BY <3>2 DEF LineEnd
    <3>3. CASE ~AtEnd(s, i) /\ s[i] = "CR"  BY <3>1, <3>3 DEF LineEnd
    <3>4. CASE ~AtEnd(s, i) /\ s[i] = "LF"  BY <3>4 DEF LineEnd
    <3>5. CASE ~AtEnd(s, i) /\ s[i] \notin {"CR", "LF"}  BY <3>5 DEF LineEnd
    <3> QED  BY <3>2, <3>3, <3>4, <3>5
  <2> QED  BY <2>1, <2>2 DEF Codes
<1>2. ASSUME NEW S, NEW G PROVE Reach(s, i, S, G) \in Codes
  <2>1. FirstOf(s, i, S) \in i .. Len(s) + 1  BY FirstOfIs
  <2>2. FirstOf(s, i, S) \in Nat  BY <1>0, <2>1
  <2> QED  BY <2>2 DEF Reach, Codes
<1> QED  BY <1>1, <1>2

\* Where the parts of a request line are, and what is in them.
LEMMA PartsPlaced ==
  ASSUME NEW s \in Seq(Bytes), NEW i \in Positions(s)
  PROVE  LET m == MethodEnd(s, i)
             p == PathAt(s, i)
             q == PathEnd(s, i)
             v == VersionAt(s, i)
             w == VersionEnd(s, i)
         IN  /\ {m, p, q, v, w, RequestLineEnd(s, i)} \subseteq Codes
             /\ m >= 0 => m \in i .. Len(s) /\ s[m] = "SP" /\ AllIn(s, i, m - 1, TokenChars)
             /\ p >= 0 => m >= 0 /\ p \in m + 1 .. Len(s) /\ s[p] # "SP" /\ AllIn(s, m, p - 1, {"SP"})
             /\ q >= 0 => p >= 0 /\ q \in p .. Len(s) /\ s[q] = "SP" /\ AllIn(s, p, q - 1, Visible)
             /\ v >= 0 => q >= 0 /\ v \in q + 1 .. Len(s) /\ AllIn(s, q, v - 1, {"SP"})
             /\ w >= 0 => /\ v >= 0 /\ m # i /\ q # p /\ v + 1 <= Len(s) /\ w = v + 2
                          /\ s[v] = "V" /\ s[v + 1] = "1"
             /\ RequestLineEnd(s, i) >= 0 => w >= 0 /\ RequestLineEnd(s, i) = LineEnd(s, w)
<1> DEFINE m == MethodEnd(s, i)
           p == PathAt(s, i)
           q == PathEnd(s, i)
           v == VersionAt(s, i)
           w == VersionEnd(s, i)
           r == RequestLineEnd(s, i)
<1>0. Len(s) \in Nat /\ i \in 1 .. Len(s) + 1  BY DEF Positions
<1>1. /\ m = Token(s, i, "SP") /\ p = IF m < 0 THEN m ELSE SkipSpaces(s, m)
      /\ q = IF p < 0 THEN p ELSE AdvanceToken(s, p)
      /\ v = IF q < 0 THEN q ELSE SkipSpaces(s, q)
      /\ w = IF v < 0 THEN v ELSE IF m = i \/ q = p THEN Bad ELSE Version(s, v)
      /\ r = IF w < 0 THEN w ELSE LineEnd(s, w)
  <2>1. m = Token(s, i, "SP")  BY DEF MethodEnd
  <2> QED  BY <2>1, PartsInOrder
<1>2. Codes \subseteq Int  BY DEF Codes, More, Bad
<1>3. \A j \in 1 .. Len(s) : s[j] \in Bytes  OBVIOUS
<1> HIDE DEF m, p, q, v, w, r
<1>4. m \in Codes /\ (m >= 0 => /\ m \in i .. Len(s) /\ s[m] = "SP"
                              /\ AllIn(s, i, m - 1, TokenChars))
  <2> DEFINE S == (Bytes \ TokenChars) \union {"SP"}
             G == {"SP"}
  <2>1. m = Reach(s, i, S, G)  BY <1>1 DEF Token
  <2>2. \A b \in Bytes : b \notin S => b \in TokenChars  OBVIOUS
  <2> HIDE DEF S
  <2>3. m \in Codes /\ m \in Int  BY <1>0, <1>2, <2>1, PartCodes
  <2>4. m >= 0 => m \in i .. Len(s) /\ s[m] \in G /\ \A j \in i .. m - 1 : s[j] \notin S
    <3> HIDE DEF G
    <3> QED  BY <1>0, <2>1, ReachIs
  <2>5. m >= 0 => \A j \in i .. m - 1 : j \in 1 .. Len(s)  BY <1>0, <2>3, <2>4
  <2> QED  BY <1>3, <2>2, <2>3, <2>4, <2>5 DEF AllIn
\* Over spaces.
<1>5. ASSUME NEW a \in 1 .. Len(s), s[a] = "SP"
      PROVE  /\ SkipSpaces(s, a) \in Codes
             /\ SkipSpaces(s, a) >= 0 => /\ SkipSpaces(s, a) \in a + 1 .. Len(s)
                                         /\ s[SkipSpaces(s, a)] # "SP"
                                         /\ AllIn(s, a, SkipSpaces(s, a) - 1, {"SP"})
  <2> DEFINE S == Bytes \ {"SP"}
             G == Bytes
             t == SkipSpaces(s, a)
  <2>1. t = Reach(s, a + 1, S, G) /\ a + 1 \in Positions(s)
    BY <1>0 DEF SkipSpaces, Positions
  <2>2. \A b \in Bytes : b \notin S => b = "SP"  OBVIOUS
  <2>3. \A b \in S : b # "SP"  OBVIOUS
  <2> HIDE DEF S, G, t
  <2>4. t \in Codes /\ t \in Int  BY <1>2, <2>1, PartCodes
  <2>5. t >= 0 => t \in a + 1 .. Len(s) /\ s[t] \in S /\ \A j \in a + 1 .. t - 1 : s[j] \notin S
    BY <2>1, ReachIs
  <2>6. ASSUME t >= 0, NEW j \in a .. t - 1 PROVE s[j] = "SP"
    <3>1. CASE j = a  BY <1>5, <3>1
    <3>2. CASE j # a
      <4>1. j \in a + 1 .. t - 1 /\ j \in 1 .. Len(s)  BY <1>0, <2>4, <2>5, <2>6, <3>2
      <4> QED  BY <1>3, <2>2, <2>5, <2>6, <4>1
    <3> QED  BY <3>1, <3>2
  <2>7. t >= 0 => AllIn(s, a, t - 1, {"SP"})  BY <2>6 DEF AllIn
  <2> QED  BY <2>3, <2>4, <2>5, <2>7 DEF t
<1>6. p \in Codes /\ (p >= 0 => /\ m >= 0 /\ p \in m + 1 .. Len(s) /\ s[p] # "SP"
                              /\ AllIn(s, m, p - 1, {"SP"}))
  <2>1. CASE m < 0  BY <1>1, <1>2, <1>4, <2>1
  <2>2. CASE ~(m < 0)
    <3>1. m >= 0 /\ m \in 1 .. Len(s) /\ s[m] = "SP" /\ p = SkipSpaces(s, m)
      BY <1>0, <1>1, <1>2, <1>4, <2>2
    <3> QED  BY <1>5, <3>1
  <2> QED  BY <2>1, <2>2
<1>7. q \in Codes /\ (q >= 0 => /\ p >= 0 /\ q \in p .. Len(s) /\ s[q] = "SP"
                              /\ AllIn(s, p, q - 1, Visible))
  <2>1. CASE p < 0  BY <1>1, <1>2, <1>6, <2>1
  <2>2. CASE ~(p < 0)
    <3>1. p >= 0 /\ p \in Positions(s) /\ q = AdvanceToken(s, p)
      <4>1. p >= 0 /\ q = AdvanceToken(s, p)  BY <1>1, <1>2, <1>6, <2>2
      <4>2. m \in 1 .. Len(s) /\ p \in m + 1 .. Len(s)  BY <1>0, <1>2, <1>4, <1>6, <4>1
      <4>3. p \in 1 .. Len(s) + 1  BY <1>0, <4>2
      <4> QED  BY <4>1, <4>3 DEF Positions
    <3> DEFINE S == Controls \union {"SP"}
               G == {"SP"}
    <3>2. q = Reach(s, p, S, G)  BY <3>1 DEF AdvanceToken
    <3>3. \A b \in Bytes : b \notin S => b \in Visible  BY DEF Visible
    <3> HIDE DEF S
    <3>4. q \in Codes /\ q \in Int  BY <1>2, <3>1, <3>2, PartCodes
    <3>5. q >= 0 => q \in p .. Len(s) /\ s[q] \in G /\ \A j \in p .. q - 1 : s[j] \notin S
      <4> HIDE DEF G
      <4> QED  BY <3>1, <3>2, ReachIs
    <3>6. q >= 0 => \A j \in p .. q - 1 : j \in 1 .. Len(s)
      BY <1>0, <1>4, <1>6, <3>1, <3>4, <3>5
    <3> QED  BY <1>3, <3>1, <3>3, <3>4, <3>5, <3>6 DEF AllIn
  <2> QED  BY <2>1, <2>2
<1>8. v \in Codes /\ (v >= 0 => /\ q >= 0 /\ v \in q + 1 .. Len(s) /\ AllIn(s, q, v - 1, {"SP"}))
  <2>0. q \in Codes /\ (q >= 0 => p >= 0 /\ q \in p .. Len(s) /\ s[q] = "SP")  BY <1>7
  <2>1. CASE q < 0
    <3>1. v = q  BY <1>1, <2>1
    <3> QED  BY <1>2, <2>0, <2>1, <3>1
  <2>2. CASE ~(q < 0)
    <3>1. q >= 0 /\ p >= 0 /\ v = SkipSpaces(s, q)  BY <1>1, <1>2, <2>0, <2>2
    <3>2. m \in 1 .. Len(s) /\ p \in m + 1 .. Len(s)  BY <1>0, <1>2, <1>4, <1>6, <3>1
    <3>3. q \in 1 .. Len(s) /\ s[q] = "SP"  BY <1>0, <2>0, <3>1, <3>2
    <3> QED  BY <1>5, <3>1, <3>3
  <2> QED  BY <2>1, <2>2
<1>9. w \in Codes /\ (w >= 0 => /\ v >= 0 /\ m # i /\ q # p /\ v + 1 <= Len(s) /\ w = v + 2
                              /\ s[v] = "V" /\ s[v + 1] = "1")
  <2>1. CASE v < 0  BY <1>1, <1>2, <1>8, <2>1
  <2>2. CASE ~(v < 0) /\ (m = i \/ q = p)  BY <1>1, <2>2 DEF Bad, Codes
  <2>3. CASE ~(v < 0) /\ ~(m = i \/ q = p)
    <3>1. v >= 0 /\ q >= 0 /\ p >= 0 /\ m >= 0 /\ w = Version(s, v)
      BY <1>1, <1>2, <1>6, <1>7, <1>8, <2>3
    <3>2. m \in i .. Len(s) /\ p \in m + 1 .. Len(s) /\ q \in p .. Len(s) /\ v \in q + 1 .. Len(s)
      BY <1>4, <1>6, <1>7, <1>8, <3>1
    <3>3. v \in 1 .. Len(s)  BY <1>0, <3>2
    <3>4. w \in Codes  BY <3>1, <3>3 DEF Version, Codes
    <3> QED  BY <2>3, <3>1, <3>3, <3>4, VersionIs
  <2> QED  BY <2>1, <2>2, <2>3
<1>10. r \in Codes /\ (r >= 0 => w >= 0 /\ r = LineEnd(s, w))
  <2>1. CASE w < 0  BY <1>1, <1>2, <1>9, <2>1
  <2>2. CASE ~(w < 0)
    <3>1. w >= 0 /\ r = LineEnd(s, w)  BY <1>1, <1>2, <1>9, <2>2
    <3>2. v >= 0 /\ q >= 0 /\ p >= 0 /\ m >= 0 /\ w = v + 2 /\ v + 1 <= Len(s)
      BY <1>6, <1>7, <1>8, <1>9, <3>1
    <3>3. m \in i .. Len(s) /\ p \in m + 1 .. Len(s) /\ q \in p .. Len(s) /\ v \in q + 1 .. Len(s)
      BY <1>4, <1>6, <1>7, <1>8, <3>2
    <3>5. w \in Positions(s)  BY <1>0, <3>2, <3>3 DEF Positions
    <3> QED  BY <3>1, <3>5, PartCodes
  <2> QED  BY <2>1, <2>2
<1> QED  BY <1>4, <1>6, <1>7, <1>8, <1>9, <1>10 DEF m, p, q, v, w, r

\* What the parser takes for a request line is one.
LEMMA RequestLineGiven ==
  ASSUME NEW s \in Seq(Bytes), NEW f \in Feeds(s), f < Len(s), RequestLineEnd(s, f + 1) >= 0
  PROVE  LET i == f + 1
             z == VersionEnd(s, i) - 1
         IN  /\ RequestLineEnd(s, i) - 1 \in Feeds(s) /\ f < RequestLineEnd(s, i) - 1
             /\ NextFeed(s, f) = RequestLineEnd(s, i) - 1 /\ LineLast(s, f) = z
             /\ MethodEnd(s, i) \in i .. z /\ PathAt(s, i) \in i .. z /\ PathEnd(s, i) \in i .. z
             /\ RequestParts(s, f, z, MethodEnd(s, i), PathAt(s, i), PathEnd(s, i))
<1> DEFINE i == f + 1
           m == MethodEnd(s, i)
           p == PathAt(s, i)
           q == PathEnd(s, i)
           v == VersionAt(s, i)
           w == VersionEnd(s, i)
           r == RequestLineEnd(s, i)
           z == w - 1
<1>0. Len(s) \in Nat /\ f \in Nat /\ i \in 1 .. Len(s) /\ i \in Positions(s) /\ i = f + 1
  <2>1. Len(s) \in Nat /\ f \in Nat  BY FeedsType
  <2> QED  BY <2>1 DEF Positions
<1>1. Codes \subseteq Int  BY DEF Codes, More, Bad
<1>2. r >= 0  OBVIOUS
<1>3. /\ {m, p, q, v, w, r} \subseteq Codes
      /\ m >= 0 => m \in i .. Len(s) /\ s[m] = "SP" /\ AllIn(s, i, m - 1, TokenChars)
      /\ p >= 0 => m >= 0 /\ p \in m + 1 .. Len(s) /\ s[p] # "SP" /\ AllIn(s, m, p - 1, {"SP"})
      /\ q >= 0 => p >= 0 /\ q \in p .. Len(s) /\ s[q] = "SP" /\ AllIn(s, p, q - 1, Visible)
      /\ v >= 0 => q >= 0 /\ v \in q + 1 .. Len(s) /\ AllIn(s, q, v - 1, {"SP"})
      /\ w >= 0 => /\ v >= 0 /\ m # i /\ q # p /\ v + 1 <= Len(s) /\ w = v + 2
                   /\ s[v] = "V" /\ s[v + 1] = "1"
      /\ r >= 0 => w >= 0 /\ r = LineEnd(s, w)
  BY <1>0, PartsPlaced
<1> HIDE DEF m, p, q, v, w, r, i
<1>10. w >= 0 /\ r = LineEnd(s, w) /\ v >= 0 /\ q >= 0 /\ p >= 0 /\ m >= 0  BY <1>2, <1>3
<1>11. /\ m \in i + 1 .. Len(s) /\ p \in m + 1 .. Len(s) /\ q \in p + 1 .. Len(s)
       /\ v \in q + 1 .. Len(s) /\ w = v + 2 /\ v + 1 <= Len(s)
  <2>1. m \in i .. Len(s) /\ p \in m + 1 .. Len(s) /\ q \in p .. Len(s) /\ v \in q + 1 .. Len(s)
        /\ w = v + 2 /\ v + 1 <= Len(s) /\ m # i /\ q # p
    BY <1>3, <1>10
  <2> QED  BY <1>0, <2>1
<1>12. /\ AllIn(s, i, m - 1, TokenChars) /\ AllIn(s, m, p - 1, {"SP"})
       /\ AllIn(s, p, q - 1, Visible) /\ AllIn(s, q, v - 1, {"SP"}) /\ s[v] = "V" /\ s[v + 1] = "1"
  BY <1>3, <1>10
<1>13. z = v + 1 /\ z + 1 = w /\ z - 1 = v /\ z - 2 = v - 1 /\ z \in f .. Len(s)
  BY <1>0, <1>11
<1> HIDE DEF z
<1>14. Plain(s, f + 1, z + 1)
  <2> SUFFICES ASSUME NEW j \in i .. v + 1 PROVE s[j] \notin {"CR", "LF"}
    BY <1>0, <1>11, <1>13 DEF Plain
  <2>1. \/ j \in i .. m - 1 \/ j \in m .. p - 1 \/ j \in p .. q - 1 \/ j \in q .. v - 1
        \/ j = v \/ j = v + 1
    BY <1>0, <1>11
  <2>2. s[j] \in TokenChars \union {"SP"} \union Visible \union {"V", "1"}
    BY <1>12, <2>1 DEF AllIn
  <2> QED  BY <2>2 DEF TokenChars, Visible, Controls
<1>15. LineEnd(s, z + 1) = r  BY <1>10, <1>13
<1>16. r - 1 \in Feeds(s) /\ f < r - 1 /\ NextFeed(s, f) = r - 1 /\ LineLast(s, f) = z
  BY <1>2, <1>13, <1>14, <1>15, LineFromWhen
<1>17. m \in i .. z /\ p \in i .. z /\ q \in i .. z  BY <1>0, <1>11, <1>13
<1>18. RequestParts(s, f, z, m, p, q)
  <2>1. f + 1 < m /\ m < p /\ p < q /\ q <= z - 2  BY <1>0, <1>11, <1>13
  <2> QED  BY <1>0, <1>12, <1>13, <2>1 DEF RequestParts
<1> QED  BY <1>16, <1>17, <1>18 DEF z, m, p, q, w, r, i

\* The version, where it is written and a byte follows.
LEMMA VersionWhen ==
  ASSUME NEW s \in Seq(Bytes), NEW v \in 1 .. Len(s), v + 2 <= Len(s), s[v] = "V", s[v + 1] = "1"
  PROVE  Version(s, v) = v + 2
<1>0. Len(s) \in Nat  OBVIOUS
<1> DEFINE V == Versions(s, v)
           c == Cardinality(V)
<1>1. V \in SUBSET (1 .. Len(s)) /\ v \in V  BY <1>0 DEF Versions
<1>2. IsFiniteSet(1 .. Len(s))  BY <1>0, FS_Interval
<1> HIDE DEF V
<1>3. IsFiniteSet(V)  BY <1>1, <1>2, FS_Subset
<1>4. c \in Nat /\ c # 0
  <2>1. c \in Nat  BY <1>3, FS_CardinalityType
  <2>2. c = 0 => V = {}  BY <1>3, FS_EmptySet
  <2> QED  BY <1>1, <2>1, <2>2
<1>5. Width(s, v) = Len(s) + 1 - v + 6 * c  BY DEF Width, V
<1> HIDE DEF c
<1>6. ~(Width(s, v) < 9)  BY <1>0, <1>4, <1>5
<1> QED  BY <1>6 DEF Version

\* Over spaces to the first byte that is none.
LEMMA SpacesWhen ==
  ASSUME NEW s \in Seq(Bytes), NEW a \in 1 .. Len(s), NEW b \in 1 .. Len(s), a < b,
         \A j \in a .. b - 1 : s[j] = "SP", s[b] # "SP"
  PROVE  SkipSpaces(s, a) = b
<1> DEFINE S == Bytes \ {"SP"}
           G == Bytes
<1>0. Len(s) \in Nat  OBVIOUS
<1>1. SkipSpaces(s, a) = Reach(s, a + 1, S, G)  BY DEF SkipSpaces
<1>2. s[b] \in S /\ s[b] \in G  OBVIOUS
<1>3. "SP" \notin S  OBVIOUS
<1> HIDE DEF S, G
<1>4. a + 1 \in 1 .. Len(s) /\ b \in a + 1 .. Len(s)  BY <1>0
<1>5. \A j \in a + 1 .. b - 1 : s[j] \notin S  BY <1>3
<1> QED  BY <1>1, <1>2, <1>4, <1>5, ReachWhen

\* The parser takes every request line.
LEMMA RequestLineTaken ==
  ASSUME NEW s \in Seq(Bytes), NEW f \in Feeds(s), NEW k \in Feeds(s), f < k,
         IsRequestLine(LineFrom(s, f))
  PROVE  RequestLineEnd(s, f + 1) = NextFeed(s, f) + 1 /\ s[f + 1] \in TokenChars
<1> DEFINE i == f + 1
           z == LineLast(s, f)
           v == z - 1
           w == z + 1
           e == NextFeed(s, f) + 1
<1>1. /\ z \in f .. k - 1 /\ k <= Len(s) /\ s[w] \in {"CR", "LF"} /\ LineEnd(s, w) = e
  BY LineFromIs
<1>2. PICK m \in i .. z, p \in i .. z, q \in i .. z : RequestParts(s, f, z, m, p, q)
  BY RequestLineParts
<1>3. Len(s) \in Nat /\ f \in Nat /\ k \in Nat /\ e >= 0
  <2>1. NextFeed(s, f) \in Feeds(s)  BY NextFeedIs
  <2>2. Len(s) \in Nat /\ f \in Nat /\ k \in Nat /\ NextFeed(s, f) \in Nat  BY <2>1, FeedsType
  <2> QED  BY <2>2
<1> HIDE DEF z, e
<1>4. /\ i = f + 1 /\ i < m /\ m < p /\ p < q /\ q < v /\ v + 1 = z /\ w = v + 2
      /\ v + 2 <= Len(s) /\ i \in 1 .. Len(s) /\ m \in 1 .. Len(s) /\ p \in 1 .. Len(s)
      /\ q \in 1 .. Len(s) /\ v \in 1 .. Len(s)
  BY <1>1, <1>2, <1>3 DEF RequestParts
<1>5. /\ \A j \in i .. m - 1 : s[j] \in TokenChars
      /\ \A j \in m .. p - 1 : s[j] = "SP"
      /\ \A j \in p .. q - 1 : s[j] \in Visible
      /\ \A j \in q .. v - 1 : s[j] = "SP"
      /\ s[v] = "V" /\ s[v + 1] = "1"
  <2>1. z - 2 = v - 1 /\ z - 1 = v /\ z = v + 1  BY <1>4
  <2> QED  BY <1>2, <2>1 DEF RequestParts, AllIn
<1> HIDE DEF i, v, w
<1>6. s[i] \in TokenChars /\ s[m] = "SP" /\ s[p] \in Visible /\ s[q] = "SP"
  <2>1. i \in i .. m - 1 /\ m \in m .. p - 1 /\ p \in p .. q - 1 /\ q \in q .. v - 1  BY <1>4
  <2> QED  BY <1>5, <2>1
<1>7. MethodEnd(s, i) = m
  <2> DEFINE S == (Bytes \ TokenChars) \union {"SP"}
             G == {"SP"}
  <2>1. "SP" \in S /\ "SP" \in G  OBVIOUS
  <2>2. \A b \in TokenChars : b \notin S  BY DEF TokenChars
  <2>3. MethodEnd(s, i) = Reach(s, i, S, G)  BY DEF MethodEnd, Token
  <2> HIDE DEF S, G
  <2>4. m \in i .. Len(s) /\ \A j \in i .. m - 1 : s[j] \notin S  BY <1>4, <1>5, <2>2
  <2> QED  BY <1>4, <1>6, <2>1, <2>3, <2>4, ReachWhen
<1>8. PathAt(s, i) = p
  <2>1. s[p] # "SP"  BY <1>6 DEF Visible
  <2>2. SkipSpaces(s, m) = p  BY <1>4, <1>5, <2>1, SpacesWhen
  <2> QED  BY <1>4, <1>7, <2>2, PartsInOrder
<1>9. PathEnd(s, i) = q
  <2> DEFINE S == Controls \union {"SP"}
             G == {"SP"}
  <2>1. "SP" \in S /\ "SP" \in G  OBVIOUS
  <2>2. \A b \in Visible : b \notin S  BY DEF Visible
  <2>3. AdvanceToken(s, p) = Reach(s, p, S, G)  BY DEF AdvanceToken
  <2> HIDE DEF S, G
  <2>4. q \in p .. Len(s) /\ \A j \in p .. q - 1 : s[j] \notin S  BY <1>4, <1>5, <2>2
  <2>5. AdvanceToken(s, p) = q  BY <1>4, <1>6, <2>1, <2>3, <2>4, ReachWhen
  <2> QED  BY <1>4, <1>8, <2>5, PartsInOrder
<1>10. VersionAt(s, i) = v
  <2>1. SkipSpaces(s, q) = v  BY <1>4, <1>5, SpacesWhen
  <2> QED  BY <1>4, <1>9, <2>1, PartsInOrder
<1>11. VersionEnd(s, i) = w
  <2>1. Version(s, v) = w  BY <1>4, <1>5, VersionWhen
  <2>2. m # i /\ q # p /\ ~(v < 0)  BY <1>3, <1>4
  <2> QED  BY <1>7, <1>8, <1>9, <1>10, <2>1, <2>2, PartsInOrder
<1>12. RequestLineEnd(s, i) = e
  <2>1. ~(w < 0)  BY <1>3, <1>4
  <2> QED  BY <1>1, <1>11, <2>1, PartsInOrder
<1> QED  BY <1>6, <1>12 DEF i, e

\* The line of a header fails with one of the two.
LEMMA LineCodes ==
  ASSUME NEW s \in Seq(Bytes), NEW i \in 1 .. Len(s), NEW n \in Nat
  PROVE  NextLine(s, i, n) \in Codes
<1>0. Len(s) \in Nat /\ i \in Positions(s) /\ Codes \subseteq Int
  BY DEF Positions, Codes, More, Bad
<1> DEFINE c == Token(s, i, ":")
           v == ValueAt(s, i, n)
<1>1. v = IF Folded(s, i, n) THEN i ELSE IF c < 0 THEN c ELSE IF c = i THEN Bad ELSE SkipBlanks(s, c + 1)
  BY DEF ValueAt, Then
<1>2. c \in Codes /\ (c >= 0 => c \in i .. Len(s))
  <2>1. c \in Codes  BY <1>0, PartCodes DEF Token
  <2>2. ":" \in {"SP", ":"}  OBVIOUS
  <2> QED  BY <1>0, <2>1, <2>2, TokenIs
<1>3. c >= 0 => SkipBlanks(s, c + 1) \in Codes
  <2> SUFFICES ASSUME c >= 0 PROVE SkipBlanks(s, c + 1) \in Codes  OBVIOUS
  <2> HIDE DEF c
  <2>1. c + 1 \in Positions(s)  BY <1>0, <1>2 DEF Positions
  <2> QED  BY <2>1, PartCodes DEF SkipBlanks
<1> HIDE DEF c
<1>4. v \in Codes
  <2>1. i \in Codes /\ Bad \in Codes  BY DEF Codes
  <2> QED  BY <1>0, <1>1, <1>2, <1>3, <2>1
<1>5. v >= 0 => v \in i .. Len(s)  BY ValueIs
<1> DEFINE e == Eol(s, v)
<1>6. NextLine(s, i, n) = IF v < 0 THEN v ELSE LineEnd(s, e)  BY DEF NextLine, Then, ToEol
<1> HIDE DEF v
<1>7. v >= 0 => LineEnd(s, e) \in Codes
  <2> SUFFICES ASSUME v >= 0 PROVE LineEnd(s, e) \in Codes  OBVIOUS
  <2>1. v \in Positions(s) /\ v \in 1 .. Len(s)  BY <1>0, <1>5 DEF Positions
  <2>2. e \in v .. Len(s) + 1  BY <2>1, EolIs
  <2> HIDE DEF e
  <2>3. e \in Positions(s)  BY <1>0, <2>1, <2>2 DEF Positions
  <2> QED  BY <2>3, PartCodes
<1> QED  BY <1>0, <1>4, <1>6, <1>7

\* The result of parse_headers at a place, by that of the line behind it.
LEMMA HeaderRet ==
  ASSUME NEW s \in Seq(Bytes), NEW max \in Nat, NEW H, Lines(s, max, H),
         NEW at \in HeaderPlaces(s, max)
  PROVE  LET e == NextLine(s, at[1], at[2])
             to == <<e, at[2] + 1>>
         IN  /\ AtEnd(s, at[1]) \/ s[at[1]] \in {"CR", "LF"} => H[at].ret = LineEnd(s, at[1])
             /\ ~(AtEnd(s, at[1]) \/ s[at[1]] \in {"CR", "LF"}) =>
                  /\ at[2] = max => H[at].ret = Bad
                  /\ at[2] # max =>
                       /\ at[1] \in 1 .. Len(s) /\ e \in Codes
                       /\ e < 0 => H[at].ret = e
                       /\ ~(e < 0) => /\ H[at].ret = H[to].ret /\ to \in HeaderPlaces(s, max)
                                      /\ e \in Int /\ e > at[1]
<1> DEFINE i == at[1]
           n == at[2]
           e == NextLine(s, i, n)
           to == <<e, n + 1>>
<1>1. H[at] = HeaderStep(s, max, at, H)  BY DEF Lines
<1>2. i \in Positions(s) /\ Len(s) \in Nat /\ i \in Int  BY DEF HeaderPlaces, Positions
<1>3. CASE AtEnd(s, i) \/ s[i] \in {"CR", "LF"}
  <2>1. H[at] = Failed(LineEnd(s, i))  BY <1>1, <1>3 DEF HeaderStep
  <2> QED  BY <1>3, <2>1 DEF Failed
<1>4. CASE ~(AtEnd(s, i) \/ s[i] \in {"CR", "LF"}) /\ n = max
  BY <1>1, <1>4 DEF HeaderStep, Failed
<1>5. CASE ~(AtEnd(s, i) \/ s[i] \in {"CR", "LF"}) /\ n # max
  <2>1. i \in 1 .. Len(s) /\ n \in 0 .. max - 1
        /\ (~(e < 0) => to \in HeaderPlaces(s, max) /\ Len(s) + 1 - e < Len(s) + 1 - i)
    BY <1>5, LineAt
  <2>2. e \in Codes
    <3>1. n \in Nat  BY <2>1
    <3> QED  BY <2>1, <3>1, LineCodes
  <2>3. e < 0 => H[at].ret = e
    <3>1. e < 0 => H[at] = Failed(e)  BY <1>1, <1>5 DEF HeaderStep
    <3> HIDE DEF e
    <3> QED  BY <3>1 DEF Failed
  <2>4. ~(e < 0) => H[at].ret = H[to].ret /\ to \in HeaderPlaces(s, max) /\ e \in Int /\ e > i
    <3> SUFFICES ASSUME ~(e < 0)
                 PROVE  H[at].ret = H[to].ret /\ to \in HeaderPlaces(s, max) /\ e \in Int /\ e > i
      OBVIOUS
    <3> DEFINE y == H[to]
               w == <<Entry(s, i, n)>> \o y.headers
    <3>1. H[at] = [y EXCEPT !.headers = w]  BY <1>1, <1>5 DEF HeaderStep
    <3>2. to \in HeaderPlaces(s, max) /\ Len(s) + 1 - e < Len(s) + 1 - i  BY <2>1
    <3>3. y \in HeaderResults(s, max)  BY <3>2 DEF Lines
    <3> HIDE DEF y, w
    <3>4. H[at].ret = y.ret  BY <3>1, <3>3 DEF HeaderResults
    <3> HIDE DEF e
    <3>5. e \in Int  BY <2>2 DEF Codes, More, Bad
    <3>6. e > i  BY <1>2, <3>2, <3>5
    <3> QED  BY <3>2, <3>4, <3>5, <3>6 DEF y
  <2> QED  BY <1>5, <2>1, <2>2, <2>3, <2>4
<1> QED  BY <1>3, <1>4, <1>5

\* So do the headers.
LEMMA HeaderCodes ==
  ASSUME NEW s \in Seq(Bytes), NEW max \in Nat, NEW H, Lines(s, max, H),
         NEW at \in HeaderPlaces(s, max)
  PROVE  H[at].ret \in Codes
<1>0. Len(s) \in Nat /\ Codes \subseteq Int  BY DEF Codes, More, Bad
<1> DEFINE A == HeaderPlaces(s, max)
           rank == [b \in A |-> Len(s) + 1 - b[1]]
           S == {b \in A : H[b].ret \in Codes}
<1>1. rank \in [A -> Nat]
  <2> SUFFICES ASSUME NEW b \in A PROVE Len(s) + 1 - b[1] \in Nat  OBVIOUS
  <2>1. b[1] \in 1 .. Len(s) + 1  BY DEF HeaderPlaces, Positions
  <2> QED  BY <1>0, <2>1
<1>2. ASSUME NEW a \in A, \A b \in A : rank[b] < rank[a] => b \in S PROVE a \in S
  <2> DEFINE i == a[1]
             n == a[2]
             e == NextLine(s, i, n)
             to == <<e, n + 1>>
  <2>1. i \in Positions(s) /\ i \in Int  BY DEF HeaderPlaces, Positions
  <2>2. /\ AtEnd(s, i) \/ s[i] \in {"CR", "LF"} => H[a].ret = LineEnd(s, i)
        /\ ~(AtEnd(s, i) \/ s[i] \in {"CR", "LF"}) =>
             /\ n = max => H[a].ret = Bad
             /\ n # max =>
                  /\ e \in Codes
                  /\ e < 0 => H[a].ret = e
                  /\ ~(e < 0) => H[a].ret = H[to].ret /\ to \in A /\ e \in Int /\ e > i
    BY HeaderRet
  <2>3. CASE AtEnd(s, i) \/ s[i] \in {"CR", "LF"}  BY <2>1, <2>2, <2>3, PartCodes
  <2>4. CASE ~(AtEnd(s, i) \/ s[i] \in {"CR", "LF"}) /\ n = max  BY <2>2, <2>4 DEF Codes
  <2>5. CASE ~(AtEnd(s, i) \/ s[i] \in {"CR", "LF"}) /\ n # max
    <3>1. /\ e \in Codes
          /\ e < 0 => H[a].ret = e
          /\ ~(e < 0) => H[a].ret = H[to].ret /\ to \in A /\ e \in Int /\ e > i
      BY <2>2, <2>5
    <3>2. ASSUME ~(e < 0) PROVE H[to].ret \in Codes
      <4>1. rank[to] = Len(s) + 1 - e /\ rank[a] = Len(s) + 1 - i  BY <3>1, <3>2
      <4> HIDE DEF e, rank
      <4>2. rank[to] < rank[a]  BY <1>0, <2>1, <3>1, <3>2, <4>1
      <4>3. to \in S  BY <1>2, <3>1, <3>2, <4>2
      <4> QED  BY <4>3
    <3> QED  BY <3>1, <3>2
  <2> QED  BY <2>3, <2>4, <2>5
<1> HIDE DEF S, rank
<1>3. A \subseteq S  BY <1>1, <1>2, RankInduction
<1>4. at \in S  BY <1>3
<1> QED  BY <1>4 DEF S

\* parse_headers behind a line feed.
LEMMA HeadersBehind ==
  ASSUME NEW s \in Seq(Bytes), NEW f \in Feeds(s)
  PROVE  LET h == Headers(s, f + 1, MaxHeaders) IN
         /\ h.ret \in Codes
         /\ h.ret >= 0 => h.ret - 1 \in Feeds(s) /\ f < h.ret - 1
         /\ \A k \in Feeds(s) :
              f <= k => /\ h.ret = k + 1 <=> AreHeaders(LinesBetween(s, f, k))
                        /\ h.ret = k + 1 => h.headers = HeadersOf(LinesBetween(s, f, k))
<1> DEFINE h == Headers(s, f + 1, MaxHeaders)
<1>0. Len(s) \in Nat /\ f \in Nat /\ f <= Len(s) /\ MaxHeaders \in Nat
  <2>1. MaxHeaders \in Nat  BY MessagesAssumption DEF MessagesAssumption
  <2> QED  BY <2>1, FeedsType
<1> DEFINE at == <<f + 1, 0>>
<1>1. PICK H : Lines(s, MaxHeaders, H) /\ h = H[at]
  <2>1. f + 1 \in Int /\ ~(f + 1 < 0)  BY <1>0
  <2>2. PICK H : /\ Lines(s, MaxHeaders, H)
                 /\ Headers(s, f + 1, MaxHeaders) = IF f + 1 < 0 THEN Failed(f + 1) ELSE H[<<f + 1, 0>>]
    BY <1>0, <2>1, HeadersUnfold
  <2> QED  BY <2>1, <2>2
<1>2. 0 \in 0 .. MaxHeaders /\ at \in HeaderPlaces(s, MaxHeaders)
      /\ at[1] - 1 = f /\ at[2] = 0
  BY <1>0 DEF HeaderPlaces, Positions
<1>3. HeadersRight(s, H, at)  BY <1>1, <1>2, HeadersExact
<1> HIDE DEF at, h
<1>4. h.ret \in Codes /\ h.ret \in Int
  <2>1. h.ret \in Codes  BY <1>0, <1>1, <1>2, HeaderCodes
  <2> QED  BY <2>1 DEF Codes, More, Bad
<1>5. /\ h.ret >= 0 => h.ret - 1 \in Feeds(s) /\ f < h.ret - 1
      /\ \A k \in Feeds(s) :
           f < k => /\ h.ret = k + 1 <=> AreHeadersFrom(LinesBetween(s, f, k), 0)
                    /\ h.ret = k + 1 => h.headers = HeadersFrom(LinesBetween(s, f, k), 0)
  BY <1>1, <1>2, <1>3 DEF HeadersRight
<1>6. ASSUME NEW L \in Seq(Seq(Bytes))
      PROVE  /\ AreHeaders(L) <=> AreHeadersFrom(L, 0)
             /\ HeadersOf(L) = HeadersFrom(L, 0)
  <2>1. Len(L) \in Nat /\ 0 + Len(L) - 1 = Len(L) - 1 /\ DOMAIN L = 1 .. Len(L)
        /\ \A m \in 1 .. Len(L) : 0 + m = m
    OBVIOUS
  <2>2. AreHeaders(L) <=> AreHeadersFrom(L, 0)  BY <2>1 DEF AreHeaders, AreHeadersFrom
  <2>3. HeadersOf(L) = HeadersFrom(L, 0)
    <3>1. \A m \in 1 .. Len(L) - 1 : 0 + m = m  OBVIOUS
    <3> QED  BY <3>1 DEF HeadersOf, HeadersFrom
  <2> QED  BY <2>2, <2>3
<1>7. ASSUME NEW k \in Feeds(s), f <= k
      PROVE  /\ h.ret = k + 1 <=> AreHeaders(LinesBetween(s, f, k))
             /\ h.ret = k + 1 => h.headers = HeadersOf(LinesBetween(s, f, k))
  <2>1. k \in Nat  BY FeedsType
  <2>2. CASE f < k
    <3>1. LinesBetween(s, f, k) \in Seq(Seq(Bytes))  BY <2>2, LinesBetweenIs
    <3> QED  BY <1>5, <1>6, <2>2, <3>1
  <2>3. CASE ~(f < k)
    <3>1. f = k  BY <1>0, <1>7, <2>1, <2>3
    <3>2. ~AreHeaders(LinesBetween(s, f, k))  BY <3>1, NoLines DEF AreHeaders
    <3>3. h.ret # k + 1
      <4> SUFFICES ASSUME h.ret = k + 1 PROVE FALSE  OBVIOUS
      <4>1. h.ret >= 0 /\ h.ret - 1 = k  BY <2>1
      <4> QED  BY <1>5, <2>1, <3>1, <4>1
    <3> QED  BY <3>2, <3>3
  <2> QED  BY <2>2, <2>3
<1> QED  BY <1>4, <1>5, <1>7 DEF h

------------------------------------------------------------------------------
(***************************************************************************)
(* Messages: requests.                                                     *)
(***************************************************************************)
\* Where the request line begins, behind one empty line, and where it ends.
RequestStart(s) ==
  IF s = << >> THEN More ELSE IF s[1] \in {"CR", "LF"} THEN LineEnd(s, 1) ELSE 1
RequestHead(s) == Then(RequestStart(s), LAMBDA i : RequestLineEnd(s, i))

\* Both are behind a line feed.
LEMMA HeadPlaced ==
  ASSUME NEW s \in Seq(Bytes)
  PROVE  LET i == RequestStart(s)
             h == RequestHead(s)
         IN  /\ i \in Codes /\ h \in Codes
             /\ i >= 0 => i - 1 \in Feeds(s) /\ i \in Positions(s)
             /\ h >= 0 => i >= 0 /\ i - 1 < Len(s) /\ h = RequestLineEnd(s, i) /\ h - 1 \in Feeds(s)
<1> DEFINE i == RequestStart(s)
           h == RequestHead(s)
<1>0. Len(s) \in Nat /\ 0 \in Feeds(s) /\ Codes \subseteq Int /\ 1 \in Positions(s)
  <2>1. Len(s) \in Nat /\ 0 \in Feeds(s)  BY FeedsType
  <2> QED  BY <2>1 DEF Codes, More, Bad, Positions
<1>1. i \in Codes /\ (i >= 0 => i - 1 \in Feeds(s) /\ i \in Positions(s))
  <2>1. CASE s = << >>
    <3>1. i = More  BY <2>1 DEF RequestStart
    <3> QED  BY <3>1 DEF Codes, More
  <2>2. CASE s # << >> /\ s[1] \in {"CR", "LF"}
    <3>1. i = LineEnd(s, 1)  BY <2>2 DEF RequestStart
    <3>2. i \in Codes  BY <1>0, <3>1, PartCodes
    <3>3. i >= 0 => i - 1 \in Feeds(s)  BY <1>0, <3>1, LineEndFeeds
    <3>4. i >= 0 => i \in 2 .. Len(s) + 1  BY <1>0, <3>1, LineEndIs
    <3> HIDE DEF i
    <3> QED  BY <1>0, <3>2, <3>3, <3>4 DEF Positions
  <2>3. CASE s # << >> /\ s[1] \notin {"CR", "LF"}
    <3>1. i = 1  BY <2>3 DEF RequestStart
    <3> HIDE DEF i
    <3> QED  BY <1>0, <3>1 DEF Codes
  <2> QED  BY <2>1, <2>2, <2>3
<1>2. h = IF i < 0 THEN i ELSE RequestLineEnd(s, i)  BY DEF RequestHead, Then
<1> HIDE DEF i, h
<1>3. CASE i < 0
  <2>1. h = i /\ i \in Codes /\ ~(i >= 0)  BY <1>0, <1>1, <1>2, <1>3
  <2> QED  BY <2>1 DEF i, h
<1>4. CASE ~(i < 0)
  <2> DEFINE f == i - 1
  <2>1. i >= 0 /\ i \in Positions(s) /\ f \in Feeds(s) /\ h = RequestLineEnd(s, i)
    BY <1>0, <1>1, <1>2, <1>4
  <2>2. i = f + 1  BY <1>0, <1>1
  <2> HIDE DEF f
  <2>3. h \in Codes  BY <2>1, PartsPlaced
  <2>4. ASSUME h >= 0 PROVE f < Len(s) /\ h - 1 \in Feeds(s)
    <3>1. f < Len(s)
      <4> DEFINE m == MethodEnd(s, i)
                 p == PathAt(s, i)
                 q == PathEnd(s, i)
                 v == VersionAt(s, i)
                 w == VersionEnd(s, i)
      <4>1. /\ m >= 0 => m \in i .. Len(s)
            /\ p >= 0 => m >= 0
            /\ q >= 0 => p >= 0
            /\ v >= 0 => q >= 0
            /\ w >= 0 => v >= 0
            /\ h >= 0 => w >= 0
        BY <2>1, PartsPlaced
      <4> HIDE DEF m, p, q, v, w
      <4>2. m \in i .. Len(s)  BY <2>4, <4>1
      <4>3. f \in Nat  BY <2>1, FeedsType
      <4> QED  BY <1>0, <2>2, <4>2, <4>3
    <3>2. RequestLineEnd(s, f + 1) >= 0  BY <2>1, <2>2, <2>4
    <3>3. RequestLineEnd(s, f + 1) - 1 \in Feeds(s)  BY <2>1, <3>1, <3>2, RequestLineGiven
    <3> QED  BY <2>1, <2>2, <3>1, <3>3
  <2> QED  BY <1>1, <2>1, <2>3, <2>4 DEF i, h, f
<1> QED  BY <1>3, <1>4

\* What parse_request gives, in terms of the request line and the headers.
LEMMA RequestWritten ==
  ASSUME NEW s \in Seq(Bytes)
  PROVE  LET r == Whole(s)
             i == RequestStart(s)
             h == Headers(s, RequestHead(s), MaxHeaders)
         IN  /\ r.ret = h.ret /\ r.ret \in Codes
             /\ r.ret >= 0 =>
                  /\ RequestHead(s) >= 0 /\ r.ret - 1 \in Feeds(s) /\ RequestHead(s) < r.ret
                  /\ r.method = SubSeq(s, i, MethodEnd(s, i) - 1)
                  /\ r.path = SubSeq(s, PathAt(s, i), PathEnd(s, i) - 1)
                  /\ r.headers = h.headers
<1> DEFINE start == CASE s = << >> -> More
                      [] s # << >> /\ s[1] \in {"CR", "LF"} -> LineEnd(s, 1)
                      [] s # << >> /\ s[1] \notin {"CR", "LF"} -> 1
           method == Then(start, LAMBDA i : Token(s, i, "SP"))
           target == Then(method, LAMBDA i : SkipSpaces(s, i))
           pathEnd == Then(target, LAMBDA i : AdvanceToken(s, i))
           version == Then(pathEnd, LAMBDA i : SkipSpaces(s, i))
           line == Then(version, LAMBDA i : IF method = start \/ pathEnd = target THEN Bad
                                            ELSE Version(s, i))
           h0 == Then(line, LAMBDA i : LineEnd(s, i))
           h == Headers(s, h0, MaxHeaders)
           a == RequestStart(s)
           r == ParseRequest(s, MaxHeaders)
<1>1. r = IF h.ret < 0 THEN NoRequest(h.ret)
          ELSE [ret |-> h.ret, method |-> SubSeq(s, start, method - 1),
                path |-> SubSeq(s, target, pathEnd - 1), headers |-> h.headers]
  BY DEF ParseRequest
<1>2. start = a
  <2>1. CASE s = << >>  BY <2>1 DEF RequestStart
  <2>2. CASE s # << >> /\ s[1] \in {"CR", "LF"}  BY <2>2 DEF RequestStart
  <2>3. CASE s # << >> /\ s[1] \notin {"CR", "LF"}  BY <2>3 DEF RequestStart
  <2> QED  BY <2>1, <2>2, <2>3
<1> HIDE DEF start
<1>3. method = IF start < 0 THEN start ELSE MethodEnd(s, start)  BY DEF Then, MethodEnd
<1> HIDE DEF method
<1>4. target = IF method < 0 THEN method ELSE SkipSpaces(s, method)  BY DEF Then
<1> HIDE DEF target
<1>5. pathEnd = IF target < 0 THEN target ELSE AdvanceToken(s, target)  BY DEF Then
<1> HIDE DEF pathEnd
<1>6. version = IF pathEnd < 0 THEN pathEnd ELSE SkipSpaces(s, pathEnd)  BY DEF Then
<1> HIDE DEF version
<1>7. line = IF version < 0 THEN version
             ELSE IF method = start \/ pathEnd = target THEN Bad ELSE Version(s, version)
  BY DEF Then
<1> HIDE DEF line
<1>8. h0 = IF line < 0 THEN line ELSE LineEnd(s, line)  BY DEF Then
<1>9. h = Headers(s, h0, MaxHeaders)  OBVIOUS
<1> HIDE DEF h0, h, a, r
<1>10. h0 = RequestHead(s)
       /\ (start >= 0 => method = MethodEnd(s, a) /\ target = PathAt(s, a) /\ pathEnd = PathEnd(s, a))
  <2>1. RequestHead(s) = IF start < 0 THEN start ELSE RequestLineEnd(s, start)
    BY <1>2 DEF RequestHead, Then, a
  <2>2. start \in Int  BY <1>2, HeadPlaced DEF a, Codes, More, Bad
  <2>3. CASE start < 0
    <3>1. method = start /\ target = start /\ pathEnd = start /\ version = start /\ line = start
      BY <1>3, <1>4, <1>5, <1>6, <1>7, <2>3
    <3> QED  BY <1>8, <2>1, <2>2, <2>3, <3>1
  <2>4. CASE ~(start < 0)
    <3>1. method = MethodEnd(s, start)  BY <1>3, <2>4
    <3>2. target = PathAt(s, start)  BY <1>4, <3>1, PartsInOrder
    <3>3. pathEnd = PathEnd(s, start)  BY <1>5, <3>2, PartsInOrder
    <3>4. version = VersionAt(s, start)  BY <1>6, <3>3, PartsInOrder
    <3>5. line = VersionEnd(s, start)  BY <1>7, <3>1, <3>2, <3>3, <3>4, PartsInOrder
    <3>6. h0 = RequestLineEnd(s, start)  BY <1>8, <3>5, PartsInOrder
    <3> QED  BY <1>2, <2>1, <2>4, <3>1, <3>2, <3>3, <3>6
  <2> QED  BY <2>3, <2>4
<1>11. h0 \in Codes /\ (h0 >= 0 => a >= 0 /\ h0 - 1 \in Feeds(s))
  BY <1>10, HeadPlaced DEF a
<1>12. Codes \subseteq Int  BY DEF Codes, More, Bad
<1>13. h.ret \in Codes /\ (h.ret >= 0 => h0 >= 0 /\ h.ret - 1 \in Feeds(s) /\ h0 < h.ret)
  <2>1. CASE h0 < 0
    <3>1. h0 \in Int /\ MaxHeaders \in Nat
      <4>1. MaxHeaders \in Nat  BY MessagesAssumption DEF MessagesAssumption
      <4> QED  BY <1>11, <1>12, <4>1
    <3>2. h = Failed(h0)  BY <1>9, <2>1, <3>1, HeadersUnfold
    <3>3. h.ret = h0  BY <3>2 DEF Failed
    <3> QED  BY <1>11, <2>1, <3>1, <3>3
  <2>2. CASE ~(h0 < 0)
    <3> DEFINE f == h0 - 1
    <3>1. h0 \in Int /\ h0 >= 0  BY <1>11, <1>12, <2>2
    <3>2. f \in Feeds(s) /\ h0 = f + 1  BY <1>11, <3>1
    <3> HIDE DEF f
    <3>3. h = Headers(s, f + 1, MaxHeaders)  BY <1>9, <3>2
    <3>4. h.ret \in Codes /\ (h.ret >= 0 => h.ret - 1 \in Feeds(s) /\ f < h.ret - 1)
      BY <3>2, <3>3, HeadersBehind
    <3>5. h.ret \in Int  BY <1>12, <3>4
    <3>6. f \in Nat  BY <3>2, FeedsType
    <3> QED  BY <3>1, <3>2, <3>4, <3>5, <3>6
  <2> QED  BY <2>1, <2>2
<1>14. r.ret = h.ret  BY <1>1 DEF NoRequest
<1>15. ASSUME r.ret >= 0
       PROVE  /\ r.method = SubSeq(s, start, method - 1) /\ r.headers = h.headers
              /\ r.path = SubSeq(s, target, pathEnd - 1) /\ start >= 0
  <2>1. ~(h.ret < 0)
    <3>1. h.ret \in Int  BY <1>12, <1>13
    <3>2. h.ret >= 0  BY <1>14, <1>15
    <3> QED  BY <3>1, <3>2
  <2>2. start >= 0  BY <1>2, <1>11, <1>13, <1>14, <1>15
  <2> QED  BY <1>1, <2>1, <2>2
<1>16. /\ r.ret = h.ret /\ r.ret \in Codes
       /\ r.ret >= 0 =>
            /\ h0 >= 0 /\ r.ret - 1 \in Feeds(s) /\ h0 < r.ret
            /\ r.method = SubSeq(s, a, MethodEnd(s, a) - 1)
            /\ r.path = SubSeq(s, PathAt(s, a), PathEnd(s, a) - 1)
            /\ r.headers = h.headers
  BY <1>2, <1>10, <1>13, <1>14, <1>15
<1> QED  BY <1>9, <1>10, <1>16 DEF Whole, r, a

\* The line feed in front of the request line.
HeadFeed(s) == IF LineFrom(s, 0) = << >> THEN NextFeed(s, 0) ELSE 0

\* The lines of a request, with one empty line in front of them or none.
LEMMA RequestLinesIs ==
  ASSUME NEW s \in Seq(Bytes), NEW k \in DOMAIN s, s[k] = "LF"
  PROVE  LET f == HeadFeed(s) IN
         /\ k \in Feeds(s) /\ f \in Feeds(s) /\ f <= k
         /\ RequestLines(Prefix(s, k)) = LinesBetween(s, f, k)
         /\ RequestStart(s) >= 0 => RequestStart(s) = f + 1
         /\ ~(RequestStart(s) >= 0) => s[f + 1] \notin TokenChars
<1> DEFINE L == LinesBetween(s, 0, k)
           e == NextFeed(s, 0)
           i == RequestStart(s)
<1>0. Len(s) \in Nat /\ k \in 1 .. Len(s) /\ k \in Feeds(s) /\ 0 \in Feeds(s) /\ 0 < k
  <2>1. k \in DOMAIN s /\ k \in Feeds(s)  BY DEF Feeds
  <2>2. 0 \in Feeds(s)  BY FeedsType
  <2> QED  BY <2>1, <2>2
<1>1. LinesOf(Prefix(s, k)) = L  BY PrefixLines
<1>2. L # << >> /\ L[1] = LineFrom(s, 0) /\ Without1(L) = LinesBetween(s, e, k)
  BY <1>0, LinesBetweenIs
<1>3. e \in Feeds(s) /\ e <= k  BY <1>0, NextFeedIs
<1>4. e \in Nat  BY <1>3, FeedsType
<1>5. /\ LineEnd(s, 1) >= 0 <=> LineFrom(s, 0) = << >>
      /\ LineEnd(s, 1) >= 0 => LineEnd(s, 1) = e + 1
      /\ LineFrom(s, 0) = << >> => s[1] \in {"CR", "LF"}
  <2>1. 0 + 1 = 1  OBVIOUS
  <2> QED  BY <1>0, <2>1, EmptyLine
<1>6. s # << >>  BY <1>0
<1>7. i = IF s[1] \in {"CR", "LF"} THEN LineEnd(s, 1) ELSE 1  BY <1>6 DEF RequestStart
<1> HIDE DEF L, e, i
<1>8. CASE LineFrom(s, 0) = << >>
  <2>1. HeadFeed(s) = e  BY <1>8 DEF HeadFeed, e
  <2>2. RequestLines(Prefix(s, k)) = LinesBetween(s, e, k)  BY <1>1, <1>2, <1>8 DEF RequestLines
  <2>3. i = e + 1 /\ i >= 0  BY <1>4, <1>5, <1>7, <1>8
  <2> QED  BY <1>0, <1>3, <2>1, <2>2, <2>3 DEF i
<1>9. CASE LineFrom(s, 0) # << >>
  <2>1. HeadFeed(s) = 0  BY <1>9 DEF HeadFeed
  <2>2. RequestLines(Prefix(s, k)) = LinesBetween(s, 0, k)
    BY <1>1, <1>2, <1>9 DEF RequestLines, L
  <2>3. i >= 0 => i = 0 + 1  BY <1>5, <1>7, <1>9
  <2>4. ~(i >= 0) => s[0 + 1] \notin TokenChars  BY <1>7 DEF TokenChars
  <2>5. 0 <= k  BY <1>0
  <2> QED  BY <1>0, <2>1, <2>2, <2>3, <2>4, <2>5 DEF i
<1> QED  BY <1>8, <1>9

\* A part of a text that ends with another byte than a line feed.
LEMMA PrefixEnds ==
  ASSUME NEW s \in Seq(Bytes), NEW k \in DOMAIN s
  PROVE  EndsLine(Prefix(s, k)) <=> s[k] = "LF"
<1> DEFINE B == Bytes
           a == 1
           t == SubSeq(s, a, k)
<1>1. Len(s) \in Nat /\ k \in 1 .. Len(s) /\ s \in Seq(B) /\ a \in 1 .. Len(s) + 1
      /\ k \in a - 1 .. Len(s) /\ Prefix(s, k) = t /\ k - a + 1 = k /\ a + k - 1 = k
  BY DEF Prefix
<1> HIDE DEF B, a
<1>2. t \in Seq(B) /\ Len(t) = k - a + 1 /\ \A j \in 1 .. k - a + 1 : t[j] = s[a + j - 1]
  <2>1. s \in Seq(B) /\ a \in 1 .. Len(s) + 1 /\ k \in a - 1 .. Len(s)  BY <1>1
  <2> QED  BY <2>1, PartOf
<1> HIDE DEF t
<1>3. Len(t) = k /\ t[k] = s[k]  BY <1>1, <1>2
<1>4. t # << >>
  <2>1. t = << >> => Len(t) = 0  OBVIOUS
  <2> QED  BY <1>1, <1>3, <2>1
<1> QED  BY <1>1, <1>3, <1>4 DEF EndsLine

\* parse_request takes exactly the requests.
LEMMA RequestExact ==
  ASSUME NEW s \in Seq(Bytes), NEW k \in DOMAIN s
  PROVE  IsRequest(Prefix(s, k)) <=> Whole(s).ret = k + 1
<1> DEFINE r == Whole(s)
           i == RequestStart(s)
           h0 == RequestHead(s)
           f == HeadFeed(s)
           g == NextFeed(s, f)
           L == LinesBetween(s, f, k)
           W == LinesBetween(s, g, k)
<1>0. Len(s) \in Nat /\ k \in 1 .. Len(s) /\ k \in Nat /\ Codes \subseteq Int
  BY DEF Codes, More, Bad
<1>1. /\ r.ret = Headers(s, h0, MaxHeaders).ret /\ r.ret \in Codes
      /\ r.ret >= 0 => h0 >= 0 /\ r.ret - 1 \in Feeds(s) /\ h0 < r.ret
  BY RequestWritten
<1>2. CASE s[k] # "LF"
  <2>1. ~IsRequest(Prefix(s, k))  BY <1>2, PrefixEnds DEF IsRequest
  <2>2. r.ret # k + 1
    <3> SUFFICES ASSUME r.ret = k + 1 PROVE FALSE  OBVIOUS
    <3> HIDE DEF r, h0
    <3>1. r.ret >= 0 /\ r.ret - 1 = k  BY <1>0
    <3>2. k \in Feeds(s)  BY <1>1, <3>1
    <3> QED  BY <1>0, <1>2, <3>2 DEF Feeds
  <2> QED  BY <2>1, <2>2
<1>3. CASE s[k] = "LF"
  <2>1. /\ k \in Feeds(s) /\ f \in Feeds(s) /\ f <= k /\ RequestLines(Prefix(s, k)) = L
        /\ i >= 0 => i = f + 1
        /\ ~(i >= 0) => s[f + 1] \notin TokenChars
    BY <1>3, RequestLinesIs
  <2>2. /\ i \in Codes /\ h0 \in Codes
        /\ h0 >= 0 => i >= 0 /\ i - 1 < Len(s) /\ h0 = RequestLineEnd(s, i)
    BY HeadPlaced
  <2>3. h0 = IF i < 0 THEN i ELSE RequestLineEnd(s, i)  BY DEF RequestHead, Then
  <2>4. EndsLine(Prefix(s, k))  BY <1>3, PrefixEnds
  <2>5. f \in Nat  BY <2>1, FeedsType
  <2>6. IsRequest(Prefix(s, k)) <=> L # << >> /\ IsRequestLine(L[1]) /\ AreHeaders(Without1(L))
    BY <2>1, <2>4 DEF IsRequest
  <2> HIDE DEF r, i, h0, f
  <2>7. CASE f = k
    <3>1. L = << >>  BY <2>1, <2>7, NoLines
    <3>2. r.ret # k + 1
      <4> SUFFICES ASSUME r.ret = k + 1 PROVE FALSE  OBVIOUS
      <4>1. h0 >= 0 /\ h0 < k + 1  BY <1>0, <1>1
      <4>2. i = f + 1 /\ f < Len(s) /\ h0 = RequestLineEnd(s, f + 1)
        BY <1>0, <2>1, <2>2, <2>5, <4>1
      <4>3. f < RequestLineEnd(s, f + 1) - 1  BY <2>1, <4>1, <4>2, RequestLineGiven
      <4>4. h0 \in Int  BY <1>0, <2>2
      <4> QED  BY <1>0, <2>7, <4>1, <4>2, <4>3, <4>4
    <3> QED  BY <2>6, <3>1, <3>2 DEF r
  <2>8. CASE f # k
    <3>1. f < k  BY <1>0, <2>1, <2>5, <2>8
    <3>2. L # << >> /\ L[1] = LineFrom(s, f) /\ Without1(L) = W
      BY <2>1, <3>1, LinesBetweenIs
    <3>3. g \in Feeds(s) /\ f < g /\ g <= k  BY <2>1, <3>1, NextFeedIs
    <3>4. g \in Nat  BY <3>3, FeedsType
    <3> HIDE DEF L, g
    <3>5. ASSUME IsRequestLine(LineFrom(s, f)) PROVE h0 = g + 1
      <4>1. RequestLineEnd(s, f + 1) = g + 1 /\ s[f + 1] \in TokenChars
        BY <2>1, <3>1, <3>5, RequestLineTaken DEF g
      <4>2. i = f + 1  BY <2>1, <4>1
      <4> QED  BY <2>3, <2>5, <4>1, <4>2
    <3>6. ASSUME h0 >= 0 PROVE IsRequestLine(LineFrom(s, f))
      <4>1. i = f + 1 /\ f < Len(s) /\ RequestLineEnd(s, f + 1) >= 0
        BY <1>0, <2>1, <2>2, <2>5, <3>6
      <4> DEFINE z == VersionEnd(s, f + 1) - 1
                 m == MethodEnd(s, f + 1)
                 p == PathAt(s, f + 1)
                 q == PathEnd(s, f + 1)
      <4>2. /\ LineLast(s, f) = z /\ m \in f + 1 .. z /\ p \in f + 1 .. z /\ q \in f + 1 .. z
            /\ RequestParts(s, f, z, m, p, q)
        BY <2>1, <4>1, RequestLineGiven
      <4> HIDE DEF z, m, p, q
      <4> QED  BY <2>1, <3>1, <4>2, RequestLineParts
    <3>7. ASSUME h0 = g + 1 PROVE r.ret = k + 1 <=> AreHeaders(W)
      <4>1. r.ret = Headers(s, g + 1, MaxHeaders).ret  BY <1>1, <3>7
      <4> QED  BY <2>1, <3>3, <4>1, HeadersBehind
    <3>8. r.ret = k + 1 => h0 >= 0
      <4> SUFFICES ASSUME r.ret = k + 1 PROVE h0 >= 0  OBVIOUS
      <4>1. r.ret >= 0  BY <1>0
      <4> QED  BY <1>1, <4>1
    <3> QED  BY <2>6, <3>2, <3>5, <3>6, <3>7, <3>8 DEF r
  <2> QED  BY <2>7, <2>8
<1> QED  BY <1>2, <1>3

\* What it gives of a request is what the lines say.
LEMMA RequestFields ==
  ASSUME NEW s \in Seq(Bytes), Whole(s).ret >= 0
  PROVE  LET r == Whole(s)
             k == r.ret - 1
             L == RequestLines(Prefix(s, k))
             l == L[1]
         IN  /\ k \in DOMAIN s
             /\ r.method = Prefix(l, FirstOf(l, 1, {"SP"}) - 1)
             /\ r.path = SubSeq(l, PathFrom(l), FirstOf(l, PathFrom(l), {"SP"}) - 1)
             /\ r.headers = HeadersOf(Without1(L))
<1> DEFINE r == Whole(s)
           k == r.ret - 1
           h0 == RequestHead(s)
           f == HeadFeed(s)
           g == NextFeed(s, f)
           L == RequestLines(Prefix(s, k))
           l == LineFrom(s, f)
           z == VersionEnd(s, f + 1) - 1
           m == MethodEnd(s, f + 1)
           p == PathAt(s, f + 1)
           q == PathEnd(s, f + 1)
           i == RequestStart(s)
<1>1. /\ r.ret = Headers(s, h0, MaxHeaders).ret /\ r.ret \in Codes
      /\ h0 >= 0 /\ r.ret - 1 \in Feeds(s) /\ h0 < r.ret
      /\ r.method = SubSeq(s, i, MethodEnd(s, i) - 1)
      /\ r.path = SubSeq(s, PathAt(s, i), PathEnd(s, i) - 1)
      /\ r.headers = Headers(s, h0, MaxHeaders).headers
  BY RequestWritten
<1>2. i >= 0 /\ i - 1 < Len(s) /\ h0 = RequestLineEnd(s, i) /\ h0 - 1 \in Feeds(s) /\ i \in Codes
  BY <1>1, HeadPlaced
<1>3. Len(s) \in Nat /\ k \in Nat /\ h0 - 1 \in Nat /\ k <= Len(s) /\ r.ret \in Int /\ h0 \in Int
  <2>1. Len(s) \in Nat /\ k \in Nat /\ h0 - 1 \in Nat /\ k <= Len(s)  BY <1>1, <1>2, FeedsType
  <2>2. r.ret \in Int /\ h0 \in Int
    <3>1. h0 \in Codes  BY HeadPlaced
    <3> QED  BY <1>1, <3>1 DEF Codes, More, Bad
  <2> QED  BY <2>1, <2>2
<1> HIDE DEF r, h0
<1>4. k \in DOMAIN s /\ s[k] = "LF" /\ k \in 1 .. Len(s)
  <2>1. k # 0  BY <1>1, <1>3
  <2>2. k \in Feeds(s)  BY <1>1
  <2> QED  BY <2>1, <2>2 DEF Feeds
<1>5. f \in Feeds(s) /\ f <= k /\ L = LinesBetween(s, f, k) /\ i = f + 1 /\ k \in Feeds(s)
  BY <1>2, <1>4, RequestLinesIs
<1>6. f \in Nat  BY <1>5, FeedsType
<1> HIDE DEF i, f, k, L
<1>7. f < Len(s) /\ h0 = RequestLineEnd(s, f + 1) /\ RequestLineEnd(s, f + 1) >= 0
  BY <1>1, <1>2, <1>3, <1>5, <1>6
<1>8. /\ f < h0 - 1 /\ g = h0 - 1 /\ LineLast(s, f) = z
      /\ m \in f + 1 .. z /\ p \in f + 1 .. z /\ q \in f + 1 .. z
      /\ RequestParts(s, f, z, m, p, q)
  BY <1>5, <1>7, RequestLineGiven
<1>9. f < k
  <2>1. k = r.ret - 1  BY DEF k
  <2> QED  BY <1>1, <1>3, <1>6, <1>8, <2>1
<1>10. L[1] = l /\ Without1(L) = LinesBetween(s, g, k)
  BY <1>5, <1>9, LinesBetweenIs
<1>11. g \in Feeds(s) /\ g <= k  BY <1>5, <1>9, NextFeedIs
<1>12. r.headers = HeadersOf(Without1(L))
  <2>1. h0 = g + 1 /\ r.ret = k + 1  BY <1>3, <1>8 DEF k
  <2> HIDE DEF g
  <2> QED  BY <1>1, <1>5, <1>10, <1>11, <2>1, HeadersBehind
<1>13. z \in f .. k - 1 /\ l \in Seq(Bytes) /\ Len(l) = z - f /\ \A j \in 1 .. z - f : l[j] = s[f + j]
  BY <1>5, <1>8, <1>9, LineFromIs
<1>14. \A a \in 1 .. z - f + 1 : \A b \in a - 1 .. z - f : SubSeq(l, a, b) = SubSeq(s, f + a, f + b)
  <2> SUFFICES ASSUME NEW a \in 1 .. z - f + 1, NEW b \in a - 1 .. z - f
               PROVE  SubSeq(l, a, b) = SubSeq(s, f + a, f + b)
    OBVIOUS
  <2>1. a \in 1 .. Len(l) + 1 /\ b \in a - 1 .. Len(l)  BY <1>13
  <2> QED  BY <1>5, <1>9, <2>1, LinePart
<1> HIDE DEF l, z, m, p, q
<1>15. /\ f + 1 < m /\ m < p /\ p < q /\ q <= z - 2
       /\ \A j \in f + 1 .. m - 1 : s[j] \in TokenChars
       /\ \A j \in m .. p - 1 : s[j] = "SP"
  BY <1>8 DEF RequestParts, AllIn
<1>16. /\ m \in Nat /\ p \in Nat /\ q \in Nat /\ z \in Nat
       /\ s[m] = "SP" /\ s[p - 1] = "SP"
  <2>1. m \in Nat /\ p \in Nat /\ q \in Nat /\ z \in Nat  BY <1>3, <1>6, <1>8, <1>13
  <2>2. m \in m .. p - 1 /\ p - 1 \in m .. p - 1  BY <1>15, <2>1
  <2> QED  BY <1>15, <2>1, <2>2
<1>17. FirstOf(l, 1, {"SP"}) = m - f
  <2> DEFINE G == {"SP"}
             a == 1
             b == m - f
  <2>1. "SP" \in G /\ \A c \in TokenChars : c \notin G  BY DEF TokenChars
  <2>2. a \in 1 .. Len(l) /\ b \in a .. Len(l) /\ b \in 1 .. z - f /\ f + b = m
    BY <1>6, <1>13, <1>15, <1>16
  <2>3. \A j \in a .. b - 1 : j \in 1 .. z - f /\ f + j \in f + 1 .. m - 1
    BY <1>6, <1>13, <1>15, <1>16
  <2> HIDE DEF G, a, b
  <2>4. l[b] \in G  BY <1>13, <1>16, <2>1, <2>2
  <2>5. \A j \in a .. b - 1 : l[j] \notin G  BY <1>13, <1>15, <2>1, <2>3
  <2>6. FirstOf(l, a, G) = b  BY <1>13, <2>2, <2>4, <2>5, FirstOfWhen
  <2> QED  BY <2>6 DEF G, a, b
<1>18. r.method = Prefix(l, FirstOf(l, 1, {"SP"}) - 1)
  <2> DEFINE b == m - f - 1
  <2>1. 1 \in 1 .. z - f + 1 /\ b \in 1 - 1 .. z - f /\ f + b = m - 1
    BY <1>6, <1>13, <1>15, <1>16
  <2> HIDE DEF b
  <2>2. SubSeq(l, 1, b) = SubSeq(s, f + 1, m - 1)  BY <1>14, <2>1
  <2>3. r.method = SubSeq(s, f + 1, m - 1)  BY <1>1, <1>5 DEF m
  <2> QED  BY <1>17, <2>2, <2>3 DEF Prefix, b
<1>19. /\ s[q] = "SP" /\ s[p] \in Visible /\ \A j \in p .. q - 1 : s[j] \in Visible
  <2>1. AllIn(s, p, q - 1, Visible) /\ AllIn(s, q, z - 2, {"SP"})  BY <1>8 DEF RequestParts
  <2>2. q \in q .. z - 2 /\ p \in p .. q - 1  BY <1>15, <1>16
  <2> QED  BY <2>1, <2>2 DEF AllIn
<1>20. PathFrom(l) = p - f
  <2> DEFINE G == Bytes \ {"SP"}
             a == m - f
             b == p - f
  <2>1. "SP" \notin G /\ \A c \in Visible : c \in G  BY DEF Visible
  <2>2. /\ a \in 1 .. Len(l) /\ b \in a .. Len(l) /\ b \in 1 .. z - f /\ f + b = p
    BY <1>6, <1>13, <1>15, <1>16
  <2>3. \A j \in a .. b - 1 : j \in 1 .. z - f /\ f + j \in m .. p - 1
    BY <1>6, <1>13, <1>15, <1>16
  <2>4. PathFrom(l) = FirstOf(l, a, G)  BY <1>17 DEF PathFrom
  <2> HIDE DEF G, a, b
  <2>5. l[b] \in G  BY <1>13, <1>19, <2>1, <2>2
  <2>6. \A j \in a .. b - 1 : l[j] \notin G  BY <1>13, <1>15, <2>1, <2>3
  <2>7. FirstOf(l, a, G) = b  BY <1>13, <2>2, <2>5, <2>6, FirstOfWhen
  <2> QED  BY <2>4, <2>7 DEF b
<1>21. FirstOf(l, p - f, {"SP"}) = q - f
  <2> DEFINE G == {"SP"}
             a == p - f
             b == q - f
  <2>1. "SP" \in G /\ \A c \in Visible : c \notin G  BY DEF Visible
  <2>2. a \in 1 .. Len(l) /\ b \in a .. Len(l) /\ b \in 1 .. z - f /\ f + b = q
    BY <1>6, <1>13, <1>15, <1>16
  <2>3. \A j \in a .. b - 1 : j \in 1 .. z - f /\ f + j \in p .. q - 1
    BY <1>6, <1>13, <1>15, <1>16
  <2> HIDE DEF G, a, b
  <2>4. l[b] \in G  BY <1>13, <1>19, <2>1, <2>2
  <2>5. \A j \in a .. b - 1 : l[j] \notin G  BY <1>13, <1>19, <2>1, <2>3
  <2>6. FirstOf(l, a, G) = b  BY <1>13, <2>2, <2>4, <2>5, FirstOfWhen
  <2> QED  BY <2>6 DEF G, a, b
<1>22. r.path = SubSeq(l, PathFrom(l), FirstOf(l, PathFrom(l), {"SP"}) - 1)
  <2> DEFINE a == p - f
             b == q - f - 1
  <2>1. a \in 1 .. z - f + 1 /\ b \in a - 1 .. z - f /\ f + a = p /\ f + b = q - 1
    BY <1>6, <1>13, <1>15, <1>16
  <2> HIDE DEF a, b
  <2>2. SubSeq(l, a, b) = SubSeq(s, p, q - 1)  BY <1>14, <2>1
  <2>3. r.path = SubSeq(s, p, q - 1)  BY <1>1, <1>5 DEF p, q
  <2> QED  BY <1>20, <1>21, <2>2, <2>3 DEF a, b
<1> QED  BY <1>4, <1>10, <1>12, <1>18, <1>22 DEF r, k, L, l

------------------------------------------------------------------------------
(***************************************************************************)
(* Messages: responses.                                                    *)
(***************************************************************************)
\* The parts of the parser of a status line, one behind the other.
AfterVersion(s) == Then(Version(s, 1), LAMBDA i : IF s[i] = "SP" THEN i ELSE Bad)
StatusAt(s) == Then(AfterVersion(s), LAMBDA i : SkipSpaces(s, i))
StatusEnd(s) == Then(StatusAt(s), LAMBDA i : Status(s, i))
StatusLineEnd(s) == Then(StatusEnd(s), LAMBDA i : ToEol(s, i))
MessageText(s) == SubSeq(s, StatusEnd(s), Eol(s, StatusEnd(s)) - 1)
ResponseHead(s) ==
  Then(StatusLineEnd(s),
       LAMBDA i : IF MessageText(s) # << >> /\ MessageText(s)[1] # "SP" THEN Bad ELSE i)

\* Each part stops with the first that fails.
LEMMA StatusInOrder ==
  ASSUME NEW s
  PROVE  /\ AfterVersion(s) = IF Version(s, 1) < 0 THEN Version(s, 1)
                              ELSE IF s[Version(s, 1)] = "SP" THEN Version(s, 1) ELSE Bad
         /\ StatusAt(s) = IF AfterVersion(s) < 0 THEN AfterVersion(s)
                          ELSE SkipSpaces(s, AfterVersion(s))
         /\ StatusEnd(s) = IF StatusAt(s) < 0 THEN StatusAt(s) ELSE Status(s, StatusAt(s))
         /\ StatusLineEnd(s) = IF StatusEnd(s) < 0 THEN StatusEnd(s)
                               ELSE LineEnd(s, Eol(s, StatusEnd(s)))
         /\ ResponseHead(s) =
              IF StatusLineEnd(s) < 0 THEN StatusLineEnd(s)
              ELSE IF MessageText(s) # << >> /\ MessageText(s)[1] # "SP" THEN Bad
              ELSE StatusLineEnd(s)
BY DEF AfterVersion, StatusAt, StatusEnd, StatusLineEnd, ResponseHead, Then, ToEol

\* Where the parts of a status line are, and what is in them.
LEMMA StatusPlaced ==
  ASSUME NEW s \in Seq(Bytes)
  PROVE  LET a == StatusAt(s)
             e == Eol(s, a + 3)
             h == ResponseHead(s)
         IN  /\ h \in Codes
             /\ h >= 0 =>
                  /\ s[1] = "V" /\ s[2] = "1" /\ a \in 4 .. Len(s) /\ AllIn(s, 3, a - 1, {"SP"})
                  /\ e \in a + 3 .. Len(s) /\ AllIn(s, a, a + 2, {"1"})
                  /\ AllIn(s, a + 3, e - 1, Bytes \ (Controls \ {"HT"}))
                  /\ a + 3 < e => s[a + 3] = "SP"
                  /\ h = LineEnd(s, e)
<1> DEFINE u == Version(s, 1)
           b == AfterVersion(s)
           a == StatusAt(s)
           w == StatusEnd(s)
           y == StatusLineEnd(s)
           h == ResponseHead(s)
           e == Eol(s, w)
           x == MessageText(s)
<1>0. Len(s) \in Nat /\ Codes \subseteq Int /\ More \in Codes /\ Bad \in Codes /\ Bad < 0
      /\ \A j \in 1 .. Len(s) : s[j] \in Bytes
  BY DEF Codes, More, Bad
<1>1. /\ b = IF u < 0 THEN u ELSE IF s[u] = "SP" THEN u ELSE Bad
      /\ a = IF b < 0 THEN b ELSE SkipSpaces(s, b)
      /\ w = IF a < 0 THEN a ELSE Status(s, a)
      /\ y = IF w < 0 THEN w ELSE LineEnd(s, e)
      /\ h = IF y < 0 THEN y ELSE IF x # << >> /\ x[1] # "SP" THEN Bad ELSE y
  BY StatusInOrder
<1>2. u \in Codes /\ (u >= 0 => u = 3 /\ s[1] = "V" /\ s[2] = "1" /\ 2 <= Len(s))
  <2>1. CASE Len(s) = 0
    <3> DEFINE V == Versions(s, 1)
    <3>1. V = {}  BY <2>1 DEF Versions
    <3>2. Cardinality(V) = 0  BY <3>1, FS_EmptySet
    <3>3. Width(s, 1) = Len(s) + 1 - 1 + 6 * Cardinality(V)  BY DEF Width
    <3> HIDE DEF V
    <3>4. Width(s, 1) < 9  BY <2>1, <3>2, <3>3
    <3>5. u = More  BY <3>4 DEF Version
    <3> QED  BY <1>0, <3>5 DEF More
  <2>2. CASE Len(s) # 0
    <3> DEFINE i == 1
    <3>1. i \in 1 .. Len(s) /\ i + 2 = 3 /\ i + 1 = 2  BY <1>0, <2>2
    <3> HIDE DEF i
    <3>2. Version(s, i) >= 0 => i + 1 <= Len(s) /\ Version(s, i) = i + 2 /\ s[i] = "V" /\ s[i + 1] = "1"
      BY <3>1, VersionIs
    <3>3. Version(s, i) \in {More, Bad, i + 2}  BY DEF Version
    <3>4. i + 2 \in Codes  BY <3>1 DEF Codes
    <3> QED  BY <1>0, <3>1, <3>2, <3>3, <3>4 DEF i
  <2> QED  BY <2>1, <2>2
<1> HIDE DEF u, b, a, w, y, h, x
<1>3. b \in Codes /\ (b >= 0 => u >= 0 /\ b = 3 /\ s[3] = "SP")
  BY <1>0, <1>1, <1>2
\* The version needs nine bytes.
<1>4. b >= 0 => 3 <= Len(s)
  <2> SUFFICES ASSUME b >= 0, ~(3 <= Len(s)) PROVE FALSE  OBVIOUS
  <2>1. u >= 0 /\ Len(s) = 2 /\ s[2] = "1"
    <3>1. u >= 0  BY <1>3
    <3>2. s[2] = "1" /\ 2 <= Len(s)  BY <1>2, <3>1
    <3>3. \A n \in Nat : 2 <= n /\ ~(3 <= n) => n = 2  OBVIOUS
    <3>4. Len(s) = 2  BY <1>0, <3>2, <3>3
    <3> QED  BY <3>1, <3>2, <3>4
  <2> DEFINE V == Versions(s, 1)
             c == Cardinality(V)
  <2>2. V = {} \/ V = {1}  BY <2>1 DEF Versions
  <2>3. c \in {0, 1}  BY <2>2, FS_EmptySet, FS_Singleton
  <2>4. Width(s, 1) = Len(s) + 1 - 1 + 6 * c  BY DEF Width
  <2> HIDE DEF V, c
  <2>5. Width(s, 1) < 9  BY <2>1, <2>3, <2>4
  <2>6. u = More  BY <2>5 DEF Version, u
  <2> QED  BY <2>1, <2>6 DEF More
<1>5. a \in Codes /\ (a >= 0 => b >= 0 /\ a \in 4 .. Len(s) /\ s[a] # "SP" /\ AllIn(s, 3, a - 1, {"SP"}))
  <2>1. CASE b < 0  BY <1>0, <1>1, <1>3, <2>1
  <2>2. CASE ~(b < 0)
    <3>1. b >= 0 /\ b = 3 /\ s[b] = "SP" /\ a = SkipSpaces(s, b) /\ b \in 1 .. Len(s)
      BY <1>0, <1>1, <1>3, <1>4, <2>2
    <3> DEFINE S == Bytes \ {"SP"}
               G == Bytes
    <3>2. a = Reach(s, b + 1, S, G) /\ b + 1 \in Positions(s)
      BY <1>0, <3>1 DEF SkipSpaces, Positions
    <3>3. \A c \in Bytes : c \notin S => c = "SP"  OBVIOUS
    <3>4. \A c \in S : c # "SP"  OBVIOUS
    <3> HIDE DEF S, G
    <3>5. a \in Codes  BY <3>2, PartCodes
    <3>6. a >= 0 => a \in b + 1 .. Len(s) /\ s[a] \in S /\ \A j \in b + 1 .. a - 1 : s[j] \notin S
      BY <3>2, ReachIs
    <3>7. ASSUME a >= 0, NEW j \in 3 .. a - 1 PROVE s[j] = "SP"
      <4>1. CASE j = 3  BY <3>1, <4>1
      <4>2. CASE j # 3
        <5>1. j \in b + 1 .. a - 1 /\ j \in 1 .. Len(s)  BY <1>0, <3>1, <3>5, <3>6, <3>7, <4>2
        <5> QED  BY <1>0, <3>3, <3>6, <3>7, <5>1
      <4> QED  BY <4>1, <4>2
    <3>8. a >= 0 => AllIn(s, 3, a - 1, {"SP"})  BY <3>7 DEF AllIn
    <3>9. a >= 0 => a \in 4 .. Len(s)
      <4> SUFFICES ASSUME a >= 0 PROVE a \in 4 .. Len(s)  OBVIOUS
      <4> QED  BY <3>1, <3>6
    <3> QED  BY <3>1, <3>4, <3>5, <3>6, <3>8, <3>9
  <2> QED  BY <2>1, <2>2
<1>6. w \in Codes /\ (w >= 0 => a >= 0 /\ w = a + 3 /\ a + 2 <= Len(s) /\ AllIn(s, a, a + 2, {"1"}))
  <2>1. CASE a < 0  BY <1>0, <1>1, <1>5, <2>1
  <2>2. CASE ~(a < 0)
    <3>1. a >= 0 /\ a \in 4 .. Len(s) /\ w = Status(s, a)  BY <1>0, <1>1, <1>5, <2>2
    <3>2. w \in {More, Bad, a + 3}  BY <3>1 DEF Status
    <3>3. a + 3 \in Codes  BY <1>0, <3>1 DEF Codes
    <3>4. ASSUME w >= 0 PROVE w = a + 3 /\ a + 2 <= Len(s) /\ AllIn(s, a, a + 2, {"1"})
      <4>1. w # More /\ w # Bad  BY <3>4 DEF More, Bad
      <4>2. w = a + 3 /\ \A p \in a .. a + 2 : p <= Len(s) /\ s[p] = "1"
        BY <3>1, <4>1 DEF Status
      <4>3. a + 2 \in a .. a + 2  BY <1>0, <3>1
      <4> QED  BY <4>2, <4>3 DEF AllIn
    <3> QED  BY <1>0, <3>1, <3>2, <3>3, <3>4
  <2> QED  BY <2>1, <2>2
<1>7. w >= 0 => /\ w \in Positions(s) /\ e \in w .. Len(s) + 1 /\ LineEnd(s, e) \in Codes
                /\ \A j \in w .. e - 1 : s[j] \notin Controls \ {"HT"}
                /\ LineEnd(s, e) >= 0 => e <= Len(s)
  <2> SUFFICES ASSUME w >= 0
               PROVE  /\ w \in Positions(s) /\ e \in w .. Len(s) + 1 /\ LineEnd(s, e) \in Codes
                      /\ \A j \in w .. e - 1 : s[j] \notin Controls \ {"HT"}
                      /\ LineEnd(s, e) >= 0 => e <= Len(s)
    OBVIOUS
  <2>1. w \in Positions(s)  BY <1>0, <1>5, <1>6 DEF Positions
  <2> DEFINE S == Controls \ {"HT"}
  <2>2. e = FirstOf(s, w, S)  BY DEF Eol
  <2> HIDE DEF e, S
  <2>3. e \in w .. Len(s) + 1 /\ \A j \in w .. e - 1 : s[j] \notin S
    BY <2>1, <2>2, FirstOfIs
  <2>4. e \in Positions(s)  BY <1>0, <2>1, <2>3 DEF Positions
  <2>5. LineEnd(s, e) \in Codes /\ (LineEnd(s, e) >= 0 => e <= Len(s))
    BY <2>4, PartCodes, LineEndIs
  <2> QED  BY <2>1, <2>3, <2>5 DEF S
<1> HIDE DEF e
<1>8. y \in Codes /\ (y >= 0 => w >= 0 /\ e <= Len(s) /\ y = LineEnd(s, e))
  BY <1>0, <1>1, <1>6, <1>7
<1>9. y >= 0 => /\ x # << >> <=> w < e
                /\ w < e => x[1] = s[w]
  <2> SUFFICES ASSUME y >= 0
               PROVE  /\ x # << >> <=> w < e
                      /\ w < e => x[1] = s[w]
    OBVIOUS
  <2> DEFINE B == Bytes
             c == e - 1
  <2>1. w \in 1 .. Len(s) + 1 /\ e \in w .. Len(s) + 1 /\ e <= Len(s)  BY <1>7, <1>8 DEF Positions
  <2>2. s \in Seq(B) /\ c \in w - 1 .. Len(s) /\ c - w + 1 = e - w  BY <1>0, <2>1
  <2>3. x = SubSeq(s, w, c)  BY DEF x, w, e, MessageText
  <2> HIDE DEF B, c
  <2>4. x \in Seq(B) /\ Len(x) = c - w + 1 /\ \A j \in 1 .. c - w + 1 : x[j] = s[w + j - 1]
    BY <2>1, <2>2, <2>3, PartOf
  <2>5. x # << >> <=> Len(x) # 0  BY <2>4, EmptySeq
  <2>6. x # << >> <=> w < e  BY <1>0, <2>1, <2>2, <2>4, <2>5
  <2>7. w < e => 1 \in 1 .. c - w + 1 /\ w + 1 - 1 = w  BY <1>0, <2>1, <2>2
  <2> QED  BY <2>4, <2>6, <2>7
<1>10. h \in Codes /\ (h >= 0 => y >= 0 /\ h = y /\ (w < e => s[w] = "SP"))
  BY <1>0, <1>1, <1>8, <1>9
<1>11. ASSUME h >= 0
       PROVE  /\ s[1] = "V" /\ s[2] = "1" /\ a \in 4 .. Len(s) /\ AllIn(s, 3, a - 1, {"SP"})
              /\ w = a + 3 /\ e \in a + 3 .. Len(s) /\ AllIn(s, a, a + 2, {"1"})
              /\ AllIn(s, a + 3, e - 1, Bytes \ (Controls \ {"HT"}))
              /\ a + 3 < e => s[a + 3] = "SP"
              /\ h = LineEnd(s, e)
  <2>1. y >= 0 /\ w >= 0 /\ a >= 0 /\ b >= 0 /\ u >= 0
    BY <1>3, <1>5, <1>6, <1>8, <1>10, <1>11
  <2>2. w = a + 3 /\ a \in 4 .. Len(s) /\ e \in w .. Len(s) + 1 /\ e <= Len(s)
    BY <1>5, <1>6, <1>7, <1>8, <2>1
  <2>3. e \in a + 3 .. Len(s)  BY <1>0, <2>2
  <2>4. AllIn(s, a + 3, e - 1, Bytes \ (Controls \ {"HT"}))
    <3> SUFFICES ASSUME NEW j \in a + 3 .. e - 1 PROVE s[j] \in Bytes \ (Controls \ {"HT"})
      BY DEF AllIn
    <3>1. j \in 1 .. Len(s) /\ j \in w .. e - 1  BY <1>0, <2>2
    <3> QED  BY <1>0, <1>7, <2>1, <3>1
  <2> QED  BY <1>2, <1>5, <1>6, <1>8, <1>10, <1>11, <2>1, <2>2, <2>3, <2>4
<1>12. h >= 0 => w = a + 3  BY <1>11
<1>13. h \in Codes
       /\ (h >= 0 => /\ s[1] = "V" /\ s[2] = "1" /\ a \in 4 .. Len(s) /\ AllIn(s, 3, a - 1, {"SP"})
                     /\ Eol(s, a + 3) \in a + 3 .. Len(s) /\ AllIn(s, a, a + 2, {"1"})
                     /\ AllIn(s, a + 3, Eol(s, a + 3) - 1, Bytes \ (Controls \ {"HT"}))
                     /\ (a + 3 < Eol(s, a + 3) => s[a + 3] = "SP")
                     /\ h = LineEnd(s, Eol(s, a + 3)))
  <2>1. h >= 0 => e = Eol(s, a + 3)  BY <1>12 DEF e
  <2> QED  BY <1>10, <1>11, <2>1
<1> QED  BY <1>13 DEF a, h

\* What the parser takes for a status line is one.
LEMMA StatusLineGiven ==
  ASSUME NEW s \in Seq(Bytes), ResponseHead(s) >= 0
  PROVE  LET h == ResponseHead(s)
             e == Eol(s, StatusAt(s) + 3)
         IN  /\ h - 1 \in Feeds(s) /\ 0 < h - 1 /\ NextFeed(s, 0) = h - 1
             /\ IsStatusLine(LineFrom(s, 0))
             /\ e \in 2 .. Len(s) /\ Plain(s, 1, e) /\ h = LineEnd(s, e)
             /\ s[e] \in {"CR", "LF"}
<1> DEFINE h == ResponseHead(s)
           a == StatusAt(s)
           e == Eol(s, a + 3)
           z == e - 1
           l == LineFrom(s, 0)
<1>0. Len(s) \in Nat /\ 0 \in Feeds(s)  BY FeedsType
<1>1. /\ s[1] = "V" /\ s[2] = "1" /\ a \in 4 .. Len(s) /\ AllIn(s, 3, a - 1, {"SP"})
      /\ e \in a + 3 .. Len(s) /\ AllIn(s, a, a + 2, {"1"})
      /\ AllIn(s, a + 3, e - 1, Bytes \ (Controls \ {"HT"}))
      /\ a + 3 < e => s[a + 3] = "SP"
      /\ h = LineEnd(s, e)
  BY StatusPlaced
<1>2. h >= 0  OBVIOUS
<1> HIDE DEF h, a, e
<1>3. a \in Nat /\ e \in Nat /\ a >= 4 /\ e >= a + 3 /\ e <= Len(s) /\ z = e - 1 /\ z + 1 = e
      /\ z \in 0 .. Len(s) /\ e \in Positions(s)
  BY <1>0, <1>1 DEF Positions
<1> HIDE DEF z
<1>4. \A j \in 1 .. z : s[j] \in Bytes \ (Controls \ {"HT"})
  <2> SUFFICES ASSUME NEW j \in 1 .. z PROVE s[j] \in Bytes \ (Controls \ {"HT"})  OBVIOUS
  <2>1. \/ j = 1 \/ j = 2 \/ j \in 3 .. a - 1 \/ j \in a .. a + 2 \/ j \in a + 3 .. e - 1
    BY <1>3
  <2>2. s[j] \in {"V", "1", "SP"} \union (Bytes \ (Controls \ {"HT"}))
    BY <1>1, <2>1 DEF AllIn
  <2> QED  BY <2>2 DEF Bytes, Controls, TokenChars, Blanks
<1>5. Plain(s, 1, e)
  <2>1. \A j \in 1 .. e - 1 : s[j] \notin Controls \ {"HT"}  BY <1>3, <1>4
  <2>2. \A c \in {"CR", "LF"} : c \in Controls \ {"HT"}  BY DEF Controls
  <2> QED  BY <2>1, <2>2 DEF Plain
<1>6. h - 1 \in Feeds(s) /\ 0 < h - 1 /\ NextFeed(s, 0) = h - 1 /\ LineLast(s, 0) = z
  <2> DEFINE f == 0
  <2>1. f \in Feeds(s) /\ z \in f .. Len(s) /\ Plain(s, f + 1, z + 1) /\ LineEnd(s, z + 1) = h
    BY <1>0, <1>1, <1>3, <1>5
  <2> HIDE DEF f
  <2>2. h - 1 \in Feeds(s) /\ f < h - 1 /\ NextFeed(s, f) = h - 1 /\ LineLast(s, f) = z
    BY <1>2, <2>1, LineFromWhen
  <2> QED  BY <2>2 DEF f
<1>7. l \in Seq(Bytes) /\ Len(l) = z /\ \A j \in 1 .. z : l[j] = s[j]
  <2> DEFINE f == 0
             k == h - 1
  <2>1. f \in Feeds(s) /\ k \in Feeds(s) /\ f < k /\ LineLast(s, f) = z
    BY <1>0, <1>6
  <2>2. z - f = z /\ \A j \in 1 .. z : f + j = j  BY <1>3
  <2> HIDE DEF f, k
  <2>3. /\ LineFrom(s, f) \in Seq(Bytes) /\ Len(LineFrom(s, f)) = z - f
        /\ \A j \in 1 .. z - f : LineFrom(s, f)[j] = s[f + j]
    BY <2>1, LineFromIs
  <2> QED  BY <2>2, <2>3 DEF f
<1> HIDE DEF l
<1>8. IsStatusLine(l)
  <2>1. Len(l) >= 6 /\ DOMAIN l = 1 .. z /\ z >= 6  BY <1>3, <1>7
  <2>2. SubSeq(l, 1, 3) = <<"V", "1", "SP">>
    <3>1. l[1] = "V" /\ l[2] = "1" /\ l[3] = "SP"
      <4>1. 1 \in 1 .. z /\ 2 \in 1 .. z /\ 3 \in 1 .. z /\ 3 \in 3 .. a - 1  BY <1>3, <2>1
      <4> QED  BY <1>1, <1>7, <4>1 DEF AllIn
    <3> DEFINE B == Bytes
               c == 1
               d == 3
               t == SubSeq(l, c, d)
               u == <<"V", "1", "SP">>
    <3>2. l \in Seq(B) /\ c \in 1 .. Len(l) + 1 /\ d \in c - 1 .. Len(l) /\ d - c + 1 = 3
          /\ c + 1 - 1 = 1 /\ c + 2 - 1 = 2 /\ c + 3 - 1 = 3
      BY <1>7, <2>1
    <3>3. u \in Seq(B) /\ Len(u) = 3 /\ u[1] = "V" /\ u[2] = "1" /\ u[3] = "SP"
      BY DEF Bytes, TokenChars, Blanks
    <3> HIDE DEF B, c, d, u
    <3>4. t \in Seq(B) /\ Len(t) = d - c + 1 /\ \A j \in 1 .. d - c + 1 : t[j] = l[c + j - 1]
      BY <3>2, PartOf
    <3>5. Len(t) = 3 /\ t[1] = l[1] /\ t[2] = l[2] /\ t[3] = l[3]
      <4>1. 1 \in 1 .. d - c + 1 /\ 2 \in 1 .. d - c + 1 /\ 3 \in 1 .. d - c + 1  BY <3>2
      <4> QED  BY <3>2, <3>4, <4>1
    <3> HIDE DEF t
    <3>6. \A j \in 1 .. 3 : t[j] = u[j]
      <4>1. \A j \in 1 .. 3 : j = 1 \/ j = 2 \/ j = 3  OBVIOUS
      <4> QED  BY <3>1, <3>3, <3>5, <4>1
    <3>7. t = u  BY <3>3, <3>4, <3>5, <3>6, SeqEqual
    <3> QED  BY <3>7 DEF t, u, c, d
  <2>3. a \in 4 .. Len(l) - 2  BY <1>3, <1>7
  <2>4. AllIn(l, 3, a - 1, {"SP"}) /\ AllIn(l, a, a + 2, {"1"})
    <3>1. \A j \in 3 .. a + 2 : j \in 1 .. z  BY <1>3
    <3>2. \A j \in 3 .. a - 1 : j \in 3 .. a + 2  BY <1>3
    <3>3. \A j \in a .. a + 2 : j \in 3 .. a + 2  BY <1>3
    <3> QED  BY <1>1, <1>7, <3>1, <3>2, <3>3 DEF AllIn
  <2>5. a + 2 < Len(l) => l[a + 3] = "SP"
    <3> SUFFICES ASSUME a + 2 < Len(l) PROVE l[a + 3] = "SP"  OBVIOUS
    <3>1. a + 3 \in 1 .. z /\ a + 3 < e  BY <1>3, <1>7
    <3> QED  BY <1>1, <1>7, <3>1
  <2>6. Text(l)  BY <1>4, <1>7, <2>1 DEF Text
  <2> QED  BY <2>1, <2>2, <2>3, <2>4, <2>5, <2>6 DEF IsStatusLine
<1>9. s[e] \in {"CR", "LF"}  BY <1>1, <1>2, <1>3, LineEndIs
<1> QED  BY <1>1, <1>3, <1>5, <1>6, <1>8, <1>9 DEF h, e, a, l

\* The parser takes every status line.
LEMMA StatusLineTaken ==
  ASSUME NEW s \in Seq(Bytes), NEW k \in Feeds(s), 0 < k, IsStatusLine(LineFrom(s, 0))
  PROVE  ResponseHead(s) = NextFeed(s, 0) + 1
<1> DEFINE l == LineFrom(s, 0)
           z == LineLast(s, 0)
           h == NextFeed(s, 0) + 1
           w == z + 1
<1>0. Len(s) \in Nat /\ k \in Nat /\ h \in Nat
  <2>1. NextFeed(s, 0) \in Feeds(s)
    <3> DEFINE f == 0
    <3>1. f \in Feeds(s) /\ f < k  BY FeedsType
    <3> HIDE DEF f
    <3>2. NextFeed(s, f) \in Feeds(s)  BY <3>1, NextFeedIs
    <3> QED  BY <3>2 DEF f
  <2>2. Len(s) \in Nat /\ k \in Nat /\ NextFeed(s, 0) \in Nat  BY <2>1, FeedsType
  <2> QED  BY <2>2
<1>1. /\ z \in 0 .. k - 1 /\ k <= Len(s) /\ l \in Seq(Bytes) /\ Len(l) = z
      /\ \A j \in 1 .. z : l[j] = s[j]
      /\ s[w] \in {"CR", "LF"} /\ LineEnd(s, w) = h
  <2> DEFINE f == 0
  <2>1. f \in Feeds(s) /\ f < k  BY FeedsType
  <2> HIDE DEF f
  <2>2. /\ LineLast(s, f) \in f .. k - 1 /\ k <= Len(s) /\ LineFrom(s, f) \in Seq(Bytes)
        /\ Len(LineFrom(s, f)) = LineLast(s, f) - f
        /\ \A j \in 1 .. LineLast(s, f) - f : LineFrom(s, f)[j] = s[f + j]
        /\ s[LineLast(s, f) + 1] \in {"CR", "LF"}
        /\ LineEnd(s, LineLast(s, f) + 1) = NextFeed(s, f) + 1
    BY <2>1, LineFromIs
  <2>3. z - 0 = z /\ \A j \in 1 .. z : 0 + j = j
    <3>1. z \in Int  BY <1>0, <2>2 DEF f
    <3> HIDE DEF z
    <3> QED  BY <3>1
  <2> QED  BY <2>2, <2>3 DEF f
<1>2. IsStatusLine(l)  OBVIOUS
<1> HIDE DEF l, z, h
<1>3. PICK i \in 4 .. Len(l) - 2 : /\ AllIn(l, 3, i - 1, {"SP"}) /\ AllIn(l, i, i + 2, {"1"})
                                   /\ i + 2 < Len(l) => l[i + 3] = "SP"
  BY <1>2 DEF IsStatusLine
<1>4. Len(l) >= 6 /\ SubSeq(l, 1, 3) = <<"V", "1", "SP">> /\ Text(l)  BY <1>2 DEF IsStatusLine
<1>5. /\ i \in Nat /\ z \in Nat /\ i >= 4 /\ i + 2 <= z /\ w = z + 1 /\ w <= Len(s) /\ z >= 6
      /\ DOMAIN l = 1 .. z
  BY <1>0, <1>1, <1>3, <1>4
<1> HIDE DEF w
<1>6. s[1] = "V" /\ s[2] = "1" /\ s[3] = "SP"
  <2>1. l[1] = "V" /\ l[2] = "1" /\ l[3] = "SP"
    <3> DEFINE t == SubSeq(l, 1, 3)
               u == <<"V", "1", "SP">>
    <3>1. t[1] = l[1] /\ t[2] = l[2] /\ t[3] = l[3]
      <4>1. 3 <= Len(l)  BY <1>4, <1>1
      <4> QED  BY <1>1, <4>1
    <3>2. u[1] = "V" /\ u[2] = "1" /\ u[3] = "SP"  OBVIOUS
    <3>3. t = u  BY <1>4
    <3> HIDE DEF t, u
    <3> QED  BY <3>1, <3>2, <3>3
  <2>2. 1 \in 1 .. z /\ 2 \in 1 .. z /\ 3 \in 1 .. z  BY <1>5
  <2> QED  BY <1>1, <2>1, <2>2
<1>7. /\ \A j \in 3 .. i - 1 : s[j] = "SP"
      /\ \A j \in i .. i + 2 : s[j] = "1"
      /\ i + 3 < w => s[i + 3] = "SP"
      /\ \A j \in i + 3 .. w - 1 : s[j] \notin Controls \ {"HT"}
  <2>1. \A j \in 3 .. i + 2 : j \in 1 .. z  BY <1>5
  <2>2. \A j \in 3 .. i - 1 : j \in 3 .. i + 2  BY <1>5
  <2>3. \A j \in i .. i + 2 : j \in 3 .. i + 2  BY <1>5
  <2>4. \A j \in i + 3 .. w - 1 : j \in 1 .. z  BY <1>5
  <2>5. i + 3 < w => i + 2 < Len(l) /\ i + 3 \in 1 .. z  BY <1>1, <1>5
  <2>6. \A j \in 3 .. i - 1 : s[j] = "SP"  BY <1>1, <1>3, <2>1, <2>2 DEF AllIn
  <2>7. \A j \in i .. i + 2 : s[j] = "1"  BY <1>1, <1>3, <2>1, <2>3 DEF AllIn
  <2>8. i + 3 < w => s[i + 3] = "SP"  BY <1>1, <1>3, <2>5
  <2>9. \A j \in i + 3 .. w - 1 : s[j] \notin Controls \ {"HT"}
    BY <1>1, <1>4, <1>5, <2>4 DEF Text
  <2> QED  BY <2>6, <2>7, <2>8, <2>9
<1>8. Version(s, 1) = 3
  <2> DEFINE v == 1
  <2>1. v \in 1 .. Len(s) /\ v + 2 <= Len(s) /\ s[v] = "V" /\ s[v + 1] = "1" /\ v + 2 = 3
    BY <1>0, <1>5, <1>6
  <2> HIDE DEF v
  <2>2. Version(s, v) = v + 2  BY <2>1, VersionWhen
  <2> QED  BY <2>1, <2>2 DEF v
<1>9. AfterVersion(s) = 3  BY <1>6, <1>8, StatusInOrder
<1>10. StatusAt(s) = i
  <2> DEFINE b == 3
  <2>1. b \in 1 .. Len(s) /\ i \in 1 .. Len(s) /\ b < i /\ (\A j \in b .. i - 1 : s[j] = "SP")
        /\ i \in i .. i + 2
    BY <1>0, <1>5, <1>7
  <2>2. s[i] # "SP"  BY <1>7, <2>1
  <2> HIDE DEF b
  <2>3. SkipSpaces(s, b) = i  BY <2>1, <2>2, SpacesWhen
  <2> QED  BY <1>9, <2>3, StatusInOrder DEF b
<1>11. StatusEnd(s) = i + 3
  <2>1. ~(Width(s, i) < 4)
    <3> DEFINE V == Versions(s, i)
               c == Cardinality(V)
    <3>1. V \in SUBSET (1 .. Len(s))  BY <1>0, <1>5 DEF Versions
    <3>2. IsFiniteSet(1 .. Len(s))  BY <1>0, FS_Interval
    <3> HIDE DEF V
    <3>3. IsFiniteSet(V)  BY <3>1, <3>2, FS_Subset
    <3>4. c \in Nat  BY <3>3, FS_CardinalityType
    <3>5. Width(s, i) = Len(s) + 1 - i + 6 * c  BY DEF Width, V
    <3> HIDE DEF c
    <3> QED  BY <1>0, <1>5, <3>4, <3>5
  <2>2. \A p \in i .. i + 2 : p <= Len(s) /\ s[p] = "1"  BY <1>0, <1>5, <1>7
  <2>3. Status(s, i) = i + 3  BY <2>1, <2>2 DEF Status
  <2>4. ~(i < 0)  BY <1>5
  <2> QED  BY <1>10, <2>3, <2>4, StatusInOrder
<1>12. Eol(s, i + 3) = w
  <2> DEFINE S == Controls \ {"HT"}
             a == i + 3
  <2>1. s[w] \in S  BY <1>1 DEF Controls
  <2>2. a \in 1 .. Len(s) /\ w \in a .. Len(s)  BY <1>0, <1>5
  <2>3. \A j \in a .. w - 1 : s[j] \notin S  BY <1>7
  <2>4. Eol(s, a) = FirstOf(s, a, S)  BY DEF Eol
  <2> HIDE DEF S, a
  <2>5. Eol(s, a) = w  BY <2>1, <2>2, <2>3, <2>4, FirstOfWhen
  <2> QED  BY <2>5 DEF a
<1>13. StatusLineEnd(s) = h
  <2>1. ~(i + 3 < 0)  BY <1>5
  <2> QED  BY <1>1, <1>11, <1>12, <2>1, StatusInOrder
<1>14. ~(MessageText(s) # << >> /\ MessageText(s)[1] # "SP")
  <2> SUFFICES ASSUME MessageText(s) # << >> PROVE MessageText(s)[1] = "SP"  OBVIOUS
  <2> DEFINE B == Bytes
             a == i + 3
             c == w - 1
             x == MessageText(s)
  <2>1. s \in Seq(B) /\ a \in 1 .. Len(s) + 1 /\ c \in a - 1 .. Len(s) /\ c - a + 1 = w - a
    BY <1>0, <1>5
  <2>2. x = SubSeq(s, a, c)  BY <1>11, <1>12 DEF MessageText
  <2>3. x # << >>  OBVIOUS
  <2> HIDE DEF B, c, x
  <2>4. x \in Seq(B) /\ Len(x) = c - a + 1 /\ \A j \in 1 .. c - a + 1 : x[j] = s[a + j - 1]
    <3> HIDE DEF a
    <3> QED  BY <2>1, <2>2, PartOf
  <2>5. Len(x) # 0  BY <2>3, <2>4, EmptySeq
  <2>6. a < w /\ 1 \in 1 .. c - a + 1 /\ a + 1 - 1 = a  BY <1>0, <1>5, <2>1, <2>4, <2>5
  <2>7. x[1] = s[a]  BY <2>4, <2>6
  <2> QED  BY <1>7, <2>6, <2>7 DEF x
<1>15. ResponseHead(s) = h  BY <1>0, <1>13, <1>14, StatusInOrder
<1> QED  BY <1>15 DEF h

\* What parse_response gives, in terms of the status line and the headers.
LEMMA ResponseWritten ==
  ASSUME NEW s \in Seq(Bytes)
  PROVE  LET r == ParseResponse(s, MaxHeaders)
             h0 == ResponseHead(s)
         IN  /\ r.ret = Headers(s, h0, MaxHeaders).ret /\ r.ret \in Codes
             /\ r.ret >= 0 => h0 >= 0 /\ r.ret - 1 \in Feeds(s) /\ h0 < r.ret
<1> DEFINE version == Then(Version(s, 1), LAMBDA i : IF s[i] = "SP" THEN i ELSE Bad)
           status == Then(version, LAMBDA i : SkipSpaces(s, i))
           msg == Then(status, LAMBDA i : Status(s, i))
           next == Then(msg, LAMBDA i : ToEol(s, i))
           words == SubSeq(s, msg, Eol(s, msg) - 1)
           h0 == Then(next, LAMBDA i : IF words # << >> /\ words[1] # "SP" THEN Bad ELSE i)
           h == Headers(s, h0, MaxHeaders)
           r == ParseResponse(s, MaxHeaders)
<1>1. r = IF h.ret < 0 THEN NoResponse(h.ret)
          ELSE [ret |-> h.ret, headers |-> h.headers,
                msg |-> SubSeq(s, FirstOf(s, msg, Bytes \ {"SP"}), Eol(s, msg) - 1)]
  BY DEF ParseResponse
<1>2. r.ret = h.ret
  <2> HIDE DEF h, r
  <2> QED  BY <1>1 DEF NoResponse
<1>3. h0 = ResponseHead(s)
  BY DEF ResponseHead, StatusLineEnd, MessageText, StatusEnd, StatusAt, AfterVersion
<1>4. h = Headers(s, h0, MaxHeaders)  OBVIOUS
<1>5. ResponseHead(s) \in Codes /\ (ResponseHead(s) >= 0 => ResponseHead(s) - 1 \in Feeds(s))
  BY StatusPlaced, StatusLineGiven
<1>6. Codes \subseteq Int  BY DEF Codes, More, Bad
<1> HIDE DEF h0, h, r
<1>7. h0 \in Codes /\ h0 \in Int /\ (h0 >= 0 => h0 - 1 \in Feeds(s))
  <2>1. h0 \in Codes /\ (h0 >= 0 => h0 - 1 \in Feeds(s))  BY <1>3, <1>5
  <2> QED  BY <1>6, <2>1
<1>8. CASE h0 < 0
  <2>1. h0 \in Int /\ MaxHeaders \in Nat
    <3>1. MaxHeaders \in Nat  BY MessagesAssumption DEF MessagesAssumption
    <3> QED  BY <1>7, <3>1
  <2>2. h = Failed(h0)  BY <1>4, <1>8, <2>1, HeadersUnfold
  <2>3. h.ret = h0  BY <2>2 DEF Failed
  <2>4. r.ret = h.ret /\ r.ret \in Codes /\ ~(r.ret >= 0)  BY <1>2, <1>8, <1>7, <2>3
  <2> QED  BY <1>3, <1>4, <2>4 DEF r
<1>9. CASE ~(h0 < 0)
  <2> DEFINE f == h0 - 1
  <2>1. h0 \in Int /\ h0 >= 0  BY <1>9, <1>7
  <2>2. f \in Feeds(s) /\ h0 = f + 1  BY <1>7, <2>1
  <2> HIDE DEF f
  <2>3. h = Headers(s, f + 1, MaxHeaders)  BY <1>4, <2>2
  <2>4. h.ret \in Codes /\ (h.ret >= 0 => h.ret - 1 \in Feeds(s) /\ f < h.ret - 1)
    BY <2>2, <2>3, HeadersBehind
  <2>5. h.ret \in Int  BY <1>6, <2>4
  <2>6. f \in Nat  BY <2>2, FeedsType
  <2>7. r.ret = h.ret /\ r.ret \in Codes
        /\ (r.ret >= 0 => h0 >= 0 /\ r.ret - 1 \in Feeds(s) /\ h0 < r.ret)
    BY <1>2, <2>1, <2>2, <2>4, <2>5, <2>6
  <2> QED  BY <1>3, <1>4, <2>7 DEF r
<1> QED  BY <1>8, <1>9

\* parse_response takes exactly the responses.
LEMMA ResponseExact ==
  ASSUME NEW s \in Seq(Bytes), NEW k \in DOMAIN s
  PROVE  IsResponse(Prefix(s, k)) <=> ParseResponse(s, MaxHeaders).ret = k + 1
<1> DEFINE r == ParseResponse(s, MaxHeaders)
           h0 == ResponseHead(s)
           g == NextFeed(s, 0)
           L == LinesBetween(s, 0, k)
           W == LinesBetween(s, g, k)
<1>0. Len(s) \in Nat /\ k \in 1 .. Len(s) /\ k \in Nat /\ Codes \subseteq Int /\ 0 \in Feeds(s)
  <2>1. 0 \in Feeds(s)  BY FeedsType
  <2>2. Len(s) \in Nat /\ k \in 1 .. Len(s) /\ k \in Nat  OBVIOUS
  <2> QED  BY <2>1, <2>2 DEF Codes, More, Bad
<1>1. /\ r.ret = Headers(s, h0, MaxHeaders).ret /\ r.ret \in Codes
      /\ r.ret >= 0 => h0 >= 0 /\ r.ret - 1 \in Feeds(s) /\ h0 < r.ret
  BY ResponseWritten
<1>2. r.ret = k + 1 => r.ret >= 0 /\ k \in Feeds(s)
  <2> SUFFICES ASSUME r.ret = k + 1 PROVE r.ret >= 0 /\ k \in Feeds(s)  OBVIOUS
  <2> HIDE DEF r, h0
  <2>1. r.ret >= 0 /\ r.ret - 1 = k  BY <1>0
  <2> QED  BY <1>1, <2>1
<1> HIDE DEF r, h0
<1>3. CASE s[k] # "LF"
  <2>1. ~IsResponse(Prefix(s, k))  BY <1>3, PrefixEnds DEF IsResponse
  <2>2. r.ret # k + 1  BY <1>0, <1>2, <1>3 DEF Feeds
  <2> QED  BY <2>1, <2>2 DEF r
<1>4. CASE s[k] = "LF"
  <2>1. k \in Feeds(s) /\ 0 < k  BY <1>0, <1>4 DEF Feeds
  <2>2. EndsLine(Prefix(s, k)) /\ LinesOf(Prefix(s, k)) = L  BY <1>4, PrefixLines
  <2>3. L # << >> /\ L[1] = LineFrom(s, 0) /\ Without1(L) = W  BY <1>0, <2>1, LinesBetweenIs
  <2>4. g \in Feeds(s) /\ 0 < g /\ g <= k  BY <1>0, <2>1, NextFeedIs
  <2>5. g \in Nat  BY <2>4, FeedsType
  <2> HIDE DEF L, g
  <2>6. IsResponse(Prefix(s, k)) <=> IsStatusLine(LineFrom(s, 0)) /\ AreHeaders(W)
    BY <2>2, <2>3 DEF IsResponse
  <2>7. IsStatusLine(LineFrom(s, 0)) => h0 = g + 1
    BY <2>1, StatusLineTaken DEF g, h0
  <2>8. h0 >= 0 => IsStatusLine(LineFrom(s, 0))  BY StatusLineGiven DEF h0
  <2>9. ASSUME h0 = g + 1 PROVE r.ret = k + 1 <=> AreHeaders(W)
    <3>1. r.ret = Headers(s, g + 1, MaxHeaders).ret  BY <1>1, <2>9
    <3> QED  BY <2>1, <2>4, <3>1, HeadersBehind
  <2>10. r.ret = k + 1 => h0 >= 0  BY <1>1, <1>2
  <2> QED  BY <2>6, <2>7, <2>8, <2>9, <2>10 DEF r
<1> QED  BY <1>3, <1>4

\* A response that can be parsed has a blank line.
LEMMA ResponseEnds ==
  ASSUME NEW s \in Seq(Bytes), ParseResponse(s, MaxHeaders).ret >= 0
  PROVE  IsComplete(s, 1) \in Nat \ {0}
<1> DEFINE h0 == ResponseHead(s)
           e == Eol(s, StatusAt(s) + 3)
           h == Headers(s, h0, MaxHeaders)
<1>0. Len(s) \in Nat /\ 1 \in Positions(s) /\ MaxHeaders \in Nat
  <2>1. MaxHeaders \in Nat  BY MessagesAssumption DEF MessagesAssumption
  <2> QED  BY <2>1 DEF Positions
<1>1. PICK f : Seeks(s, f) /\ IsComplete(s, 1) = f[<<1, 0>>]  BY <1>0, CompleteUnfolds
<1>2. h.ret >= 0 /\ h0 >= 0  BY ResponseWritten
<1>3. /\ h0 - 1 \in Feeds(s) /\ e \in 2 .. Len(s) /\ Plain(s, 1, e) /\ h0 = LineEnd(s, e)
      /\ s[e] \in {"CR", "LF"}
  BY <1>2, StatusLineGiven
<1> HIDE DEF e, h0
<1>4. e \in Positions(s) /\ 1 < e /\ e <= Len(s)  BY <1>0, <1>3 DEF Positions
<1>5. h0 \in Positions(s)
  <2>1. h0 \in e + 1 .. Len(s) + 1  BY <1>2, <1>3, <1>4, LineEndIs
  <2> QED  BY <1>0, <1>3, <2>1 DEF Positions
<1>6. f[<<1, 0>>] = f[<<e, 0>>]
  <2> DEFINE a == 1
             n == 0
  <2>1. a \in Positions(s) /\ a < e /\ Plain(s, a, e) /\ n \in 0 .. 1  BY <1>0, <1>3, <1>4
  <2> HIDE DEF a, n
  <2>2. f[<<a, n>>] = f[<<e, 0>>]  BY <1>1, <1>4, <2>1, PlainSkips
  <2> QED  BY <2>2 DEF a, n
<1>7. f[<<e, 0>>] = f[<<h0, 0 + 1>>]
  <2>1. 0 \in 0 .. 1 /\ LineEnd(s, e) >= 0  BY <1>2, <1>3
  <2> QED  BY <1>1, <1>3, <1>4, <2>1 DEF Seeks
<1>8. PICK H : Lines(s, MaxHeaders, H) /\ h = H[<<h0, 0>>]
  <2>1. h0 \in Int /\ ~(h0 < 0)  BY <1>0, <1>5 DEF Positions
  <2> QED  BY <1>0, <2>1, HeadersUnfold
<1>9. f[<<h0, 1>>] \in Nat \ {0}
  <2> DEFINE n == 0
  <2>1. n \in 0 .. MaxHeaders /\ H[<<h0, n>>].ret >= 0  BY <1>0, <1>2, <1>8
  <2> HIDE DEF n, h
  <2> QED  BY <1>0, <1>1, <1>5, <1>8, <2>1, HeadersEnd
<1> QED  BY <1>1, <1>6, <1>7, <1>9

\* parse_headers takes exactly the headers.
LEMMA OnlyHeadersExact ==
  ASSUME NEW s \in Seq(Bytes), NEW k \in DOMAIN s
  PROVE  AreOnlyHeaders(Prefix(s, k)) <=> Headers(s, 1, MaxHeaders).ret = k + 1
<1> DEFINE f == 0
           h == Headers(s, f + 1, MaxHeaders)
           L == LinesBetween(s, f, k)
<1>0. Len(s) \in Nat /\ k \in 1 .. Len(s) /\ k \in Nat /\ f <= k /\ f + 1 = 1  OBVIOUS
<1>1. f \in Feeds(s)  BY FeedsType
<1> HIDE DEF f
<1>2. /\ h.ret \in Codes
      /\ h.ret >= 0 => h.ret - 1 \in Feeds(s)
      /\ \A j \in Feeds(s) : f <= j => (h.ret = j + 1 <=> AreHeaders(LinesBetween(s, f, j)))
  BY <1>1, HeadersBehind
<1> HIDE DEF h
<1>3. CASE s[k] # "LF"
  <2>1. ~AreOnlyHeaders(Prefix(s, k))  BY <1>3, PrefixEnds DEF AreOnlyHeaders
  <2>2. h.ret # k + 1
    <3> SUFFICES ASSUME h.ret = k + 1 PROVE FALSE  OBVIOUS
    <3>1. h.ret >= 0 /\ h.ret - 1 = k  BY <1>0
    <3>2. k \in Feeds(s)  BY <1>2, <3>1
    <3> QED  BY <1>0, <1>3, <3>2 DEF Feeds
  <2> QED  BY <1>0, <2>1, <2>2 DEF h
<1>4. CASE s[k] = "LF"
  <2>1. k \in Feeds(s)  BY <1>0, <1>4 DEF Feeds
  <2>2. EndsLine(Prefix(s, k)) /\ LinesOf(Prefix(s, k)) = L  BY <1>4, PrefixLines DEF f
  <2>3. AreOnlyHeaders(Prefix(s, k)) <=> AreHeaders(L)  BY <2>2 DEF AreOnlyHeaders
  <2>4. h.ret = k + 1 <=> AreHeaders(L)  BY <1>0, <1>2, <2>1
  <2> QED  BY <1>0, <2>3, <2>4 DEF h
<1> QED  BY <1>3, <1>4

\* The search for the blank line fails with one of the two.
LEMMA CompleteCodes ==
  ASSUME NEW s \in Seq(Bytes), NEW i \in Positions(s)
  PROVE  IsComplete(s, i) \in Codes
<1>0. Len(s) \in Nat /\ Codes \subseteq Int  BY DEF Codes, More, Bad
<1>1. PICK f : /\ Seeks(s, f) /\ \A at \in Places(s) : f[at] = SeekStep(s, at, f)
               /\ IsComplete(s, i) = f[<<i, 0>>]
  BY CompleteUnfolds
<1> DEFINE A == Places(s)
           rank == [b \in A |-> Len(s) + 1 - b[1]]
           S == {b \in A : f[b] \in Codes}
<1>2. rank \in [A -> Nat]
  <2> SUFFICES ASSUME NEW b \in A PROVE Len(s) + 1 - b[1] \in Nat  OBVIOUS
  <2>1. b[1] \in 1 .. Len(s) + 1  BY DEF Places, Positions
  <2> QED  BY <1>0, <2>1
<1>3. ASSUME NEW a \in A, \A b \in A : rank[b] < rank[a] => b \in S PROVE a \in S
  <2> DEFINE p == a[1]
             n == a[2]
             e == LineEnd(s, p)
             to == <<e, n + 1>>
             on == <<p + 1, 0>>
  <2>1. f[a] = SeekStep(s, a, f)  BY <1>1
  <2>2. p \in Positions(s) /\ p \in 1 .. Len(s) + 1 /\ n \in 0 .. 2  BY DEF Places, Positions
  <2>3. CASE n = 2
    <3>1. f[a] = p  BY <2>1, <2>3 DEF SeekStep
    <3>2. p \in Nat  BY <1>0, <2>2
    <3> QED  BY <3>1, <3>2 DEF Codes
  <2>4. CASE n # 2 /\ AtEnd(s, p)
    <3>1. f[a] = More  BY <2>1, <2>4 DEF SeekStep
    <3> QED  BY <3>1 DEF Codes
  <2>5. CASE n # 2 /\ ~AtEnd(s, p) /\ s[p] \in {"CR", "LF"}
    <3>1. f[a] = IF e < 0 THEN e ELSE f[to]  BY <2>1, <2>5 DEF SeekStep
    <3>2. e \in Codes  BY <2>2, PartCodes
    <3>3. ASSUME ~(e < 0) PROVE f[to] \in Codes
      <4>1. e \in p + 1 .. Len(s) + 1
        <5>1. e >= 0 => e \in p + 1 .. Len(s) + 1  BY <2>2, LineEndIs
        <5> HIDE DEF e
        <5> QED  BY <1>0, <3>2, <3>3, <5>1
      <4> HIDE DEF e
      <4>2. e \in Positions(s) /\ Len(s) + 1 - e < Len(s) + 1 - p /\ n + 1 \in 0 .. 2
        BY <1>0, <2>2, <2>5, <4>1 DEF Positions
      <4>3. to \in A /\ to[1] = e  BY <4>2 DEF Places
      <4>4. rank[to] < rank[a]  BY <4>2, <4>3
      <4>5. to \in S  BY <1>3, <4>3, <4>4
      <4> QED  BY <4>5
    <3> QED  BY <3>1, <3>2, <3>3
  <2>6. CASE n # 2 /\ ~AtEnd(s, p) /\ s[p] \notin {"CR", "LF"}
    <3>1. f[a] = f[on]  BY <2>1, <2>6 DEF SeekStep
    <3>2. p + 1 \in Positions(s) /\ Len(s) + 1 - (p + 1) < Len(s) + 1 - p /\ 0 \in 0 .. 2
      BY <1>0, <2>2, <2>6 DEF Positions, AtEnd
    <3>3. on \in A /\ on[1] = p + 1  BY <3>2 DEF Places
    <3>4. rank[on] < rank[a]  BY <3>2, <3>3
    <3>5. on \in S  BY <1>3, <3>3, <3>4
    <3> QED  BY <3>1, <3>5
  <2> QED  BY <2>3, <2>4, <2>5, <2>6
<1> HIDE DEF S, rank
<1>4. A \subseteq S  BY <1>2, <1>3, RankInduction
<1> DEFINE b == <<i, 0>>
<1>5. b \in A  BY DEF Places
<1> HIDE DEF b
<1>6. b \in S  BY <1>4, <1>5
<1> QED  BY <1>1, <1>6 DEF S, b

------------------------------------------------------------------------------
(***************************************************************************)
(* Messages: what more bytes change.                                       *)
(***************************************************************************)
\* Bytes have arrived behind those of s.
Grown(s, t) == Len(s) <= Len(t) /\ \A j \in 1 .. Len(s) : t[j] = s[j]

\* A position that was found stays, and so does a failure for good.
Kept(a, b) == (a >= 0 => b = a) /\ (a = Bad => b = Bad)

\* The parts run one after the other.
LEMMA KeptOn ==
  ASSUME NEW a \in Codes, NEW b, Kept(a, b), NEW x, NEW y, a >= 0 => Kept(x, y)
  PROVE  Kept(IF a < 0 THEN a ELSE x, IF b < 0 THEN b ELSE y)
<1>0. a \in Nat \/ a = More \/ a = Bad  BY DEF Codes
<1>1. CASE a \in Nat
  <2>1. b = a /\ ~(a < 0) /\ Kept(x, y)  BY <1>1 DEF Kept
  <2> QED  BY <2>1
<1>2. CASE a = More
  <2>1. a < 0 /\ ~(a >= 0) /\ a # Bad  BY <1>2 DEF More, Bad
  <2> QED  BY <2>1 DEF Kept
<1>3. CASE a = Bad
  <2>1. b = Bad  BY <1>3 DEF Kept
  <2>2. Bad < 0 /\ ~(Bad >= 0)  BY DEF Bad
  <2> QED  BY <1>3, <2>1, <2>2 DEF Kept
<1> QED  BY <1>0, <1>1, <1>2, <1>3

\* The end of the buffer is no result that has to stay.
LEMMA KeptMore ==
  ASSUME NEW b
  PROVE  Kept(More, b)
<1>1. ~(More >= 0) /\ More # Bad  BY DEF More, Bad
<1> QED  BY <1>1 DEF Kept

\* A result that does not depend on what arrives.
LEMMA KeptSame ==
  ASSUME NEW a
  PROVE  Kept(a, a)
BY DEF Kept

\* A search.
LEMMA KeepFirst ==
  ASSUME NEW s \in Seq(Bytes), NEW t \in Seq(Bytes), Grown(s, t), NEW i \in Positions(s), NEW S
  PROVE  /\ i \in Positions(t)
         /\ FirstOf(s, i, S) # Len(s) + 1 =>
              /\ FirstOf(s, i, S) \in i .. Len(s) /\ FirstOf(t, i, S) = FirstOf(s, i, S)
              /\ ~AtEnd(t, FirstOf(s, i, S)) /\ t[FirstOf(s, i, S)] = s[FirstOf(s, i, S)]
<1> DEFINE p == FirstOf(s, i, S)
<1>0. Len(s) \in Nat /\ Len(t) \in Nat /\ i \in 1 .. Len(s) + 1 /\ Len(s) <= Len(t)
      /\ \A j \in 1 .. Len(s) : t[j] = s[j]
  BY DEF Positions, Grown
<1>1. i \in Positions(t)  BY <1>0 DEF Positions
<1>2. /\ p \in i .. Len(s) + 1 /\ \A j \in i .. p - 1 : s[j] \notin S
      /\ p <= Len(s) => s[p] \in S
  BY FirstOfIs
<1> HIDE DEF p
<1>3. ASSUME p # Len(s) + 1
      PROVE  p \in i .. Len(s) /\ FirstOf(t, i, S) = p /\ ~AtEnd(t, p) /\ t[p] = s[p]
  <2>1. p \in i .. Len(s) /\ p \in 1 .. Len(s) /\ i \in 1 .. Len(t) /\ p \in i .. Len(t)
    BY <1>0, <1>2, <1>3
  <2>2. t[p] = s[p] /\ s[p] \in S  BY <1>0, <1>2, <2>1
  <2>3. ASSUME NEW j \in i .. p - 1 PROVE t[j] \notin S
    <3>1. j \in 1 .. Len(s)  BY <1>0, <2>1
    <3>2. t[j] = s[j] /\ s[j] \notin S  BY <1>0, <1>2, <3>1
    <3> QED  BY <3>2
  <2>4. FirstOf(t, i, S) = p  BY <2>1, <2>2, <2>3, FirstOfWhen
  <2>5. p # Len(t) + 1  BY <1>0, <2>1
  <2> QED  BY <2>1, <2>2, <2>4, <2>5 DEF AtEnd
<1> QED  BY <1>1, <1>3 DEF p

\* A search for a byte that must be of a kind.
LEMMA KeepReach ==
  ASSUME NEW s \in Seq(Bytes), NEW t \in Seq(Bytes), Grown(s, t), NEW i \in Positions(s),
         NEW S, NEW G
  PROVE  Kept(Reach(s, i, S, G), Reach(t, i, S, G))
<1> DEFINE p == FirstOf(s, i, S)
           q == FirstOf(t, i, S)
<1>1. p # Len(s) + 1 => q = p /\ ~AtEnd(t, p) /\ t[p] = s[p]  BY KeepFirst
<1>2. Reach(s, i, S, G) = IF AtEnd(s, p) THEN More ELSE IF s[p] \in G THEN p ELSE Bad
  BY DEF Reach
<1>3. Reach(t, i, S, G) = IF AtEnd(t, q) THEN More ELSE IF t[q] \in G THEN q ELSE Bad
  BY DEF Reach
<1> HIDE DEF p, q
<1>4. CASE p = Len(s) + 1
  <2>1. Reach(s, i, S, G) = More  BY <1>2, <1>4 DEF AtEnd
  <2> QED  BY <2>1, KeptMore
<1>5. CASE p # Len(s) + 1
  <2>1. Reach(t, i, S, G) = Reach(s, i, S, G)  BY <1>1, <1>2, <1>3, <1>5 DEF AtEnd
  <2> QED  BY <2>1, KeptSame
<1> QED  BY <1>4, <1>5

\* A line end.
LEMMA KeepLineEnd ==
  ASSUME NEW s \in Seq(Bytes), NEW t \in Seq(Bytes), Grown(s, t), NEW i \in Positions(s)
  PROVE  Kept(LineEnd(s, i), LineEnd(t, i))
<1>0. Len(s) \in Nat /\ Len(t) \in Nat /\ i \in 1 .. Len(s) + 1 /\ Len(s) <= Len(t)
      /\ \A j \in 1 .. Len(s) : t[j] = s[j]
  BY DEF Positions, Grown
<1>1. CASE i = Len(s) + 1
  <2>1. LineEnd(s, i) = More  BY <1>1 DEF LineEnd, AtEnd
  <2> QED  BY <2>1, KeptMore
<1>2. CASE i # Len(s) + 1
  <2>1. ~AtEnd(s, i) /\ ~AtEnd(t, i) /\ i \in 1 .. Len(s)  BY <1>0, <1>2 DEF AtEnd
  <2>2. t[i] = s[i]  BY <1>0, <2>1
  <2>3. CASE s[i] = "CR"
    <3>1. LineEnd(s, i) = Expect(s, i + 1, "LF") /\ LineEnd(t, i) = Expect(t, i + 1, "LF")
      BY <2>1, <2>2, <2>3 DEF LineEnd
    <3>2. CASE i = Len(s)
      <4>1. Expect(s, i + 1, "LF") = More  BY <3>2 DEF Expect, AtEnd
      <4> QED  BY <3>1, <4>1, KeptMore
    <3>3. CASE i # Len(s)
      <4>1. i + 1 \in 1 .. Len(s) /\ ~AtEnd(s, i + 1) /\ ~AtEnd(t, i + 1)
        BY <1>0, <2>1, <3>3 DEF AtEnd
      <4>2. t[i + 1] = s[i + 1]  BY <1>0, <4>1
      <4>3. Expect(s, i + 1, "LF") = Expect(t, i + 1, "LF")  BY <4>1, <4>2 DEF Expect
      <4> QED  BY <3>1, <4>3, KeptSame
    <3> QED  BY <3>2, <3>3
  <2>4. CASE s[i] # "CR"
    <3>1. CASE s[i] = "LF"
      <4>1. LineEnd(s, i) = i + 1 /\ LineEnd(t, i) = i + 1  BY <2>1, <2>2, <3>1 DEF LineEnd
      <4> QED  BY <4>1, KeptSame
    <3>2. CASE s[i] # "LF"
      <4>1. LineEnd(s, i) = Bad /\ LineEnd(t, i) = Bad  BY <2>1, <2>2, <2>4, <3>2 DEF LineEnd
      <4> QED  BY <4>1, KeptSame
    <3> QED  BY <3>1, <3>2
  <2> QED  BY <2>3, <2>4
<1> QED  BY <1>1, <1>2

\* The text of a line and its end.
LEMMA KeepToEol ==
  ASSUME NEW s \in Seq(Bytes), NEW t \in Seq(Bytes), Grown(s, t), NEW i \in Positions(s)
  PROVE  Kept(ToEol(s, i), ToEol(t, i))
<1> DEFINE e == Eol(s, i)
<1>1. e # Len(s) + 1 => e \in i .. Len(s) /\ Eol(t, i) = e  BY KeepFirst DEF Eol
<1>2. ToEol(s, i) = LineEnd(s, e) /\ ToEol(t, i) = LineEnd(t, Eol(t, i))  BY DEF ToEol
<1> HIDE DEF e
<1>3. CASE e = Len(s) + 1
  <2>1. LineEnd(s, e) = More  BY <1>3 DEF LineEnd, AtEnd
  <2> QED  BY <1>2, <2>1, KeptMore
<1>4. CASE e # Len(s) + 1
  <2>1. e \in Positions(s)  BY <1>1, <1>4 DEF Positions
  <2> QED  BY <1>1, <1>2, <1>4, <2>1, KeepLineEnd
<1> QED  BY <1>3, <1>4

\* The version.
LEMMA KeepVersion ==
  ASSUME NEW s \in Seq(Bytes), NEW t \in Seq(Bytes), Grown(s, t), NEW i \in 1 .. Len(s)
  PROVE  Kept(Version(s, i), Version(t, i))
<1>0. Len(s) \in Nat /\ Len(t) \in Nat /\ i \in 1 .. Len(s) /\ Len(s) <= Len(t)
      /\ \A j \in 1 .. Len(s) : t[j] = s[j]
  BY DEF Grown
<1> DEFINE V == Versions(s, i)
           W == Versions(t, i)
<1>1. V \subseteq W /\ W \subseteq i .. Len(t)  BY <1>0 DEF Versions
<1>2. IsFiniteSet(W)
  <2> DEFINE I == i .. Len(t)
  <2>1. IsFiniteSet(I)  BY <1>0, FS_Interval
  <2>2. W \subseteq I  BY <1>1
  <2> HIDE DEF I, W
  <2> QED  BY <2>1, <2>2, FS_Subset
<1>3. Width(s, i) = Len(s) + 1 - i + 6 * Cardinality(V)
      /\ Width(t, i) = Len(t) + 1 - i + 6 * Cardinality(W)
  BY DEF Width
<1> HIDE DEF V, W
<1>4. IsFiniteSet(V) /\ Cardinality(V) <= Cardinality(W)  BY <1>1, <1>2, FS_Subset
<1>5. Cardinality(V) \in Nat /\ Cardinality(W) \in Nat  BY <1>2, <1>4, FS_CardinalityType
<1>6. Width(s, i) \in Int /\ Width(t, i) \in Int /\ Width(s, i) <= Width(t, i)
  BY <1>0, <1>3, <1>4, <1>5
<1>7. CASE Width(s, i) < 9
  <2>1. Version(s, i) = More  BY <1>7 DEF Version
  <2> QED  BY <2>1, KeptMore
<1>8. CASE ~(Width(s, i) < 9)
  <2>1. ~(Width(t, i) < 9)  BY <1>6, <1>8
  <2>2. i # Len(s)
    <3> SUFFICES ASSUME i = Len(s) PROVE FALSE  OBVIOUS
    <3>1. V = {} \/ V = {i}  BY <1>0 DEF V, Versions
    <3>2. Cardinality(V) \in {0, 1}  BY <3>1, FS_EmptySet, FS_Singleton
    <3> QED  BY <1>0, <1>3, <1>8, <3>2
  <2>3. t[i] = s[i] /\ t[i + 1] = s[i + 1]
    <3>1. i + 1 \in 1 .. Len(s)  BY <1>0, <2>2
    <3> QED  BY <1>0, <3>1
  <2>4. Version(t, i) = Version(s, i)  BY <1>8, <2>1, <2>3 DEF Version
  <2> QED  BY <2>4, KeptSame
<1> QED  BY <1>7, <1>8

\* A request line.
LEMMA KeepRequestLine ==
  ASSUME NEW s \in Seq(Bytes), NEW t \in Seq(Bytes), Grown(s, t), NEW i \in Positions(s)
  PROVE  Kept(RequestLineEnd(s, i), RequestLineEnd(t, i))
<1> DEFINE m == MethodEnd(s, i)
           p == PathAt(s, i)
           q == PathEnd(s, i)
           v == VersionAt(s, i)
           w == VersionEnd(s, i)
           m1 == MethodEnd(t, i)
           p1 == PathAt(t, i)
           q1 == PathEnd(t, i)
           v1 == VersionAt(t, i)
           w1 == VersionEnd(t, i)
           r1 == RequestLineEnd(t, i)
           x == RequestLineEnd(s, i)
<1>0. Len(s) \in Nat /\ i \in 1 .. Len(s) + 1 /\ i \in Int /\ Codes \subseteq Int
  BY DEF Positions, Codes, More, Bad
<1>1. /\ {m, p, q, v, w} \subseteq Codes
      /\ m >= 0 => m \in i .. Len(s)
      /\ p >= 0 => m >= 0 /\ p \in m + 1 .. Len(s)
      /\ q >= 0 => p >= 0 /\ q \in p .. Len(s)
      /\ v >= 0 => q >= 0 /\ v \in q + 1 .. Len(s)
      /\ w >= 0 => v >= 0 /\ v + 1 <= Len(s) /\ w = v + 2
  BY PartsPlaced
<1>2. /\ p = IF m < 0 THEN m ELSE SkipSpaces(s, m)
      /\ q = IF p < 0 THEN p ELSE AdvanceToken(s, p)
      /\ v = IF q < 0 THEN q ELSE SkipSpaces(s, q)
      /\ w = IF v < 0 THEN v ELSE IF m = i \/ q = p THEN Bad ELSE Version(s, v)
      /\ x = IF w < 0 THEN w ELSE LineEnd(s, w)
  BY PartsInOrder
<1>3. /\ p1 = IF m1 < 0 THEN m1 ELSE SkipSpaces(t, m1)
      /\ q1 = IF p1 < 0 THEN p1 ELSE AdvanceToken(t, p1)
      /\ v1 = IF q1 < 0 THEN q1 ELSE SkipSpaces(t, q1)
      /\ w1 = IF v1 < 0 THEN v1 ELSE IF m1 = i \/ q1 = p1 THEN Bad ELSE Version(t, v1)
      /\ r1 = IF w1 < 0 THEN w1 ELSE LineEnd(t, w1)
  BY PartsInOrder
<1>4. Kept(m, m1)  BY KeepReach DEF MethodEnd, Token
<1> HIDE DEF m, p, q, v, w, x, m1, p1, q1, v1, w1, r1
\* Over spaces, from where there is one.
<1>5. ASSUME NEW a \in 1 .. Len(s) PROVE Kept(SkipSpaces(s, a), SkipSpaces(t, a))
  <2>1. a + 1 \in Positions(s)  BY <1>0, <1>5 DEF Positions
  <2> QED  BY <2>1, KeepReach DEF SkipSpaces
<1>6. m >= 0 => m \in 1 .. Len(s) /\ m1 = m
  <2>1. m >= 0 => m \in 1 .. Len(s)  BY <1>0, <1>1
  <2> QED  BY <1>4, <2>1 DEF Kept
<1>7. Kept(p, p1)
  <2>1. m >= 0 => Kept(SkipSpaces(s, m), SkipSpaces(t, m1))  BY <1>5, <1>6
  <2> DEFINE y == SkipSpaces(s, m)
             z == SkipSpaces(t, m1)
  <2>2. m \in Codes  BY <1>1
  <2>3. m >= 0 => Kept(y, z)  BY <2>1
  <2> HIDE DEF y, z
  <2>4. Kept(IF m < 0 THEN m ELSE y, IF m1 < 0 THEN m1 ELSE z)  BY <1>4, <2>2, <2>3, KeptOn
  <2> QED  BY <1>2, <1>3, <2>4 DEF y, z
<1>8. p >= 0 => p \in 1 .. Len(s) /\ p1 = p
  <2>1. p >= 0 => p \in 1 .. Len(s)  BY <1>0, <1>1, <1>6
  <2> QED  BY <1>7, <2>1 DEF Kept
<1>9. Kept(q, q1)
  <2> DEFINE y == AdvanceToken(s, p)
             z == AdvanceToken(t, p1)
  <2>1. p >= 0 => Kept(y, z)
    <3> SUFFICES ASSUME p >= 0 PROVE Kept(y, z)  OBVIOUS
    <3>1. p \in Positions(s) /\ p1 = p  BY <1>0, <1>8 DEF Positions
    <3> QED  BY <3>1, KeepReach DEF AdvanceToken
  <2>2. p \in Codes  BY <1>1
  <2> HIDE DEF y, z
  <2>3. Kept(IF p < 0 THEN p ELSE y, IF p1 < 0 THEN p1 ELSE z)  BY <1>7, <2>1, <2>2, KeptOn
  <2> QED  BY <1>2, <1>3, <2>3 DEF y, z
<1>10. q >= 0 => q \in 1 .. Len(s) /\ q1 = q
  <2>1. q >= 0 => q \in 1 .. Len(s)  BY <1>0, <1>1, <1>8
  <2> QED  BY <1>9, <2>1 DEF Kept
<1>11. Kept(v, v1)
  <2> DEFINE y == SkipSpaces(s, q)
             z == SkipSpaces(t, q1)
  <2>1. q >= 0 => Kept(y, z)  BY <1>5, <1>10
  <2>2. q \in Codes  BY <1>1
  <2> HIDE DEF y, z
  <2>3. Kept(IF q < 0 THEN q ELSE y, IF q1 < 0 THEN q1 ELSE z)  BY <1>9, <2>1, <2>2, KeptOn
  <2> QED  BY <1>2, <1>3, <2>3 DEF y, z
<1>12. v >= 0 => v \in 1 .. Len(s) /\ v1 = v
  <2>1. v >= 0 => v \in 1 .. Len(s)  BY <1>0, <1>1, <1>10
  <2> QED  BY <1>11, <2>1 DEF Kept
<1>13. Kept(w, w1)
  <2> DEFINE y == IF m = i \/ q = p THEN Bad ELSE Version(s, v)
             z == IF m1 = i \/ q1 = p1 THEN Bad ELSE Version(t, v1)
  <2>1. v >= 0 => Kept(y, z)
    <3> SUFFICES ASSUME v >= 0 PROVE Kept(y, z)  OBVIOUS
    <3>1. q >= 0 /\ p >= 0 /\ m >= 0  BY <1>1
    <3>2. v \in 1 .. Len(s) /\ v1 = v /\ q1 = q /\ p1 = p /\ m1 = m
      BY <1>6, <1>8, <1>10, <1>12, <3>1
    <3>3. Kept(Version(s, v), Version(t, v))  BY <3>2, KeepVersion
    <3>4. CASE m = i \/ q = p
      <4>1. y = Bad /\ z = Bad  BY <3>2, <3>4
      <4> QED  BY <4>1, KeptSame
    <3>5. CASE ~(m = i \/ q = p)
      <4>1. y = Version(s, v) /\ z = Version(t, v)  BY <3>2, <3>5
      <4> QED  BY <3>3, <4>1
    <3> QED  BY <3>4, <3>5
  <2>2. v \in Codes  BY <1>1
  <2> HIDE DEF y, z
  <2>3. Kept(IF v < 0 THEN v ELSE y, IF v1 < 0 THEN v1 ELSE z)  BY <1>11, <2>1, <2>2, KeptOn
  <2> QED  BY <1>2, <1>3, <2>3 DEF y, z
<1>14. w >= 0 => w \in Positions(s) /\ w1 = w
  <2>1. w >= 0 => w \in 1 .. Len(s) + 1  BY <1>0, <1>1, <1>12
  <2> QED  BY <1>13, <2>1 DEF Kept, Positions
<1>15. Kept(x, r1)
  <2> DEFINE y == LineEnd(s, w)
             z == LineEnd(t, w1)
  <2>1. w >= 0 => Kept(y, z)  BY <1>14, KeepLineEnd
  <2>2. w \in Codes  BY <1>1
  <2> HIDE DEF y, z
  <2>3. Kept(IF w < 0 THEN w ELSE y, IF w1 < 0 THEN w1 ELSE z)  BY <1>13, <2>1, <2>2, KeptOn
  <2> QED  BY <1>2, <1>3, <2>3 DEF y, z
<1> QED  BY <1>15 DEF x, r1

\* Where the headers begin.
LEMMA KeepHead ==
  ASSUME NEW s \in Seq(Bytes), NEW t \in Seq(Bytes), Grown(s, t)
  PROVE  Kept(RequestHead(s), RequestHead(t))
<1> DEFINE i == RequestStart(s)
           j == RequestStart(t)
<1>0. Len(s) \in Nat /\ Len(t) \in Nat /\ Len(s) <= Len(t) /\ 1 \in Positions(s)
      /\ \A n \in 1 .. Len(s) : t[n] = s[n]
  BY DEF Positions, Grown
<1>1. Kept(i, j)
  <2>1. CASE s = << >>
    <3>1. i = More  BY <2>1 DEF RequestStart
    <3> QED  BY <3>1, KeptMore
  <2>2. CASE s # << >>
    <3>1. t # << >> /\ t[1] = s[1]
      <4>1. 1 \in 1 .. Len(s)  BY <1>0, <2>2
      <4>2. Len(t) # 0  BY <1>0, <4>1
      <4> QED  BY <1>0, <4>1, <4>2
    <3>2. CASE s[1] \in {"CR", "LF"}
      <4>1. i = LineEnd(s, 1) /\ j = LineEnd(t, 1)  BY <2>2, <3>1, <3>2 DEF RequestStart
      <4> QED  BY <1>0, <4>1, KeepLineEnd
    <3>3. CASE s[1] \notin {"CR", "LF"}
      <4>1. i = 1 /\ j = 1  BY <2>2, <3>1, <3>3 DEF RequestStart
      <4> QED  BY <4>1, KeptSame
    <3> QED  BY <3>2, <3>3
  <2> QED  BY <2>1, <2>2
<1>2. i \in Codes /\ (i >= 0 => i \in Positions(s))  BY HeadPlaced
<1> DEFINE y == RequestLineEnd(s, i)
           z == RequestLineEnd(t, j)
<1>3. RequestHead(s) = IF i < 0 THEN i ELSE y  BY DEF RequestHead, Then
<1>4. RequestHead(t) = IF j < 0 THEN j ELSE z  BY DEF RequestHead, Then
<1> HIDE DEF i, j
<1>5. i >= 0 => Kept(y, z)
  <2> SUFFICES ASSUME i >= 0 PROVE Kept(y, z)  OBVIOUS
  <2>1. i \in Positions(s) /\ j = i  BY <1>1, <1>2 DEF Kept
  <2> QED  BY <2>1, KeepRequestLine
<1> HIDE DEF y, z
<1>6. Kept(IF i < 0 THEN i ELSE y, IF j < 0 THEN j ELSE z)  BY <1>1, <1>2, <1>5, KeptOn
<1> QED  BY <1>3, <1>4, <1>6

\* The line of a header.
LEMMA KeepLine ==
  ASSUME NEW s \in Seq(Bytes), NEW t \in Seq(Bytes), Grown(s, t), NEW i \in 1 .. Len(s),
         NEW n \in Nat
  PROVE  Kept(NextLine(s, i, n), NextLine(t, i, n))
<1> DEFINE c == Token(s, i, ":")
           c1 == Token(t, i, ":")
           v == ValueAt(s, i, n)
           v1 == ValueAt(t, i, n)
<1>0. Len(s) \in Nat /\ i \in 1 .. Len(s) /\ i \in Positions(s) /\ Codes \subseteq Int
      /\ t[i] = s[i]
  BY DEF Positions, Codes, More, Bad, Grown
<1>1. Kept(c, c1)  BY <1>0, KeepReach DEF Token
<1>2. c \in Codes /\ (c >= 0 => c \in i .. Len(s))
  <2>1. c \in Codes  BY <1>0, PartCodes DEF Token
  <2>2. ":" \in {"SP", ":"}  OBVIOUS
  <2> QED  BY <1>0, <2>1, <2>2, TokenIs
<1> DEFINE y == IF c = i THEN Bad ELSE SkipBlanks(s, c + 1)
           z == IF c1 = i THEN Bad ELSE SkipBlanks(t, c1 + 1)
<1>3. v = IF Folded(s, i, n) THEN i ELSE IF c < 0 THEN c ELSE y  BY DEF ValueAt, Then
<1>4. v1 = IF Folded(t, i, n) THEN i ELSE IF c1 < 0 THEN c1 ELSE z  BY DEF ValueAt, Then
<1>5. Folded(t, i, n) <=> Folded(s, i, n)  BY <1>0 DEF Folded
<1> HIDE DEF c, c1
<1>6. c >= 0 => Kept(y, z)
  <2> SUFFICES ASSUME c >= 0 PROVE Kept(y, z)  OBVIOUS
  <2>1. c1 = c /\ c + 1 \in Positions(s)  BY <1>0, <1>1, <1>2 DEF Kept, Positions
  <2>2. Kept(SkipBlanks(s, c + 1), SkipBlanks(t, c + 1))  BY <2>1, KeepReach DEF SkipBlanks
  <2>3. CASE c = i
    <3>1. y = Bad /\ z = Bad  BY <2>1, <2>3
    <3> QED  BY <3>1, KeptSame
  <2>4. CASE c # i
    <3>1. y = SkipBlanks(s, c + 1) /\ z = SkipBlanks(t, c + 1)  BY <2>1, <2>4
    <3> QED  BY <2>2, <3>1
  <2> QED  BY <2>3, <2>4
<1> HIDE DEF y, z
<1>7. Kept(IF c < 0 THEN c ELSE y, IF c1 < 0 THEN c1 ELSE z)  BY <1>1, <1>2, <1>6, KeptOn
<1>8. Kept(v, v1)
  <2>1. CASE Folded(s, i, n)
    <3>1. v = i /\ v1 = i  BY <1>3, <1>4, <1>5, <2>1
    <3> QED  BY <3>1, KeptSame
  <2>2. CASE ~Folded(s, i, n)  BY <1>3, <1>4, <1>5, <1>7, <2>2
  <2> QED  BY <2>1, <2>2
<1>9. v >= 0 => v \in i .. Len(s)  BY ValueIs
<1>10. v \in Codes
  <2>1. i \in Codes /\ Bad \in Codes  BY <1>0 DEF Codes
  <2>2. c >= 0 => y \in Codes
    <3> SUFFICES ASSUME c >= 0 PROVE y \in Codes  OBVIOUS
    <3>1. c + 1 \in Positions(s)  BY <1>0, <1>2 DEF Positions
    <3>2. SkipBlanks(s, c + 1) \in Codes  BY <3>1, PartCodes DEF SkipBlanks
    <3> QED  BY <2>1, <3>2 DEF y
  <2> HIDE DEF v
  <2> QED  BY <1>0, <1>2, <1>3, <2>1, <2>2
<1>11. NextLine(s, i, n) = IF v < 0 THEN v ELSE ToEol(s, v)  BY DEF NextLine, Then
<1>12. NextLine(t, i, n) = IF v1 < 0 THEN v1 ELSE ToEol(t, v1)  BY DEF NextLine, Then
<1> HIDE DEF v, v1
<1> DEFINE a == ToEol(s, v)
           b == ToEol(t, v1)
<1>13. v >= 0 => Kept(a, b)
  <2> SUFFICES ASSUME v >= 0 PROVE Kept(a, b)  OBVIOUS
  <2>1. v1 = v /\ v \in Positions(s)  BY <1>0, <1>8, <1>9 DEF Kept, Positions
  <2> QED  BY <2>1, KeepToEol
<1> HIDE DEF a, b
<1>14. Kept(IF v < 0 THEN v ELSE a, IF v1 < 0 THEN v1 ELSE b)  BY <1>8, <1>10, <1>13, KeptOn
<1> QED  BY <1>11, <1>12, <1>14 DEF a, b

\* The headers, at any place of the shorter text.
LEMMA KeepHeaders ==
  ASSUME NEW s \in Seq(Bytes), NEW t \in Seq(Bytes), Grown(s, t), NEW max \in Nat,
         NEW H, Lines(s, max, H), NEW K, Lines(t, max, K), NEW at \in HeaderPlaces(s, max)
  PROVE  Kept(H[at].ret, K[at].ret)
<1>0. Len(s) \in Nat /\ Len(t) \in Nat /\ Len(s) <= Len(t) /\ Codes \subseteq Int
      /\ \A n \in 1 .. Len(s) : t[n] = s[n]
  BY DEF Codes, More, Bad, Grown
<1> DEFINE A == HeaderPlaces(s, max)
           rank == [b \in A |-> Len(s) + 1 - b[1]]
           S == {b \in A : Kept(H[b].ret, K[b].ret)}
<1>1. rank \in [A -> Nat]
  <2> SUFFICES ASSUME NEW b \in A PROVE Len(s) + 1 - b[1] \in Nat  OBVIOUS
  <2>1. b[1] \in 1 .. Len(s) + 1  BY DEF HeaderPlaces, Positions
  <2> QED  BY <1>0, <2>1
<1>2. ASSUME NEW a \in A PROVE a \in HeaderPlaces(t, max)
  <2>1. Positions(s) \subseteq Positions(t)  BY <1>0 DEF Positions
  <2> QED  BY <2>1 DEF HeaderPlaces
<1>3. ASSUME NEW a \in A, \A b \in A : rank[b] < rank[a] => b \in S PROVE a \in S
  <2> DEFINE i == a[1]
             n == a[2]
             e == NextLine(s, i, n)
             d == NextLine(t, i, n)
             to == <<e, n + 1>>
             on == <<d, n + 1>>
  <2>1. i \in Positions(s) /\ i \in 1 .. Len(s) + 1 /\ i \in Int /\ n \in Nat
    <3>1. n \in 0 .. max  BY DEF HeaderPlaces
    <3> QED  BY <1>0, <3>1 DEF HeaderPlaces, Positions
  <2>2. /\ AtEnd(s, i) \/ s[i] \in {"CR", "LF"} => H[a].ret = LineEnd(s, i)
        /\ ~(AtEnd(s, i) \/ s[i] \in {"CR", "LF"}) =>
             /\ n = max => H[a].ret = Bad
             /\ n # max =>
                  /\ i \in 1 .. Len(s) /\ e \in Codes
                  /\ e < 0 => H[a].ret = e
                  /\ ~(e < 0) => H[a].ret = H[to].ret /\ to \in A /\ e \in Int /\ e > i
    BY HeaderRet
  <2>3. /\ AtEnd(t, i) \/ t[i] \in {"CR", "LF"} => K[a].ret = LineEnd(t, i)
        /\ ~(AtEnd(t, i) \/ t[i] \in {"CR", "LF"}) =>
             /\ n = max => K[a].ret = Bad
             /\ n # max =>
                  /\ i \in 1 .. Len(t) /\ d \in Codes
                  /\ d < 0 => K[a].ret = d
                  /\ ~(d < 0) => /\ K[a].ret = K[on].ret /\ on \in HeaderPlaces(t, max)
                                 /\ d \in Int /\ d > i
    <3> DEFINE B == HeaderPlaces(t, max)
    <3>1. a \in B  BY <1>2
    <3> HIDE DEF A
    <3> QED  BY <3>1, HeaderRet
  <2>4. CASE AtEnd(s, i)
    <3>1. H[a].ret = LineEnd(s, i)  BY <2>2, <2>4
    <3>2. LineEnd(s, i) = More  BY <2>4 DEF LineEnd
    <3>3. Kept(H[a].ret, K[a].ret)  BY <3>1, <3>2, KeptMore
    <3> QED  BY <3>3
  <2>5. CASE ~AtEnd(s, i)
    <3>1. i \in 1 .. Len(s) /\ t[i] = s[i] /\ ~AtEnd(t, i)  BY <1>0, <2>1, <2>5 DEF AtEnd
    <3>2. CASE s[i] \in {"CR", "LF"}
      <4>1. H[a].ret = LineEnd(s, i) /\ K[a].ret = LineEnd(t, i)  BY <2>2, <2>3, <3>1, <3>2
      <4>2. Kept(LineEnd(s, i), LineEnd(t, i))  BY <2>1, KeepLineEnd
      <4>3. Kept(H[a].ret, K[a].ret)  BY <4>1, <4>2
      <4> QED  BY <4>3
    <3>3. CASE s[i] \notin {"CR", "LF"} /\ n = max
      <4>1. H[a].ret = Bad /\ K[a].ret = Bad  BY <2>2, <2>3, <2>5, <3>1, <3>3
      <4>2. Kept(H[a].ret, K[a].ret)  BY <4>1, KeptSame
      <4> QED  BY <4>2
    <3>4. CASE s[i] \notin {"CR", "LF"} /\ n # max
      <4> DEFINE x == H[to].ret
                 y == K[on].ret
                 h == H[a].ret
                 k == K[a].ret
      <4>1. /\ e \in Codes
            /\ e < 0 => h = e
            /\ ~(e < 0) => h = x /\ to \in A /\ e \in Int /\ e > i
        BY <2>2, <2>5, <3>4
      <4>2. (d < 0 => k = d) /\ (~(d < 0) => k = y)  BY <2>3, <3>1, <3>4
      <4>3. Kept(e, d)  BY <2>1, <3>1, KeepLine
      <4>4. e >= 0 => Kept(x, y)
        <5> SUFFICES ASSUME e >= 0 PROVE Kept(x, y)  OBVIOUS
        <5>1. ~(e < 0) /\ d = e
          <6> HIDE DEF e, d, x, y, h, k, to, on
          <6>1. e \in Int  BY <1>0, <4>1
          <6>2. d = e  BY <4>3 DEF Kept
          <6> QED  BY <6>1, <6>2
        <5>2. rank[to] = Len(s) + 1 - e /\ rank[a] = Len(s) + 1 - i  BY <4>1, <5>1
        <5>3. to \in A /\ e \in Int /\ e > i  BY <4>1, <5>1
        <5>4. on = to  BY <5>1
        <5> HIDE DEF e, d, rank, i
        <5>5. rank[to] < rank[a]  BY <1>0, <2>1, <5>2, <5>3
        <5>6. to \in S  BY <1>3, <5>3, <5>5
        <5>7. Kept(H[to].ret, K[to].ret)  BY <5>6
        <5> QED  BY <5>4, <5>7
      <4> HIDE DEF x, y, e, d, h, k
      <4>5. Kept(IF e < 0 THEN e ELSE x, IF d < 0 THEN d ELSE y)  BY <4>1, <4>3, <4>4, KeptOn
      <4>6. Kept(h, k)  BY <4>1, <4>2, <4>5
      <4> QED  BY <4>6 DEF h, k
    <3> QED  BY <3>2, <3>3, <3>4
  <2> QED  BY <2>4, <2>5
<1> HIDE DEF S, rank
<1>4. A \subseteq S  BY <1>1, <1>3, RankInduction
<1>5. at \in S  BY <1>4
<1> QED  BY <1>5 DEF S

\* So what parse_request has found or refused, it finds or refuses when more bytes
\* are there.
LEMMA RequestKept ==
  ASSUME NEW s \in Seq(Bytes), NEW t \in Seq(Bytes), Grown(s, t)
  PROVE  Kept(Whole(s).ret, Whole(t).ret)
<1> DEFINE g == RequestHead(s)
           h == RequestHead(t)
           m == MaxHeaders
<1>0. Len(s) \in Nat /\ Codes \subseteq Int /\ m \in Nat /\ Len(s) <= Len(t) /\ Len(t) \in Nat
  BY MessagesAssumption DEF Codes, More, Bad, MessagesAssumption, Grown
<1>1. Whole(s).ret = Headers(s, g, m).ret /\ Whole(t).ret = Headers(t, h, m).ret
  BY RequestWritten
<1>2. g \in Codes /\ (g >= 0 => g - 1 \in Feeds(s)) /\ h \in Codes
  BY HeadPlaced
<1>3. Kept(g, h)  BY KeepHead
<1> HIDE DEF g, h, m
<1>4. g \in Int /\ h \in Int  BY <1>0, <1>2
<1>5. PICK H : Lines(s, m, H) /\ Headers(s, g, m) = IF g < 0 THEN Failed(g) ELSE H[<<g, 0>>]
  BY <1>0, <1>4, HeadersUnfold
<1>6. PICK K : Lines(t, m, K) /\ Headers(t, h, m) = IF h < 0 THEN Failed(h) ELSE K[<<h, 0>>]
  BY <1>0, <1>4, HeadersUnfold
<1> DEFINE at == <<g, 0>>
           to == <<h, 0>>
           x == H[at].ret
           y == K[to].ret
<1>7. Headers(s, g, m).ret = IF g < 0 THEN g ELSE x  BY <1>5 DEF Failed
<1>8. Headers(t, h, m).ret = IF h < 0 THEN h ELSE y  BY <1>6 DEF Failed
<1>9. g >= 0 => Kept(x, y)
  <2> SUFFICES ASSUME g >= 0 PROVE Kept(x, y)  OBVIOUS
  <2>1. h = g  BY <1>3 DEF Kept
  <2>2. g \in Positions(s)
    <3> DEFINE f == g - 1
    <3>1. f \in Feeds(s) /\ g = f + 1  BY <1>2, <1>4
    <3> HIDE DEF f
    <3>2. f \in Nat /\ f <= Len(s)  BY <3>1, FeedsType
    <3> QED  BY <1>0, <3>1, <3>2 DEF Positions
  <2>3. 0 \in 0 .. m  BY <1>0
  <2>4. at \in HeaderPlaces(s, m) /\ to = at  BY <2>1, <2>2, <2>3 DEF HeaderPlaces
  <2> HIDE DEF at, to
  <2>5. Kept(H[at].ret, K[at].ret)  BY <1>0, <1>5, <1>6, <2>4, KeepHeaders
  <2> QED  BY <2>4, <2>5
<1> HIDE DEF x, y
<1>10. Kept(IF g < 0 THEN g ELSE x, IF h < 0 THEN h ELSE y)  BY <1>2, <1>3, <1>9, KeptOn
<1>11. Kept(Headers(s, g, m).ret, Headers(t, h, m).ret)  BY <1>7, <1>8, <1>10
<1> QED  BY <1>1, <1>11

\* The same for the search for the blank line.
LEMMA CompleteKept ==
  ASSUME NEW s \in Seq(Bytes), NEW t \in Seq(Bytes), Grown(s, t), NEW i \in Positions(s)
  PROVE  Kept(IsComplete(s, i), IsComplete(t, i))
<1>0. Len(s) \in Nat /\ Len(t) \in Nat /\ Len(s) <= Len(t) /\ Codes \subseteq Int
      /\ \A n \in 1 .. Len(s) : t[n] = s[n]
  BY DEF Codes, More, Bad, Grown
<1>1. PICK f : /\ \A at \in Places(s) : f[at] = SeekStep(s, at, f)
               /\ IsComplete(s, i) = f[<<i, 0>>]
  BY CompleteUnfolds
<1>2. Positions(s) \subseteq Positions(t)  BY <1>0 DEF Positions
<1>3. PICK g : /\ \A at \in Places(t) : g[at] = SeekStep(t, at, g)
               /\ IsComplete(t, i) = g[<<i, 0>>]
  BY <1>2, CompleteUnfolds
<1> DEFINE A == Places(s)
           rank == [b \in A |-> Len(s) + 1 - b[1]]
           S == {b \in A : Kept(f[b], g[b])}
<1>4. rank \in [A -> Nat]
  <2> SUFFICES ASSUME NEW b \in A PROVE Len(s) + 1 - b[1] \in Nat  OBVIOUS
  <2>1. b[1] \in 1 .. Len(s) + 1  BY DEF Places, Positions
  <2> QED  BY <1>0, <2>1
<1>5. ASSUME NEW a \in A, \A b \in A : rank[b] < rank[a] => b \in S PROVE a \in S
  <2> DEFINE p == a[1]
             n == a[2]
             e == LineEnd(s, p)
             d == LineEnd(t, p)
             to == <<e, n + 1>>
             th == <<d, n + 1>>
             on == <<p + 1, 0>>
  <2>1. a \in Places(t)  BY <1>2 DEF Places
  <2>2. f[a] = SeekStep(s, a, f) /\ g[a] = SeekStep(t, a, g)  BY <1>1, <1>3, <2>1
  <2>3. p \in Positions(s) /\ p \in 1 .. Len(s) + 1 /\ n \in 0 .. 2  BY DEF Places, Positions
  <2>4. CASE n = 2
    <3>1. f[a] = p /\ g[a] = p  BY <2>2, <2>4 DEF SeekStep
    <3>2. Kept(f[a], g[a])  BY <3>1, KeptSame
    <3> QED  BY <3>2
  <2>5. CASE n # 2 /\ AtEnd(s, p)
    <3>1. f[a] = More  BY <2>2, <2>5 DEF SeekStep
    <3>2. Kept(f[a], g[a])  BY <3>1, KeptMore
    <3> QED  BY <3>2
  <2>6. CASE n # 2 /\ ~AtEnd(s, p)
    <3>1. t[p] = s[p] /\ ~AtEnd(t, p) /\ p \in 1 .. Len(s)  BY <1>0, <2>3, <2>6 DEF AtEnd
    <3>2. CASE s[p] \in {"CR", "LF"}
      <4> DEFINE x == f[to]
                 y == g[th]
      <4>1. f[a] = IF e < 0 THEN e ELSE x  BY <2>2, <2>6, <3>2 DEF SeekStep
      <4>2. g[a] = IF d < 0 THEN d ELSE y  BY <2>2, <2>6, <3>1, <3>2 DEF SeekStep
      <4>3. e \in Codes /\ Kept(e, d)  BY <2>3, PartCodes, KeepLineEnd
      <4>4. e >= 0 => Kept(x, y)
        <5> SUFFICES ASSUME e >= 0 PROVE Kept(x, y)  OBVIOUS
        <5>1. e \in p + 1 .. Len(s) + 1  BY <2>3, LineEndIs
        <5>2. th = to  BY <4>3 DEF Kept
        <5> HIDE DEF e, d
        <5>3. e \in Positions(s) /\ Len(s) + 1 - e < Len(s) + 1 - p /\ n + 1 \in 0 .. 2
          BY <1>0, <2>3, <2>6, <5>1 DEF Positions
        <5>4. to \in A /\ to[1] = e  BY <5>3 DEF Places
        <5>5. rank[to] < rank[a]  BY <5>3, <5>4
        <5>6. to \in S  BY <1>5, <5>4, <5>5
        <5>7. Kept(f[to], g[to])  BY <5>6
        <5> QED  BY <5>2, <5>7
      <4> HIDE DEF x, y, e, d
      <4>5. Kept(IF e < 0 THEN e ELSE x, IF d < 0 THEN d ELSE y)  BY <4>3, <4>4, KeptOn
      <4>6. Kept(f[a], g[a])  BY <4>1, <4>2, <4>5
      <4> QED  BY <4>6
    <3>3. CASE s[p] \notin {"CR", "LF"}
      <4>1. f[a] = f[on] /\ g[a] = g[on]  BY <2>2, <2>6, <3>1, <3>3 DEF SeekStep
      <4>2. p + 1 \in Positions(s) /\ Len(s) + 1 - (p + 1) < Len(s) + 1 - p /\ 0 \in 0 .. 2
        BY <1>0, <3>1 DEF Positions
      <4>3. on \in A /\ on[1] = p + 1  BY <4>2 DEF Places
      <4>4. rank[on] < rank[a]  BY <4>2, <4>3
      <4>5. on \in S  BY <1>5, <4>3, <4>4
      <4>6. Kept(f[a], g[a])  BY <4>1, <4>5
      <4> QED  BY <4>6
    <3> QED  BY <3>2, <3>3
  <2> QED  BY <2>4, <2>5, <2>6
<1> HIDE DEF S, rank
<1>6. A \subseteq S  BY <1>4, <1>5, RankInduction
<1> DEFINE b == <<i, 0>>
<1>7. b \in A  BY DEF Places
<1> HIDE DEF b
<1>8. b \in S  BY <1>6, <1>7
<1> QED  BY <1>1, <1>3, <1>8 DEF S, b

------------------------------------------------------------------------------
(***************************************************************************)
(* Messages: the properties.                                               *)
(***************************************************************************)
TextType == text \in Seq(Bytes)

\* A text is one of bytes.
LEMMA TextTypeKept == TextSpec => []TextType
<1>1. TextInit => TextType
  BY MessagesAssumption DEF TextInit, TextType, MessagesAssumption
<1>2. TextType /\ [TextNext]_textVars => TextType'
  <2> SUFFICES ASSUME TextType, [TextNext]_textVars PROVE TextType'  OBVIOUS
  <2>1. CASE TextNext
    <3>1. PICK b \in Bytes : text' = Append(text, b)  BY <2>1 DEF TextNext
    <3> DEFINE B == Bytes
    <3>2. text \in Seq(B) /\ b \in B  BY DEF TextType
    <3> HIDE DEF B
    <3>3. Append(text, b) \in Seq(B)  BY <3>2, AppendProperties
    <3> QED  BY <3>1, <3>3 DEF TextType, B
  <2>2. CASE UNCHANGED textVars  BY <2>2 DEF textVars, TextType
  <2> QED  BY <2>1, <2>2
<1> QED  BY <1>1, <1>2, PTL DEF TextSpec

\* The prefixes of a kind, when there is one for a position and none for a failure.
LEMMA FoundWhere ==
  ASSUME NEW s \in Seq(Bytes), NEW r \in Codes, r >= 0 => r - 1 \in DOMAIN s, NEW D,
         \A k : k \in D <=> k \in DOMAIN s /\ r = k + 1
  PROVE  D = IF r \in {More, Bad} THEN {} ELSE {r - 1}
<1>0. Len(s) \in Nat /\ DOMAIN s = 1 .. Len(s)  OBVIOUS
<1>1. CASE r \in {More, Bad}
  <2>1. r < 0  BY <1>1 DEF More, Bad
  <2>2. \A k : k \notin D  BY <1>0, <2>1
  <2> QED  BY <1>1, <2>2
<1>2. CASE r \notin {More, Bad}
  <2>1. r \in Nat  BY <1>2 DEF Codes
  <2>2. r - 1 \in DOMAIN s /\ r = (r - 1) + 1  BY <2>1
  <2>3. \A k : k \in D <=> k = r - 1  BY <1>0, <2>1, <2>2
  <2> QED  BY <1>2, <2>3
<1> QED  BY <1>1, <1>2

\* A request is found where it ends.
LEMMA RequestFound ==
  ASSUME NEW s \in Seq(Bytes)
  PROVE  Finds(s, Whole(s).ret, IsRequest)
<1> DEFINE r == Whole(s).ret
           D == {k \in DOMAIN s : IsRequest(Prefix(s, k))}
<1>1. r \in Codes  BY RequestWritten
<1>2. r >= 0 => r - 1 \in DOMAIN s  BY RequestFields
<1>3. \A k \in DOMAIN s : IsRequest(Prefix(s, k)) <=> r = k + 1  BY RequestExact
<1> HIDE DEF r
<1>4. \A k : k \in D <=> k \in DOMAIN s /\ r = k + 1  BY <1>3
<1> HIDE DEF D
<1>5. D = IF r \in {More, Bad} THEN {} ELSE {r - 1}  BY <1>1, <1>2, <1>4, FoundWhere
<1> QED  BY <1>5 DEF Finds, D, r

\* So is a response, also by a later call.
LEMMA ResponseFound ==
  ASSUME NEW s \in Seq(Bytes), NEW last
  PROVE  Finds(s, ResponseOrMore(s, MaxHeaders, last, 1).ret, IsResponse)
<1> DEFINE q == ParseResponse(s, MaxHeaders).ret
           c == IsComplete(s, 1)
           r == ResponseOrMore(s, MaxHeaders, last, 1).ret
           h0 == ResponseHead(s)
           D == {k \in DOMAIN s : IsResponse(Prefix(s, k))}
<1>0. Len(s) \in Nat /\ DOMAIN s = 1 .. Len(s) /\ 1 \in Positions(s) /\ Codes \subseteq Int
  BY DEF Positions, Codes, More, Bad
<1>1. /\ q \in Codes
      /\ q >= 0 => h0 >= 0 /\ q - 1 \in Feeds(s) /\ h0 < q
  BY ResponseWritten
<1>2. q >= 0 => q - 1 \in DOMAIN s
  <2> SUFFICES ASSUME q >= 0 PROVE q - 1 \in DOMAIN s  OBVIOUS
  <2>1. h0 >= 0 /\ q - 1 \in Feeds(s) /\ h0 < q  BY <1>1
  <2> DEFINE a == StatusAt(s)
             e == Eol(s, a + 3)
  <2>2. h0 \in Codes /\ a \in 4 .. Len(s) /\ e \in a + 3 .. Len(s) /\ h0 = LineEnd(s, e)
    BY <2>1, StatusPlaced
  <2> HIDE DEF q, h0, a, e
  <2>3. e \in Positions(s) /\ e \in Nat  BY <1>0, <2>2 DEF Positions
  <2>4. h0 \in e + 1 .. Len(s) + 1  BY <2>1, <2>2, <2>3, LineEndIs
  <2>5. q \in Int /\ q - 1 \in 0 .. Len(s)
    <3>1. Feeds(s) \in SUBSET (0 .. Len(s))  BY FeedsType
    <3> QED  BY <1>0, <1>1, <2>1, <3>1
  <2> QED  BY <1>0, <2>1, <2>3, <2>4, <2>5
<1>3. \A k \in DOMAIN s : IsResponse(Prefix(s, k)) <=> q = k + 1  BY ResponseExact
<1>4. c \in Codes  BY <1>0, CompleteCodes
<1>5. q >= 0 => c \in Nat  BY ResponseEnds
<1>6. r = IF last # 0 /\ c < 0 THEN c ELSE q  BY DEF ResponseOrMore, NoResponse
<1> HIDE DEF q, c, r, h0
<1>7. r \in Codes /\ (r >= 0 => r - 1 \in DOMAIN s) /\ \A k \in DOMAIN s : r = k + 1 <=> q = k + 1
  <2>1. CASE last # 0 /\ c < 0
    <3>1. r = c /\ ~(r >= 0) /\ r < 0  BY <1>0, <1>4, <1>6, <2>1
    <3>2. ~(q >= 0)  BY <1>5, <2>1
    <3>3. \A k \in DOMAIN s : k + 1 >= 0  BY <1>0
    <3> QED  BY <1>4, <3>1, <3>2, <3>3
  <2>2. CASE ~(last # 0 /\ c < 0)
    <3>1. r = q  BY <1>6, <2>2
    <3> QED  BY <1>1, <1>2, <3>1
  <2> QED  BY <2>1, <2>2
<1>8. \A k : k \in D <=> k \in DOMAIN s /\ r = k + 1  BY <1>3, <1>7
<1> HIDE DEF D
<1>9. D = IF r \in {More, Bad} THEN {} ELSE {r - 1}  BY <1>7, <1>8, FoundWhere
<1> QED  BY <1>9 DEF Finds, D, r

\* And headers alone.
LEMMA HeadersFound ==
  ASSUME NEW s \in Seq(Bytes)
  PROVE  Finds(s, HeadersOrMore(s, MaxHeaders, 0, 1).ret, AreOnlyHeaders)
<1> DEFINE r == HeadersOrMore(s, MaxHeaders, 0, 1).ret
           f == 0
           h == Headers(s, f + 1, MaxHeaders)
           D == {k \in DOMAIN s : AreOnlyHeaders(Prefix(s, k))}
<1>0. Len(s) \in Nat /\ DOMAIN s = 1 .. Len(s) /\ Codes \subseteq Int /\ f + 1 = 1
  BY DEF Codes, More, Bad
<1>1. r = Headers(s, 1, MaxHeaders).ret  BY DEF HeadersOrMore
<1>2. f \in Feeds(s) /\ f = 0  BY FeedsType
<1> HIDE DEF f
<1>3. h.ret \in Codes /\ (h.ret >= 0 => h.ret - 1 \in Feeds(s) /\ f < h.ret - 1)
  BY <1>2, HeadersBehind
<1>4. r = h.ret  BY <1>0, <1>1
<1>5. \A k \in DOMAIN s : AreOnlyHeaders(Prefix(s, k)) <=> r = k + 1
  BY <1>1, OnlyHeadersExact
<1> HIDE DEF r, h
<1>6. r >= 0 => r - 1 \in DOMAIN s
  <2> SUFFICES ASSUME r >= 0 PROVE r - 1 \in DOMAIN s  OBVIOUS
  <2>1. r - 1 \in Feeds(s) /\ 0 < r - 1  BY <1>2, <1>3, <1>4
  <2>2. Feeds(s) \in SUBSET (0 .. Len(s))  BY FeedsType
  <2> QED  BY <1>0, <2>1, <2>2
<1>7. r \in Codes  BY <1>3, <1>4
<1>8. \A k : k \in D <=> k \in DOMAIN s /\ r = k + 1  BY <1>5
<1> HIDE DEF D
<1>9. D = IF r \in {More, Bad} THEN {} ELSE {r - 1}  BY <1>6, <1>7, <1>8, FoundWhere
<1> QED  BY <1>9 DEF Finds, D, r

\* picohttpparser.c:322, 411 and 488: the parsers of a request, a response and headers
\* alone take exactly what its lines say is one, in a buffer of any bytes that ends
\* anywhere, with any limit for the headers.
THEOREM ParsersExact == TextSpec => []MessagesExact
<1>1. TextType => MessagesExact
  <2> SUFFICES ASSUME TextType PROVE MessagesExact  OBVIOUS
  <2>1. text \in Seq(Bytes)  BY DEF TextType
  <2>2. Finds(text, Whole(text).ret, IsRequest)  BY <2>1, RequestFound
  <2>3. ASSUME NEW last \in {0, More}
        PROVE  Finds(text, ResponseOrMore(text, MaxHeaders, last, 1).ret, IsResponse)
    BY <2>1, ResponseFound
  <2>4. Finds(text, HeadersOrMore(text, MaxHeaders, 0, 1).ret, AreOnlyHeaders)
    BY <2>1, HeadersFound
  <2> QED  BY <2>2, <2>3, <2>4 DEF MessagesExact
<1> QED  BY <1>1, TextTypeKept, PTL

\* picohttpparser.c:316 and 335: method, path and headers of every request are what
\* its lines say.
THEOREM FieldsAreExact == TextSpec => []FieldsExact
<1>1. TextType => FieldsExact
  <2> SUFFICES ASSUME TextType, Whole(text).ret > 0
               PROVE  LET r == Whole(text)
                          L == RequestLines(Prefix(text, r.ret - 1))
                      IN  /\ r.method = Prefix(L[1], FirstOf(L[1], 1, {"SP"}) - 1)
                          /\ r.path = SubSeq(L[1], PathFrom(L[1]),
                                             FirstOf(L[1], PathFrom(L[1]), {"SP"}) - 1)
                          /\ r.headers = HeadersOf(Without1(L))
    BY DEF FieldsExact
  <2>1. text \in Seq(Bytes)  BY DEF TextType
  <2>2. Whole(text).ret >= 0
    <3>1. Whole(text).ret \in Codes  BY <2>1, RequestWritten
    <3> QED  BY <3>1 DEF Codes, More, Bad
  <2> QED  BY <2>1, <2>2, RequestFields
<1> QED  BY <1>1, TextTypeKept, PTL

\* http.c:151: the connection is closed at once for a text that is refused, whether it
\* was parsed or only searched for a blank line; whatever bytes came after it, they
\* could not make it a request.
THEOREM RefusalForEver ==
  ASSUME NEW s \in Seq(Bytes), NEW x \in Seq(Bytes), NEW last \in {0, More},
         RequestOrMore(s, MaxHeaders, last, 1).ret = Bad
  PROVE  ~IsRequest(s \o x)
<1> SUFFICES ASSUME IsRequest(s \o x) PROVE FALSE  OBVIOUS
<1> DEFINE t == s \o x
           B == Bytes
<1>1. Len(s) \in Nat /\ Len(x) \in Nat  OBVIOUS
<1>2. t \in Seq(Bytes) /\ Len(t) = Len(s) + Len(x) /\ \A j \in 1 .. Len(s) : t[j] = s[j]
  <2>1. s \in Seq(B) /\ x \in Seq(B)  OBVIOUS
  <2> HIDE DEF B
  <2>2. s \o x \in Seq(B) /\ Len(s \o x) = Len(s) + Len(x)
        /\ \A j \in 1 .. Len(s) + Len(x) : (s \o x)[j] = IF j <= Len(s) THEN s[j] ELSE x[j - Len(s)]
    BY <2>1, ConcatProperties
  <2> QED  BY <1>1, <2>2 DEF B
<1>3. t # << >>  BY DEF IsRequest, EndsLine
<1>4. IsRequest(t)  OBVIOUS
<1> HIDE DEF t
<1>5. Grown(s, t) /\ Len(t) \in Nat /\ Len(t) >= 1
  <2>1. Len(t) \in Nat /\ Len(t) # 0  BY <1>2, <1>3, EmptySeq
  <2> QED  BY <1>1, <1>2, <2>1 DEF Grown
<1>6. Whole(t).ret = Len(t) + 1
  <2>1. Prefix(t, Len(t)) = t  BY <1>2, SubSeqFull DEF Prefix
  <2>2. Len(t) \in DOMAIN t  BY <1>2, <1>5
  <2> QED  BY <1>2, <1>4, <2>1, <2>2, RequestExact
<1>7. Whole(t).ret > 0 /\ Whole(t).ret # Bad  BY <1>5, <1>6 DEF Bad
<1>8. Whole(s).ret # Bad  BY <1>2, <1>5, <1>7, RequestKept DEF Kept
<1>9. RequestOrMore(s, MaxHeaders, last, 1).ret =
        IF last # 0 /\ IsComplete(s, 1) < 0 THEN IsComplete(s, 1) ELSE Whole(s).ret
  BY DEF RequestOrMore, NoRequest, Whole
<1>10. IsComplete(s, 1) = Bad  BY <1>8, <1>9
<1>11. 1 \in Positions(s)  BY <1>1 DEF Positions
<1>12. IsComplete(t, 1) = Bad  BY <1>2, <1>5, <1>10, <1>11, CompleteKept DEF Kept
<1>13. IsComplete(t, 1) \in Nat
  <2>1. MaxHeaders \in Nat  BY MessagesAssumption DEF MessagesAssumption
  <2>2. ParseRequest(t, MaxHeaders).ret > 0  BY <1>7 DEF Whole
  <2> QED  BY <1>2, <2>1, <2>2, RequestEnds
<1> QED  BY <1>12, <1>13 DEF Bad

\* The same as an invariant, for the endings that the runs try.
THEOREM RefusalIsRight == TextSpec => []RefusedForGood
<1>1. TextType => RefusedForGood
  <2> SUFFICES ASSUME TextType, NEW last \in {0, More},
                      RequestOrMore(text, MaxHeaders, last, 1).ret = Bad,
                      NEW x \in Endings
               PROVE  ~IsRequest(text \o x)
    BY DEF RefusedForGood
  <2> DEFINE B == Bytes
  <2>1. /\ "LF" \in B /\ "1" \in B /\ "V" \in B /\ "SP" \in B /\ "/" \in B /\ ":" \in B
        /\ "t" \in B
    BY DEF Bytes, Controls, TokenChars, Blanks
  <2> HIDE DEF B
  <2>2. x \in Seq(B)
    <3>1. CASE x = <<"LF">>  BY <2>1, <3>1
    <3>2. CASE x = <<"LF", "LF">>  BY <2>1, <3>2
    <3>3. CASE x = <<"1", "LF", "LF">>  BY <2>1, <3>3
    <3>4. CASE x = <<":", "LF", "LF">>  BY <2>1, <3>4
    <3>5. CASE x = <<"t", ":", "LF", "LF">>  BY <2>1, <3>5
    <3>6. CASE x = <<"V", "1", "LF", "LF">>  BY <2>1, <3>6
    <3>7. CASE x = <<"SP", "V", "1", "LF", "LF">>  BY <2>1, <3>7
    <3>8. CASE x = <<"SP", "/", "SP", "V", "1", "LF", "LF">>  BY <2>1, <3>8
    <3> QED  BY <3>1, <3>2, <3>3, <3>4, <3>5, <3>6, <3>7, <3>8 DEF Endings
  <2>3. text \in Seq(Bytes) /\ x \in Seq(Bytes)  BY <2>2 DEF B, TextType
  <2> QED  BY <2>3, RefusalForEver
<1> QED  BY <1>1, TextTypeKept, PTL
=============================================================================
