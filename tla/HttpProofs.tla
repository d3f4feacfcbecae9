----------------------------- MODULE HttpProofs -----------------------------
(***************************************************************************)
(* What holds of the serving of a request, for requests, paths and files   *)
(* of any number and length, with any limits: is_safe_path decides what it *)
(* should, only files below static/ are opened, a header cannot undo a     *)
(* refusal, the cache of files never points at a descriptor that is        *)
(* somebody else's, and what a client is sent is in order.                 *)
(***************************************************************************)
EXTENDS HttpPath, HttpCheck, Responses, Recursion, FiniteSetTheorems, SequenceTheorems, TLAPS

\* A position of a sequence.
LEMMA AtType ==
  ASSUME NEW V, NEW s \in Seq(V), NEW i \in 1 .. Len(s)
  PROVE  Len(s) \in Nat /\ DOMAIN s = 1 .. Len(s) /\ s[i] \in V
OBVIOUS

\* A sequence with one element more.
LEMMA AppendFacts ==
  ASSUME NEW V, NEW s \in Seq(V), NEW x \in V
  PROVE  /\ Append(s, x) \in Seq(V) /\ Len(Append(s, x)) = Len(s) + 1
         /\ DOMAIN Append(s, x) = 1 .. Len(s) + 1
         /\ \A i \in 1 .. Len(s) : Append(s, x)[i] = s[i]
         /\ Append(s, x)[Len(s) + 1] = x
OBVIOUS
------------------------------------------------------------------------------
(***************************************************************************)
(* The checks of a request.                                                *)
(***************************************************************************)
Header == [name : Names, value : Values]

\* The request keeps its type while its headers are read.
ReqType ==
  req \in [minor_version : {0, 1, 2}, method : {"GET", "other"}, safe : BOOLEAN,
           headers : Seq(Header)]

\* find_header answers with the first of the name, or -1.
LEMMA FoundFirst ==
  ASSUME NEW r, r.headers \in Seq(Header), NEW name
  PROVE  LET f == FindHeader(r, name) IN
         \/ f = -1 /\ \A i \in 1 .. Len(r.headers) : r.headers[i].name # name
         \/ /\ f \in 1 .. Len(r.headers) /\ r.headers[f].name = name
            /\ \A i \in 1 .. Len(r.headers) : r.headers[i].name = name => f <= i
<1> DEFINE I == {i \in DOMAIN r.headers : r.headers[i].name = name}
<1>1. Len(r.headers) \in Nat /\ DOMAIN r.headers = 1 .. Len(r.headers)  OBVIOUS
<1>2. CASE I = {}
  BY <1>1, <1>2 DEF FindHeader
<1>3. CASE I # {}
  <2>1. I \in SUBSET Nat  BY <1>1
  <2>2. \E i \in I : \A j \in I : i <= j  BY <1>3, <2>1, Least
  <2>3. FindHeader(r, name) \in I /\ \A j \in I : FindHeader(r, name) <= j
    BY <1>3, <2>2 DEF FindHeader
  <2> QED  BY <1>1, <2>3
<1> QED  BY <1>2, <1>3

\* A header behind the others is only found when none of them has its name.
LEMMA FoundBehind ==
  ASSUME NEW r, NEW s, r.headers \in Seq(Header), NEW h \in Header,
         s.headers = Append(r.headers, h), NEW name
  PROVE  FindHeader(s, name) =
           IF FindHeader(r, name) >= 0 THEN FindHeader(r, name)
           ELSE IF h.name = name THEN Len(r.headers) + 1 ELSE -1
<1> DEFINE n == Len(r.headers)
           f == FindHeader(r, name)
           g == FindHeader(s, name)
<1>1. /\ s.headers \in Seq(Header) /\ Len(s.headers) = n + 1 /\ n \in Nat
      /\ \A i \in 1 .. n : s.headers[i] = r.headers[i]
      /\ s.headers[n + 1] = h
  BY AppendFacts
<1>2. \/ f = -1 /\ \A i \in 1 .. n : r.headers[i].name # name
      \/ /\ f \in 1 .. n /\ r.headers[f].name = name
         /\ \A i \in 1 .. n : r.headers[i].name = name => f <= i
  BY FoundFirst
<1>3. \/ g = -1 /\ \A i \in 1 .. n + 1 : s.headers[i].name # name
      \/ /\ g \in 1 .. n + 1 /\ s.headers[g].name = name
         /\ \A i \in 1 .. n + 1 : s.headers[i].name = name => g <= i
  BY <1>1, FoundFirst
<1> HIDE DEF f, g, n
<1>4. CASE f = -1 /\ \A i \in 1 .. n : r.headers[i].name # name
  BY <1>1, <1>3, <1>4 DEF f, g, n
<1>5. CASE /\ f \in 1 .. n /\ r.headers[f].name = name
           /\ \A i \in 1 .. n : r.headers[i].name = name => f <= i
  BY <1>1, <1>3, <1>5 DEF f, g, n
<1> QED  BY <1>2, <1>4, <1>5 DEF f, g, n

\* One more header does not take a reason for a refusal away, except the missing
\* Host.
LEMMA ReasonsStay ==
  ASSUME ReqType, CheckNext, ~Checked(req), Checked(req')
  PROVE  req'.headers[Len(req'.headers)].name = "Host" /\ FindHeader(req, "Host") < 0
<1>1. PICK h \in Header : req' = [req EXCEPT !.headers = Append(@, h)]
  BY DEF CheckNext, Header
<1>2. /\ req.headers \in Seq(Header) /\ req'.headers = Append(req.headers, h)
      /\ req'.minor_version = req.minor_version /\ req'.method = req.method
      /\ req'.safe = req.safe
  BY <1>1 DEF ReqType
<1> DEFINE n == Len(req.headers)
<1>3. /\ n \in Nat /\ Len(req'.headers) = n + 1 /\ DOMAIN req'.headers = 1 .. n + 1
      /\ DOMAIN req.headers = 1 .. n
      /\ \A i \in 1 .. n : req'.headers[i] = req.headers[i]
      /\ req'.headers[n + 1] = h
  BY <1>2, AppendFacts
<1>4. \A name : FindHeader(req', name) =
           IF FindHeader(req, name) >= 0 THEN FindHeader(req, name)
           ELSE IF h.name = name THEN n + 1 ELSE -1
  BY <1>2, FoundBehind
<1>5. \A name : FindHeader(req, name) = -1 \/ FindHeader(req, name) \in 1 .. n
  BY <1>2, FoundFirst
<1> HIDE DEF n
<1>6. \A name : FindHeader(req, name) >= 0 => FindHeader(req', name) >= 0
  BY <1>4
<1>7. ~(FindHeader(req, "Content-Length") >= 0 /\ FindHeader(req, "Transfer-Encoding") >= 0)
  BY <1>6 DEF Checked
<1>8. \A i \in DOMAIN req.headers : req.headers[i].name # ""
  <2>1. \A i \in DOMAIN req'.headers : req'.headers[i].name # ""  BY Zenon DEF Checked
  <2>2. ASSUME NEW i \in 1 .. n PROVE req.headers[i].name # ""
    <3>1. i \in 1 .. n + 1  BY <1>3
    <3>2. req'.headers[i].name # ""  BY <1>3, <2>1, <3>1
    <3>3. req'.headers[i] = req.headers[i]  BY <1>3
    <3> QED  BY <3>2, <3>3, Zenon
  <2> QED  BY <1>3, <2>2
<1>9. FindHeader(req, "Content-Length") >= 0 =>
        ParseContentLength(req.headers[FindHeader(req, "Content-Length")].value) = 0
  <2> SUFFICES ASSUME FindHeader(req, "Content-Length") >= 0
               PROVE  ParseContentLength(req.headers[FindHeader(req, "Content-Length")].value) = 0
    OBVIOUS
  <2>1. FindHeader(req', "Content-Length") = FindHeader(req, "Content-Length")  BY <1>4
  <2>2. FindHeader(req, "Content-Length") \in 1 .. n  BY <1>5
  <2>3. ParseContentLength(req'.headers[FindHeader(req', "Content-Length")].value) = 0
    BY <1>6 DEF Checked
  <2> QED  BY <1>3, <2>1, <2>2, <2>3
<1>10. ~(req.minor_version = 1 => FindHeader(req, "Host") >= 0)
  BY <1>2, <1>7, <1>8, <1>9 DEF Checked
<1>11. FindHeader(req, "Host") = -1 /\ FindHeader(req', "Host") >= 0
  <2>1. req'.minor_version = 1 => FindHeader(req', "Host") >= 0  BY DEF Checked
  <2> QED  BY <1>2, <1>5, <1>10, <2>1
<1>12. h.name = "Host"  BY <1>4, <1>11
<1> QED  BY <1>3, <1>11, <1>12

\* The type of the request is kept.
LEMMA ReqTypeKept == CheckSpec => []ReqType
<1>1. CheckInit => ReqType
  <2>1. << >> \in Seq(Header)  OBVIOUS
  <2> QED  BY <2>1 DEF CheckInit, ReqType
<1>2. ReqType /\ [CheckNext]_req => ReqType'
  <2>1. ASSUME ReqType, CheckNext PROVE ReqType'
    <3>1. PICK h \in Header : req' = [req EXCEPT !.headers = Append(@, h)]
      BY <2>1 DEF CheckNext, Header
    <3>2. Append(req.headers, h) \in Seq(Header)  BY <2>1, AppendFacts DEF ReqType
    <3> QED  BY <2>1, <3>1, <3>2 DEF ReqType
  <2>2. ASSUME ReqType, UNCHANGED req PROVE ReqType'  BY <2>2 DEF ReqType
  <2> QED  BY <2>1, <2>2
<1> QED  BY <1>1, <1>2, PTL DEF CheckSpec

\* A request with any number of headers that http_protcol_check refuses is not made
\* right by one more, unless it is the missing Host.
THEOREM RefusalsStay == CheckSpec => RefusalStays
<1>1. ReqType /\ [CheckNext]_req =>
        [~Checked(req) /\ Checked(req') =>
           req'.headers[Len(req'.headers)].name = "Host" /\ FindHeader(req, "Host") < 0]_req
  BY ReasonsStay
<1> QED  BY <1>1, ReqTypeKept, PTL DEF CheckSpec, RefusalStays
------------------------------------------------------------------------------
(***************************************************************************)
(* Paths.                                                                  *)
(***************************************************************************)
PathType == path \in Seq(Symbols)

\* The path keeps its type.
LEMMA PathTypeKept == PathSpec => []PathType
<1>1. PathInit => PathType  BY DEF PathInit, PathType
<1>2. PathType /\ [PathNext]_path => PathType'
  <2>1. ASSUME PathType, PathNext PROVE PathType'
    BY <2>1, AppendFacts DEF PathType, PathNext
  <2> QED  BY <2>1 DEF PathType
<1> QED  BY <1>1, <1>2, PTL DEF PathSpec

\* What one round of the loop of is_safe_path asks of the character at i.
FineAt(p, i) ==
  /\ p[i] # "bad" /\ ~Dots(p, i)
  /\ p[i] = "%" => Hex(p, i + 1) /\ Hex(p, i + 2)

SafeFrom(p, i, f) == i <= Len(p) => FineAt(p, i) /\ f[i + Step(p, i)]

\* The loop of is_safe_path, as what a recursive function that exists computes.
LEMMA SafeUnfolds ==
  ASSUME NEW p \in Seq(Symbols)
  PROVE  \E f : /\ \A i \in 1 .. Len(p) + 4 : f[i] <=> SafeFrom(p, i, f)
                /\ IsSafePath(p) <=> Len(p) \in 1 .. MaxPath /\ p[1] = "/" /\ f[1]
<1>0. Len(p) \in Nat  OBVIOUS
<1> DEFINE A == 1 .. Len(p) + 4
           G == [q \in A \X [A -> BOOLEAN] |-> SafeFrom(p, q[1], q[2])]
           rank == [i \in A |-> Len(p) + 4 - i]
<1>1. rank \in [A -> Nat] /\ BOOLEAN # {}
  <2>1. rank \in [A -> Nat]  BY <1>0
  <2>2. TRUE \in BOOLEAN  OBVIOUS
  <2> QED  BY <2>1, <2>2, Zenon
<1>2. G \in [A \X [A -> BOOLEAN] -> BOOLEAN]
  BY DEF SafeFrom
<1>3. LooksBelow(G, A, BOOLEAN, rank)
  <2> SUFFICES ASSUME NEW i \in A, NEW f \in [A -> BOOLEAN], NEW g \in [A -> BOOLEAN],
                      AgreeBelow(f, g, A, rank, rank[i])
               PROVE  SafeFrom(p, i, f) = SafeFrom(p, i, g)
    BY DEF LooksBelow
  <2>1. CASE i > Len(p)
    BY <1>0, <2>1 DEF SafeFrom
  <2>2. CASE i <= Len(p)
    <3> DEFINE j == i + Step(p, i)
    <3>1. j \in A /\ rank[j] < rank[i]  BY <1>0, <2>2 DEF Step
    <3> HIDE DEF j, A, rank
    <3>2. f[j] = g[j]  BY <3>1 DEF AgreeBelow
    <3> QED  BY <3>2 DEF SafeFrom, j
  <2> QED  BY <1>0, <2>1, <2>2
<1>4. Recursive(G, A, BOOLEAN, rank)  BY <1>1, <1>2, <1>3 DEF Recursive
<1> HIDE DEF rank, G, A
<1>5. PICK f \in [A -> BOOLEAN] : \A i \in A : f[i] = G[<<i, f>>]
  BY <1>4, RecursiveFunctionExists
<1>6. f = [i \in A |-> SafeFrom(p, i, f)]  BY <1>5 DEF G
<1> DEFINE Eq(safe) == safe = [i \in A |-> SafeFrom(p, i, safe)]
           c == CHOOSE safe : Eq(safe)
<1>7. Eq(c)  BY <1>6
<1>8. IsSafePath(p) <=> Len(p) \in 1 .. MaxPath /\ p[1] = "/" /\ c[1]
  BY DEF IsSafePath, SafeFrom, FineAt, A
<1> HIDE DEF c
<1>9. \A i \in A : c[i] <=> SafeFrom(p, i, c)  BY <1>7
<1> QED  BY <1>8, <1>9 DEF A

\* From i on every character is fine, which the loop finds although it skips the
\* digits of an escape.
LEMMA SafeIsFine ==
  ASSUME NEW p \in Seq(Symbols), NEW f,
         \A i \in 1 .. Len(p) + 4 : f[i] <=> SafeFrom(p, i, f)
  PROVE  f[1] <=> \A j \in 1 .. Len(p) : FineAt(p, j)
<1>0. Len(p) \in Nat  OBVIOUS
<1> DEFINE N == Len(p)
           FineOn(i) == \A j \in i .. N : FineAt(p, j)
           S == {n \in Nat : \A i \in 1 .. N + 4 : N + 4 - i <= n => (f[i] <=> FineOn(i))}
<1>1. ASSUME NEW i \in 1 .. N + 4, i > N PROVE f[i] <=> FineOn(i)
  BY <1>0, <1>1 DEF SafeFrom
<1>2. ASSUME NEW i \in 1 .. N, f[i + Step(p, i)] <=> FineOn(i + Step(p, i))
      PROVE  f[i] <=> FineOn(i)
  <2>1. f[i] <=> FineAt(p, i) /\ f[i + Step(p, i)]  BY <1>0 DEF SafeFrom
  <2>2. FineAt(p, i) => (FineOn(i) <=> FineOn(i + Step(p, i)))
    <3> SUFFICES ASSUME FineAt(p, i) PROVE FineOn(i) <=> FineOn(i + Step(p, i))  OBVIOUS
    <3>1. CASE p[i] # "%"
      BY <1>0, <3>1 DEF Step
    <3>2. CASE p[i] = "%"
      <4>1. i + 2 <= N /\ p[i + 1] = "a" /\ p[i + 2] = "a"
        BY <1>0, <3>2 DEF FineAt, Hex
      <4>2. FineAt(p, i + 1) /\ FineAt(p, i + 2)
        BY <4>1 DEF FineAt, Dots
      <4>3. i + Step(p, i) = i + 3  BY <3>2 DEF Step
      <4>4. \A j \in i .. N : j = i \/ j = i + 1 \/ j = i + 2 \/ j \in i + 3 .. N  BY <1>0
      <4>5. \A j \in i + 3 .. N : j \in i .. N  BY <1>0
      <4> QED  BY <4>2, <4>3, <4>4, <4>5
    <3> QED  BY <3>1, <3>2
  <2>3. FineOn(i) => FineAt(p, i)  BY <1>0
  <2> HIDE DEF FineOn
  <2> QED  BY <1>2, <2>1, <2>2, <2>3
<1> HIDE DEF FineOn
<1>3. 0 \in S
  BY <1>0, <1>1
<1>4. ASSUME NEW n \in Nat, n \in S PROVE n + 1 \in S
  <2>1. ASSUME NEW i \in 1 .. N + 4, N + 4 - i <= n + 1 PROVE f[i] <=> FineOn(i)
    <3>1. CASE i > N
      BY <1>1, <3>1
    <3>2. CASE i <= N
      <4> DEFINE j == i + Step(p, i)
      <4>1. j \in 1 .. N + 4 /\ N + 4 - j <= n  BY <1>0, <2>1, <3>2 DEF Step
      <4> HIDE DEF j
      <4>2. f[j] <=> FineOn(j)  BY <1>4, <4>1
      <4>3. i \in 1 .. N  BY <1>0, <3>2
      <4> QED  BY <1>2, <4>2, <4>3 DEF j
    <3> QED  BY <1>0, <3>1, <3>2
  <2> QED  BY <2>1
<1> HIDE DEF S
<1>5. \A n \in Nat : n \in S  BY <1>3, <1>4, Induction
<1>6. N + 3 \in S /\ 1 \in 1 .. N + 4 /\ N + 4 - 1 <= N + 3  BY <1>0, <1>5
<1>7. f[1] <=> FineOn(1)  BY <1>6 DEF S
<1> QED  BY <1>7 DEF FineOn

\* is_safe_path for any path.
LEMMA SafeExact ==
  ASSUME NEW p \in Seq(Symbols)
  PROVE  IsSafePath(p) <=> Len(p) \in 1 .. MaxPath /\ p[1] = "/" /\ \A i \in 1 .. Len(p) : FineAt(p, i)
<1>1. PICK f : /\ \A i \in 1 .. Len(p) + 4 : f[i] <=> SafeFrom(p, i, f)
               /\ IsSafePath(p) <=> Len(p) \in 1 .. MaxPath /\ p[1] = "/" /\ f[1]
  BY SafeUnfolds
<1>2. f[1] <=> \A i \in 1 .. Len(p) : FineAt(p, i)  BY <1>1, SafeIsFine
<1> QED  BY <1>1, <1>2

\* Whatever the limit is, a path is safe exactly when it is no longer than that, begins
\* with a slash, has only the characters that are allowed, no two dots side by side and
\* no broken escape.
THEOREM PathsExact == PathSpec => []SafePathExact
<1>1. ASSUME PathType PROVE SafePathExact
  <2> DEFINE p == path
  <2>1. p \in Seq(Symbols) /\ Len(p) \in Nat /\ DOMAIN p = 1 .. Len(p)  BY <1>1 DEF PathType
  <2>2. IsSafePath(p) <=> Len(p) \in 1 .. MaxPath /\ p[1] = "/" /\ \A i \in 1 .. Len(p) : FineAt(p, i)
    BY <2>1, SafeExact
  <2> DEFINE Right(i) == /\ p[i] # "bad"
                         /\ ~(i + 1 \in 1 .. Len(p) /\ p[i] = "." /\ p[i + 1] = ".")
                         /\ p[i] = "%" => i + 2 \in 1 .. Len(p) /\ p[i + 1] = "a" /\ p[i + 2] = "a"
  <2> HIDE DEF p
  <2>3. ASSUME \A i \in 1 .. Len(p) : FineAt(p, i), NEW i \in 1 .. Len(p) PROVE Right(i)
    <3>1. FineAt(p, i)  BY <2>3
    <3>2. i + 1 \in 1 .. Len(p) => ~(p[i + 1] = "." /\ p[i] = ".")
      <4> SUFFICES ASSUME i + 1 \in 1 .. Len(p) PROVE ~(p[i + 1] = "." /\ p[i] = ".")  OBVIOUS
      <4>1. FineAt(p, i + 1)  BY <2>3
      <4>2. i + 1 > 1 /\ i + 1 - 1 = i  BY <2>1
      <4> QED  BY <4>1, <4>2 DEF FineAt, Dots
    <3> QED  BY <2>1, <3>1, <3>2 DEF FineAt, Hex
  <2>4. ASSUME \A i \in 1 .. Len(p) : Right(i), NEW i \in 1 .. Len(p) PROVE FineAt(p, i)
    <3>1. Right(i)  BY <2>4
    <3>2. i > 1 => ~(p[i] = "." /\ p[i - 1] = ".")
      <4> SUFFICES ASSUME i > 1 PROVE ~(p[i] = "." /\ p[i - 1] = ".")  OBVIOUS
      <4>1. i - 1 \in 1 .. Len(p) /\ i - 1 + 1 = i  BY <2>1
      <4>2. Right(i - 1)  BY <2>4, <4>1
      <4> QED  BY <4>1, <4>2
    <3> QED  BY <2>1, <3>1, <3>2 DEF FineAt, Hex, Dots
  <2>5. (\A i \in 1 .. Len(p) : FineAt(p, i)) <=> \A i \in 1 .. Len(p) : Right(i)
    BY <2>3, <2>4
  <2> QED  BY <2>1, <2>2, <2>5 DEF SafePathExact, p
<1> QED  BY <1>1, PathTypeKept, PTL

\* A part of a sequence.
LEMMA PartOf ==
  ASSUME NEW V, NEW s \in Seq(V), NEW a \in 1 .. Len(s) + 1, NEW b \in a - 1 .. Len(s)
  PROVE  /\ SubSeq(s, a, b) \in Seq(V) /\ Len(SubSeq(s, a, b)) = b - a + 1
         /\ DOMAIN SubSeq(s, a, b) = 1 .. b - a + 1
         /\ \A i \in 1 .. b - a + 1 : SubSeq(s, a, b)[i] = s[a + i - 1]
OBVIOUS

\* The path of a static file begins with these three symbols.
LEMMA StaticStart ==
  ASSUME NEW p \in Seq(Symbols), Route(p) = "main_static"
  PROVE  Len(p) >= 3 /\ p[1] = "/" /\ p[2] = "static" /\ p[3] = "/"
<1>1. StartsWith(p, <<"/", "static", "/">>)  BY DEF Route
<1>2. Len(p) >= 3 /\ SubSeq(p, 1, 3) = <<"/", "static", "/">>  BY <1>1 DEF StartsWith
<1> DEFINE q == SubSeq(p, 1, 3)
<1>3. \A i \in 1 .. 3 : q[i] = p[i]
  <2>1. 1 \in 1 .. Len(p) + 1 /\ 3 \in 1 - 1 .. Len(p)  BY <1>2
  <2>2. \A i \in 1 .. 3 - 1 + 1 : q[i] = p[1 + i - 1]  BY <2>1, PartOf
  <2> HIDE DEF q
  <2> QED  BY <2>2
<1>4. q = <<"/", "static", "/">>  BY <1>2
<1> HIDE DEF q
<1> QED  BY <1>2, <1>3, <1>4

\* The name of a static file: what stands behind the slash, up to the query.
LEMMA NameIs ==
  ASSUME NEW p \in Seq(Symbols), Route(p) = "main_static"
  PROVE  LET n == NameOf(p) IN
         /\ n \in Seq(Symbols) /\ Len(n) >= 2 /\ Len(n) + 1 <= Len(p)
         /\ \A i \in 1 .. Len(n) : n[i] = p[i + 1] /\ n[i] # "?"
         /\ n[1] = "static" /\ n[2] = "/"
<1>0. /\ Len(p) \in Nat /\ Len(p) >= 3 /\ p[1] = "/" /\ p[2] = "static" /\ p[3] = "/"
  BY StaticStart
<1> DEFINE Q == Query(p)
           e == IF Q = {} THEN Len(p) ELSE (CHOOSE i \in Q : \A j \in Q : i <= j) - 1
<1>1. e \in 3 .. Len(p) /\ \A i \in 2 .. e : p[i] # "?"
  <2>1. CASE Q = {}
    BY <1>0, <2>1 DEF Query
  <2>2. CASE Q # {}
    <3>1. Q \in SUBSET Nat  BY <1>0 DEF Query
    <3>2. \E i \in Q : \A j \in Q : i <= j  BY <2>2, <3>1, Least
    <3>3. e + 1 \in Q /\ \A j \in Q : e + 1 <= j
      <4> DEFINE k == CHOOSE i \in Q : \A j \in Q : i <= j
      <4>1. k \in Q /\ \A j \in Q : k <= j  BY <3>2
      <4> HIDE DEF k, Q
      <4>2. k \in Nat  BY <3>1, <4>1
      <4>3. e = k - 1  BY <2>2 DEF k
      <4>4. e + 1 = k  BY <4>2, <4>3
      <4> QED  BY <4>1, <4>4
    <3> HIDE DEF e
    <3>4. e + 1 \in 2 .. Len(p) /\ p[e + 1] = "?" /\ e \in Int
      <4>1. e + 1 \in 2 .. Len(p) /\ p[e + 1] = "?"  BY <3>3 DEF Query
      <4>2. e \in Int  BY <3>1, <3>2, <2>2 DEF e
      <4> QED  BY <4>1, <4>2
    <3>5. e + 1 # 2 /\ e + 1 # 3  BY <1>0, <3>4
    <3>6. e \in 3 .. Len(p)  BY <1>0, <3>4, <3>5
    <3>7. ASSUME NEW i \in 2 .. e, p[i] = "?" PROVE FALSE
      <4>1. i \in Q  BY <1>0, <3>6, <3>7 DEF Query
      <4>2. e + 1 <= i  BY <3>3, <4>1
      <4> QED  BY <3>6, <4>2
    <3> QED  BY <3>6, <3>7
  <2> QED  BY <2>1, <2>2
<1>2. NameOf(p) = SubSeq(p, 2, e)  BY DEF NameOf
<1> HIDE DEF e
<1> DEFINE n == SubSeq(p, 2, e)
<1>3. /\ n \in Seq(Symbols) /\ Len(n) = e - 1 /\ \A i \in 1 .. e - 1 : n[i] = p[i + 1]
  <2>1. 2 \in 1 .. Len(p) + 1 /\ e \in 2 - 1 .. Len(p) /\ e - 2 + 1 = e - 1  BY <1>0, <1>1
  <2>2. /\ n \in Seq(Symbols) /\ Len(n) = e - 2 + 1
        /\ \A i \in 1 .. e - 2 + 1 : n[i] = p[2 + i - 1]
    BY <2>1, PartOf
  <2>3. \A i \in 1 .. e - 1 : 2 + i - 1 = i + 1  OBVIOUS
  <2> QED  BY <2>1, <2>2, <2>3
<1> HIDE DEF n
<1>4. \A i \in 1 .. e - 1 : i + 1 \in 2 .. e  BY <1>1
<1>5. \A i \in 1 .. e - 1 : n[i] # "?"  BY <1>1, <1>3, <1>4
<1>6. n[1] = p[2] /\ n[2] = p[3]  BY <1>1, <1>3
<1> QED  BY <1>0, <1>1, <1>2, <1>3, <1>5, <1>6 DEF n

\* The content type of a name is that of its last two symbols.
LEMMA TypeIs ==
  ASSUME NEW n \in Seq(Symbols), Len(n) >= 2
  PROVE  ContentType(n) = "a" <=> n[Len(n) - 1] = "." /\ n[Len(n)] = "a"
<1>0. Len(n) \in Nat /\ DOMAIN n = 1 .. Len(n)  OBVIOUS
<1> DEFINE i == CHOOSE k \in Marks(n) : \A j \in Marks(n) : j <= k
           suffix == SubSeq(n, i + 1, Len(n))
<1>1. ASSUME n[Len(n) - 1] = ".", n[Len(n)] = "a" PROVE ContentType(n) = "a"
  <2>1. Len(n) - 1 \in Marks(n) /\ \A j \in Marks(n) : j <= Len(n) - 1
    BY <1>0, <1>1 DEF Marks
  <2>2. i \in Marks(n) /\ \A j \in Marks(n) : j <= i  BY <2>1
  <2> HIDE DEF i
  <2>3. i = Len(n) - 1 /\ i + 1 = Len(n)  BY <1>0, <2>1, <2>2 DEF Marks
  <2>4. Marks(n) # {} /\ n[i] = "."  BY <1>1, <2>1, <2>3
  <2>5. Len(suffix) = 1 /\ suffix[1] = "a"
    <3>1. Len(n) \in 1 .. Len(n) + 1 /\ Len(n) \in Len(n) - 1 .. Len(n)
      BY <1>0
    <3>2. Len(SubSeq(n, Len(n), Len(n))) = Len(n) - Len(n) + 1
      BY <3>1, PartOf
    <3>3. \A k \in 1 .. Len(n) - Len(n) + 1 : SubSeq(n, Len(n), Len(n))[k] = n[Len(n) + k - 1]
      BY <3>1, PartOf
    <3>4. Len(n) - Len(n) + 1 = 1 /\ Len(n) + 1 - 1 = Len(n)  BY <1>0
    <3>5. SubSeq(n, Len(n), Len(n))[1] = n[Len(n)]  BY <3>3, <3>4
    <3> QED  BY <1>1, <2>3, <3>2, <3>4, <3>5
  <2> HIDE DEF suffix
  <2>6. ContentType(n) = IF Marks(n) # {} /\ n[i] = "." /\ Len(suffix) = 1 /\ suffix[1] \in Suffixes
                         THEN suffix[1] ELSE "text/plain"
    BY Zenon DEF ContentType, i, suffix
  <2> QED  BY <2>4, <2>5, <2>6 DEF Suffixes
<1>2. ASSUME ContentType(n) = "a" PROVE n[Len(n) - 1] = "." /\ n[Len(n)] = "a"
  <2>1. Marks(n) # {} /\ n[i] = "." /\ Len(suffix) = 1 /\ suffix[1] = "a"
    BY <1>2 DEF ContentType, Suffixes
  <2>2. i \in Marks(n)
    <3>1. Marks(n) \subseteq 1 .. Len(n)  BY <1>0 DEF Marks
    <3> DEFINE R == {k \in Nat : \E j \in Marks(n) : j = Len(n) - k}
    <3>2. R \in SUBSET Nat /\ R # {}
      <4>1. PICK j \in Marks(n) : TRUE  BY <2>1
      <4>2. Len(n) - j \in Nat /\ j = Len(n) - (Len(n) - j)  BY <1>0, <3>1
      <4> QED  BY <4>2
    <3> HIDE DEF R
    <3>3. PICK k \in R : \A j \in R : k <= j  BY <3>2, Least
    <3>4. k \in Nat /\ Len(n) - k \in Marks(n)  BY <3>3 DEF R
    <3>5. ASSUME NEW j \in Marks(n) PROVE j <= Len(n) - k
      <4>1. Len(n) - j \in Nat /\ j = Len(n) - (Len(n) - j)  BY <1>0, <3>1
      <4>2. Len(n) - j \in R  BY <4>1 DEF R
      <4>3. k <= Len(n) - j  BY <3>3, <4>2
      <4> QED  BY <1>0, <3>1, <3>4, <4>3
    <3> QED  BY <3>4, <3>5
  <2> HIDE DEF i
  <2>3. i \in 1 .. Len(n)  BY <1>0, <2>2 DEF Marks
  <2>4. /\ i + 1 \in 1 .. Len(n) + 1 /\ Len(n) \in i + 1 - 1 .. Len(n)
        /\ Len(n) - (i + 1) + 1 = Len(n) - i
    BY <1>0, <2>3
  <2>5. Len(suffix) = Len(n) - (i + 1) + 1
    BY <2>4, PartOf
  <2>6. i = Len(n) - 1
    <3>1. Len(n) - i = 1  BY <2>1, <2>4, <2>5
    <3>2. i \in Int /\ Len(n) \in Int  BY <1>0, <2>3
    <3> QED  BY <3>1, <3>2
  <2>7. \A k \in 1 .. Len(n) - (i + 1) + 1 : suffix[k] = n[i + 1 + k - 1]
    BY <2>4, PartOf
  <2>8. 1 \in 1 .. Len(n) - (i + 1) + 1 /\ i + 1 + 1 - 1 = Len(n)  BY <1>0, <2>6
  <2>9. suffix[1] = n[Len(n)]  BY <2>7, <2>8
  <2> QED  BY <2>1, <2>6, <2>9
<1> QED  BY <1>1, <1>2

\* For a path of any length: a file that is opened lies below static/, no part of its
\* name leads up again, and the query is neither part of the name nor of the suffix.
THEOREM FilesConfined == PathSpec => []StaticConfined
<1>1. ASSUME PathType PROVE StaticConfined
  <2> DEFINE p == path
  <2>0. p \in Seq(Symbols) /\ Len(p) \in Nat  BY <1>1 DEF PathType
  <2> HIDE DEF p
  <2> SUFFICES ASSUME IsSafePath(p), Route(p) = "main_static"
               PROVE  LET n == NameOf(p) IN
                      /\ StartsWith(n, <<"static", "/">>)
                      /\ \A i \in DOMAIN n : n[i] # "?"
                      /\ \A i \in 3 .. Len(n) : n[i - 2] = "/" /\ n[i - 1] = "." /\ n[i] = "." =>
                           i < Len(n) /\ n[i + 1] # "/"
                      /\ ContentType(n) = "a" <=> p[Len(n)] = "." /\ p[Len(n) + 1] = "a"
    BY DEF StaticConfined, Opened, p
  <2> DEFINE n == NameOf(p)
  <2>1. /\ n \in Seq(Symbols) /\ Len(n) >= 2 /\ Len(n) + 1 <= Len(p) /\ Len(n) \in Nat
        /\ \A i \in 1 .. Len(n) : n[i] = p[i + 1] /\ n[i] # "?"
        /\ n[1] = "static" /\ n[2] = "/" /\ DOMAIN n = 1 .. Len(n)
    BY <2>0, NameIs
  <2> HIDE DEF n
  <2>2. StartsWith(n, <<"static", "/">>)
    <3>1. 1 \in 1 .. Len(n) + 1 /\ 2 \in 1 - 1 .. Len(n)  BY <2>1
    <3>2. /\ Len(SubSeq(n, 1, 2)) = 2 - 1 + 1 /\ SubSeq(n, 1, 2) \in Seq(Symbols)
          /\ \A i \in 1 .. 2 - 1 + 1 : SubSeq(n, 1, 2)[i] = n[1 + i - 1]
      BY <2>1, <3>1, PartOf
    <3> DEFINE q == SubSeq(n, 1, 2)
    <3> HIDE DEF q
    <3>3. q \in Seq(Symbols) /\ Len(q) = 2 /\ q[1] = "static" /\ q[2] = "/"  BY <2>1, <3>2 DEF q
    <3>4. q = <<"static", "/">>  BY <3>3
    <3> QED  BY <2>1, <3>4 DEF StartsWith, q
  <2>3. ASSUME NEW i \in 3 .. Len(n), n[i - 1] = ".", n[i] = "." PROVE FALSE
    <3>1. i + 1 \in 1 .. Len(p) /\ i \in 1 .. Len(n) /\ i - 1 \in 1 .. Len(n) /\ i - 1 + 1 = i
      BY <2>0, <2>1
    <3>2. p[i + 1] = "." /\ p[i] = "."  BY <2>1, <2>3, <3>1
    <3>3. FineAt(p, i + 1)  BY <2>0, <3>1, SafeExact
    <3>4. i + 1 > 1 /\ i + 1 - 1 = i  OBVIOUS
    <3> QED  BY <3>2, <3>3, <3>4 DEF FineAt, Dots
  <2>4. ContentType(n) = "a" <=> p[Len(n)] = "." /\ p[Len(n) + 1] = "a"
    <3>1. Len(n) - 1 \in 1 .. Len(n) /\ Len(n) \in 1 .. Len(n) /\ Len(n) - 1 + 1 = Len(n)
      BY <2>1
    <3>2. n[Len(n) - 1] = p[Len(n)] /\ n[Len(n)] = p[Len(n) + 1]  BY <2>1, <3>1
    <3> QED  BY <2>1, <3>2, TypeIs
  <2> QED  BY <2>1, <2>2, <2>3, <2>4 DEF n
<1> QED  BY <1>1, PathTypeKept, PTL
------------------------------------------------------------------------------
(***************************************************************************)
(* Responses.                                                              *)
(***************************************************************************)
\* What is no file, and what is not a descriptor.
LEMMA Distinct ==
  /\ Free \notin Files /\ Sock \notin Files /\ None \notin Files /\ Unread \notin Files
  /\ Free # Sock /\ None \notin Fds /\ Fds \subseteq Nat /\ None # Unread
<1>1. Free \notin Files /\ Sock \notin Files /\ None \notin Files /\ Unread \notin Files
  BY FilesAssumption
<1>2. Free # Sock /\ None \notin Fds /\ Fds \subseteq Nat /\ None # Unread
  BY ResponsesAssumption DEF Free, Sock, None, Unread, Fds
<1> QED  BY <1>1, <1>2

\* The kernel gives out a descriptor that nobody has.
LEMMA LowestIsFree ==
  ASSUME FreeFds # {}
  PROVE  LowestFd \in Fds /\ fds[LowestFd] = Free
<1>1. FreeFds \in SUBSET Nat
  BY Distinct DEF FreeFds
<1>2. PICK n \in FreeFds : \A m \in FreeFds : n <= m
  BY <1>1, Least
<1>3. LowestFd \in FreeFds
  BY <1>2 DEF LowestFd
<1> QED  BY <1>3 DEF FreeFds

\* The place of the next file.
LEMMA NextIdxType ==
  ASSUME cache_idx \in CacheSlots PROVE NextIdx \in CacheSlots
<1>1. CacheSize \in Nat \ {0} /\ cache_idx + 1 \in Nat
  BY ResponsesAssumption DEF CacheSlots
<1>2. (cache_idx + 1) % CacheSize \in 0 .. CacheSize - 1
  BY <1>1
<1> QED  BY <1>2 DEF NextIdx, CacheSlots
------------------------------------------------------------------------------
(***************************************************************************)
(* Descriptors.                                                            *)
(***************************************************************************)
LEMMA InitDescriptors == Init => DescriptorInv
<1> SUFFICES ASSUME Init PROVE DescriptorInv  OBVIOUS
<1>1. 0 \in CacheSlots  BY ResponsesAssumption DEF CacheSlots
<1>2. NoFdLost  BY Distinct DEF Init, NoFdLost
<1>3. CacheTruth  BY DEF Init, CacheTruth
<1> QED  BY <1>1, <1>2, <1>3 DEF Init, DescriptorInv

\* A request keeps the descriptors accounted for.
LEMMA AcceptDescriptors ==
  ASSUME DescriptorInv, NEW c \in Conns, Accept(c) PROVE DescriptorInv'
<1> DEFINE x == LowestFd
<1>1. x \in Fds /\ fds[x] = Free /\ fd[c] = None
  BY LowestIsFree DEF Accept
<1>2. /\ fds' = [fds EXCEPT ![x] = Sock] /\ fd' = [fd EXCEPT ![c] = x]
      /\ UNCHANGED <<cache, cache_idx>>
  BY DEF Accept
<1> HIDE DEF x
<1>3. fds' \in [Fds -> Files \union {Free, Sock}] /\ fd' \in [Conns -> Fds \union {None}]
  BY <1>1, <1>2 DEF DescriptorInv
<1>4. \A y \in Fds : fds'[y] = IF y = x THEN Sock ELSE fds[y]
  BY <1>2 DEF DescriptorInv
<1>5. \A d \in Conns : fd'[d] = IF d = c THEN x ELSE fd[d]
  BY <1>2 DEF DescriptorInv
<1>6. \A d \in Conns : fd'[d] # None => fds'[fd'[d]] = Sock
  <2> SUFFICES ASSUME NEW d \in Conns, fd'[d] # None PROVE fds'[fd'[d]] = Sock
    OBVIOUS
  <2>1. CASE d = c
    BY <1>1, <1>4, <1>5, <2>1
  <2>2. CASE d # c
    <3>1. fd'[d] = fd[d] /\ fd[d] \in Fds /\ fds[fd[d]] = Sock
      BY <1>5, <2>2 DEF DescriptorInv
    <3> QED  BY <1>4, <3>1
  <2> QED  BY <2>1, <2>2
<1>7. \A d, e \in Conns : fd'[d] # None /\ fd'[d] = fd'[e] => d = e
  BY <1>1, <1>5, Distinct DEF DescriptorInv
<1>8. CacheTruth'
  BY <1>1, <1>2, <1>4, Distinct DEF DescriptorInv, CacheTruth
<1>9. NoFdLost'
  <2>1. {y \in Fds : fds'[y] \in Files} = {y \in Fds : fds[y] \in Files}
    BY <1>1, <1>4, Distinct
  <2> QED  BY <1>2, <2>1 DEF DescriptorInv, NoFdLost
<1> QED  BY <1>2, <1>3, <1>6, <1>7, <1>8, <1>9 DEF DescriptorInv

\* Closing a connection keeps them.
LEMMA CloseDescriptors ==
  ASSUME DescriptorInv, NEW c \in Conns, Close(c) PROVE DescriptorInv'
<1> DEFINE x == fd[c]
<1>1. x \in Fds /\ fds[x] = Sock
  BY DEF Close, DescriptorInv
<1>2. /\ fds' = [fds EXCEPT ![x] = Free] /\ fd' = [fd EXCEPT ![c] = None]
      /\ UNCHANGED <<cache, cache_idx>>
  BY DEF Close
<1>3. fds' \in [Fds -> Files \union {Free, Sock}] /\ fd' \in [Conns -> Fds \union {None}]
  BY <1>2 DEF DescriptorInv
<1>4. \A y \in Fds : fds'[y] = IF y = x THEN Free ELSE fds[y]
  BY <1>2 DEF DescriptorInv
<1>5. \A d \in Conns : fd'[d] = IF d = c THEN None ELSE fd[d]
  BY <1>2 DEF DescriptorInv
<1>6. \A d \in Conns : d # c => fd[d] # x
  BY <1>1, Distinct DEF DescriptorInv
<1> HIDE DEF x
<1>7. \A d \in Conns : fd'[d] # None => fds'[fd'[d]] = Sock
  BY <1>3, <1>4, <1>5, <1>6 DEF DescriptorInv
<1>8. \A d, e \in Conns : fd'[d] # None /\ fd'[d] = fd'[e] => d = e
  BY <1>5 DEF DescriptorInv
<1>9. CacheTruth'
  BY <1>1, <1>2, <1>4, Distinct DEF DescriptorInv, CacheTruth
<1>10. NoFdLost'
  <2>1. {y \in Fds : fds'[y] \in Files} = {y \in Fds : fds[y] \in Files}
    BY <1>1, <1>4, Distinct
  <2> QED  BY <1>2, <2>1 DEF DescriptorInv, NoFdLost
<1> QED  BY <1>2, <1>3, <1>7, <1>8, <1>9, <1>10 DEF DescriptorInv

\* The new file's descriptor was free, so it is not the one that is evicted; that one
\* is no socket and is in no other entry.
LEMMA MissDescriptors ==
  ASSUME DescriptorInv, NEW c \in Conns, NEW f \in Files, ProcessMiss(c, f)
  PROVE  DescriptorInv'
<1> DEFINE x == LowestFd
           i == cache_idx
           y == cache[i].fd
           old == cache[i].file
<1>1. /\ x \in Fds /\ fds[x] = Free /\ i \in CacheSlots /\ f # None /\ f # Free
      /\ \A s \in CacheSlots : cache[s].file # f
  BY LowestIsFree, Distinct DEF ProcessMiss, Cached, DescriptorInv
<1>2. /\ fds' = Evicted([fds EXCEPT ![x] = f], i)
      /\ cache' = [cache EXCEPT ![i] = [file |-> f, fd |-> x]]
      /\ cache_idx' = NextIdx /\ fd' = fd
  BY DEF ProcessMiss, EntryUsed, Prepared
<1>3. old # None => y \in Fds /\ fds[y] = old /\ y # x
  BY <1>1, Distinct DEF DescriptorInv, CacheTruth
<1> HIDE DEF x, i
<1>4. \A z \in Fds : fds'[z] = IF z = x THEN f
                              ELSE IF old # None /\ z = y THEN Free ELSE fds[z]
  BY <1>1, <1>2, <1>3 DEF Evicted, DescriptorInv
<1>5. fds' \in [Fds -> Files \union {Free, Sock}]
  BY <1>1, <1>2, <1>3 DEF Evicted, DescriptorInv
<1>6. \A s \in CacheSlots : cache'[s] = IF s = i THEN [file |-> f, fd |-> x] ELSE cache[s]
  BY <1>1, <1>2 DEF DescriptorInv
<1>7. cache' \in [CacheSlots -> [file : Files \union {None}, fd : Fds \union {None}]]
  BY <1>1, <1>2 DEF DescriptorInv
<1>8. cache_idx' \in CacheSlots
  BY <1>2, NextIdxType DEF DescriptorInv
<1>9. \A d \in Conns : fd'[d] # None => fds'[fd'[d]] = Sock
  <2> SUFFICES ASSUME NEW d \in Conns, fd[d] # None PROVE fds'[fd[d]] = Sock
    BY <1>2
  <2>1. fd[d] \in Fds /\ fds[fd[d]] = Sock
    BY DEF DescriptorInv
  <2>2. fd[d] # x /\ (old # None => fd[d] # y)
    <3>1. old # None => old \in Files  BY <1>1 DEF DescriptorInv
    <3> QED  BY <1>1, <1>3, <2>1, <3>1, Distinct
  <2> QED  BY <1>4, <2>1, <2>2
<1>10. \A s \in CacheSlots : cache'[s].file = None <=> cache'[s].fd = None
  BY <1>1, <1>6, Distinct DEF DescriptorInv
<1>11. ASSUME NEW s \in CacheSlots, s # i, cache[s].file # None
       PROVE  /\ cache[s].fd \in Fds /\ cache[s].fd # x
              /\ fds[cache[s].fd] = cache[s].file
              /\ old # None => cache[s].fd # y
  BY <1>1, <1>11, Distinct DEF DescriptorInv, CacheTruth
<1>12. CacheTruth'
  <2> SUFFICES ASSUME NEW s \in CacheSlots, cache'[s].file # None
               PROVE  /\ fds'[cache'[s].fd] = cache'[s].file
                      /\ \A t \in CacheSlots \ {s} :
                           cache'[t].file # cache'[s].file /\ cache'[t].fd # cache'[s].fd
    BY DEF CacheTruth
  <2>1. CASE s = i
    <3>1. fds'[cache'[s].fd] = cache'[s].file
      BY <1>1, <1>4, <1>6, <2>1
    <3>2. ASSUME NEW t \in CacheSlots \ {s}
          PROVE  cache'[t].file # f /\ cache'[t].fd # x
      <4>1. cache'[t] = cache[t] /\ cache[t].file # f
        BY <1>1, <1>6, <2>1
      <4>2. CASE cache[t].file # None
        BY <1>11, <2>1, <4>1, <4>2
      <4>3. CASE cache[t].file = None
        <5>1. cache[t].fd # x
          BY <1>1, <4>3, Distinct DEF DescriptorInv
        <5> QED  BY <4>1, <5>1
      <4> QED  BY <4>2, <4>3
    <3> QED  BY <1>6, <2>1, <3>1, <3>2
  <2>2. CASE s # i
    <3>1. cache'[s] = cache[s] /\ cache[s].file # None
      BY <1>6, <2>2
    <3>2. fds'[cache[s].fd] = cache[s].file
      BY <1>4, <1>11, <2>2, <3>1
    <3>3. ASSUME NEW t \in CacheSlots \ {s}
          PROVE  cache'[t].file # cache[s].file /\ cache'[t].fd # cache[s].fd
      <4>1. CASE t = i
        BY <1>1, <1>6, <1>11, <2>2, <3>1, <4>1
      <4>2. CASE t # i
        BY <1>6, <3>1, <4>2 DEF DescriptorInv, CacheTruth
      <4> QED  BY <4>1, <4>2
    <3> QED  BY <3>1, <3>2, <3>3
  <2> QED  BY <2>1, <2>2
<1>13. NoFdLost'
  <2>1. ASSUME NEW z \in Fds, fds'[z] \in Files
        PROVE  \E s \in CacheSlots : cache'[s].file # None /\ cache'[s].fd = z
    <3>1. CASE z = x
      BY <1>1, <1>6, <3>1
    <3>2. CASE z # x
      <4>1. fds[z] \in Files /\ (old # None => z # y)
        BY <1>4, <2>1, <3>2, Distinct
      <4>2. PICK s \in CacheSlots : cache[s].file # None /\ cache[s].fd = z
        BY <4>1 DEF DescriptorInv, NoFdLost
      <4>3. s # i  BY <4>1, <4>2
      <4> QED  BY <1>6, <4>2, <4>3
    <3> QED  BY <3>1, <3>2
  <2>2. ASSUME NEW s \in CacheSlots, cache'[s].file # None
        PROVE  cache'[s].fd \in Fds /\ fds'[cache'[s].fd] \in Files
    <3>1. CASE s = i
      BY <1>1, <1>4, <1>6, <3>1
    <3>2. CASE s # i
      <4>1. cache'[s] = cache[s] /\ cache[s].file \in Files
        BY <1>6, <2>2, <3>2 DEF DescriptorInv
      <4> QED  BY <1>4, <1>11, <2>2, <3>2, <4>1
    <3> QED  BY <3>1, <3>2
  <2> QED  BY <2>1, <2>2 DEF NoFdLost
<1> QED  BY <1>2, <1>5, <1>7, <1>8, <1>9, <1>10, <1>12, <1>13 DEF DescriptorInv

\* Every step does.
LEMMA NextDescriptors ==
  ASSUME DescriptorInv, [Next]_vars PROVE DescriptorInv'
<1>1. ASSUME UNCHANGED <<fds, cache, cache_idx, fd>> PROVE DescriptorInv'
  BY <1>1 DEF DescriptorInv, CacheTruth, NoFdLost
<1>2. CASE UNCHANGED vars
  BY <1>1, <1>2, SMTT(30) DEF vars
<1>3. ASSUME NEW c \in Conns, NEW f \in Files \union {None},
             ProcessHit(c, f) \/ ProcessString(c, f) \/ WriteFile(c) \/ WriteString(c)
      PROVE  DescriptorInv'
  BY <1>1, <1>3 DEF ProcessHit, ProcessString, WriteFile, WriteString, Prepared
<1> QED  BY <1>2, <1>3, AcceptDescriptors, CloseDescriptors, MissDescriptors DEF Next

\* In every reachable state the open descriptors are the ones somebody holds.
LEMMA Descriptors == Spec => []DescriptorInv
<1> QED  BY InitDescriptors, NextDescriptors, PTL DEF Spec

\* get_fd never returns a descriptor that has been closed or given to something else
\* since the file was put into the cache.
THEOREM CacheSafe == Spec => []CacheTruth
<1> QED  BY Descriptors, PTL DEF DescriptorInv

\* No file stays open that has left the cache.
THEOREM DescriptorsKept == Spec => []NoFdLost
<1> QED  BY Descriptors, PTL DEF DescriptorInv
------------------------------------------------------------------------------
(***************************************************************************)
(* connection_send_fd.                                                     *)
(***************************************************************************)
Points == Nat \X Int
Outcome == [sent : Seq(Nat), off : Nat, done : BOOLEAN]

\* The offsets of one send, and what a send of n bytes at off makes of what follows it.
Piece(off, n) == [k \in 1 .. n |-> off + k - 1]
After(off, n, O) == {[o EXCEPT !.sent = Piece(off, n) \o @] : o \in O}

\* The equation of outcome in SendFd: f is outcome itself.
Most(size, off, remain) == IF remain < size - off THEN remain ELSE size - off
Outcomes(x, f, off, remain) ==
  IF remain <= 0 \/ (fds[x] \in Files /\ off >= SizeOf(x))
  THEN {[sent |-> << >>, off |-> off, done |-> TRUE]}
  ELSE IF fds[x] \notin Files
  THEN {[sent |-> << >>, off |-> off, done |-> FALSE]}
  ELSE {[sent |-> << >>, off |-> off, done |-> FALSE]}
       \union UNION {After(off, n, f[<<off + 2 * n, remain - n>>]) :
                      n \in 1 .. Most(SizeOf(x), off, remain)}

\* Sizes are numbers.
LEMMA SizeType == ASSUME NEW x PROVE SizeOf(x) \in Nat
<1> QED  BY ResponsesAssumption DEF SizeOf

\* What is left after a part was sent.
LEMMA AfterType ==
  ASSUME NEW off \in Nat, NEW n \in Nat, NEW O \in SUBSET Outcome
  PROVE  After(off, n, O) \in SUBSET Outcome
<1> SUFFICES ASSUME NEW o \in O
             PROVE  [o EXCEPT !.sent = Piece(off, n) \o @] \in Outcome
  BY DEF After
<1>1. Piece(off, n) \in Seq(Nat) /\ o.sent \in Seq(Nat)
  BY DEF Piece, Outcome
<1>2. Piece(off, n) \o o.sent \in Seq(Nat)
  BY <1>1, ConcatProperties
<1> QED  BY <1>2 DEF Outcome

\* What a call of sendfile or send may do.
LEMMA OutcomesType ==
  ASSUME NEW x, NEW f \in [Points -> SUBSET Outcome], NEW off \in Nat, NEW remain \in Int
  PROVE  Outcomes(x, f, off, remain) \in SUBSET Outcome
<1>1. /\ [sent |-> << >>, off |-> off, done |-> TRUE] \in Outcome
      /\ [sent |-> << >>, off |-> off, done |-> FALSE] \in Outcome
  BY DEF Outcome
<1>2. ASSUME NEW n \in 1 .. Most(SizeOf(x), off, remain)
      PROVE  After(off, n, f[<<off + 2 * n, remain - n>>]) \in SUBSET Outcome
  <2>1. n \in Nat /\ <<off + 2 * n, remain - n>> \in Points
    BY SizeType DEF Most, Points
  <2> QED  BY <2>1, AfterType
<1> QED  BY <1>1, <1>2 DEF Outcomes

\* outcome is what its equation says.
LEMMA SendFdUnfolds ==
  ASSUME NEW x, NEW start \in Nat, NEW len \in Nat
  PROVE  \E f :
           /\ f = [p \in Points |-> Outcomes(x, f, p[1], p[2])]
           /\ SendFd(x, start, len) = f[<<start, len - start>>]
<1> DEFINE V == SUBSET Outcome
           G == [q \in Points \X [Points -> V] |-> Outcomes(x, q[2], q[1][1], q[1][2])]
           rank == [p \in Points |-> IF p[2] > 0 THEN p[2] ELSE 0]
<1>1. rank \in [Points -> Nat] /\ V # {}
  BY DEF Points
<1>2. G \in [Points \X [Points -> V] -> V]
  <2> SUFFICES ASSUME NEW p \in Points, NEW f \in [Points -> V]
               PROVE  Outcomes(x, f, p[1], p[2]) \in V
    OBVIOUS
  <2>1. p[1] \in Nat /\ p[2] \in Int  BY DEF Points
  <2> QED  BY <2>1, OutcomesType
<1>3. LooksBelow(G, Points, V, rank)
  <2> SUFFICES ASSUME NEW p \in Points, NEW f \in [Points -> V], NEW g \in [Points -> V],
                      AgreeBelow(f, g, Points, rank, rank[p])
               PROVE  Outcomes(x, f, p[1], p[2]) = Outcomes(x, g, p[1], p[2])
    BY DEF LooksBelow
  <2> DEFINE off == p[1]
             remain == p[2]
             N == 1 .. Most(SizeOf(x), off, remain)
  <2>1. off \in Nat /\ remain \in Int  BY DEF Points
  <2>2. CASE remain <= 0
    BY <2>2 DEF Outcomes
  <2>3. CASE remain > 0
    <3>1. ASSUME NEW n \in N
          PROVE  After(off, n, f[<<off + 2 * n, remain - n>>])
                   = After(off, n, g[<<off + 2 * n, remain - n>>])
      <4> DEFINE q == <<off + 2 * n, remain - n>>
      <4>1. q \in Points /\ rank[q] < rank[p]
        BY <2>1, <2>3, SizeType DEF Points, Most
      <4>2. f[q] = g[q]
        BY <4>1 DEF AgreeBelow
      <4> QED  BY <4>2
    <3> DEFINE F(n) == After(off, n, f[<<off + 2 * n, remain - n>>])
               H(n) == After(off, n, g[<<off + 2 * n, remain - n>>])
    <3>2. \A n \in N : F(n) = H(n)  BY <3>1
    <3> HIDE DEF F, H, N
    <3>3. UNION {F(n) : n \in N} = UNION {H(n) : n \in N}
      BY <3>2
    <3> QED  BY <3>3 DEF Outcomes, F, H, N
  <2> QED  BY <2>1, <2>2, <2>3
<1>4. Recursive(G, Points, V, rank)
  BY <1>1, <1>2, <1>3 DEF Recursive
<1> HIDE DEF rank, G, V
<1>5. PICK f \in [Points -> V] : \A p \in Points : f[p] = G[<<p, f>>]
  BY <1>4, RecursiveFunctionExists
<1>6. f = [p \in Points |-> Outcomes(x, f, p[1], p[2])]
  BY <1>5 DEF G
<1> DEFINE Eq(h) == h = [p \in Points |-> Outcomes(x, h, p[1], p[2])]
           c == CHOOSE h : Eq(h)
<1>7. Eq(c)  BY <1>6
<1>8. SendFd(x, start, len) = c[<<start, len - start>>]
  BY DEF SendFd, Outcomes, After, Piece, Most, Left, Points
<1> HIDE DEF c
<1> QED  BY <1>7, <1>8

\* Offsets in order, none twice, from lo on and before hi.
Ascending(s, lo, hi) ==
  /\ s \in Seq(Nat)
  /\ \A k, l \in DOMAIN s : k < l => s[k] < s[l]
  /\ \A k \in DOMAIN s : lo <= s[k] /\ s[k] < hi

\* Responses of ascending order, one after the other.
LEMMA AscendingConcat ==
  ASSUME NEW lo \in Nat, NEW mid \in Nat, NEW hi \in Nat, lo <= mid, mid <= hi,
         NEW s, Ascending(s, lo, mid), NEW t, Ascending(t, mid, hi)
  PROVE  Ascending(s \o t, lo, hi) /\ Len(s \o t) = Len(s) + Len(t)
<1> DEFINE u == s \o t
<1>1. s \in Seq(Nat) /\ t \in Seq(Nat)  BY DEF Ascending
<1>2. /\ u \in Seq(Nat) /\ Len(u) = Len(s) + Len(t)
      /\ \A n \in 1 .. Len(s) + Len(t) : u[n] = IF n <= Len(s) THEN s[n] ELSE t[n - Len(s)]
  BY <1>1, ConcatProperties, Zenon
<1>3. /\ Len(s) \in Nat /\ Len(t) \in Nat
      /\ DOMAIN s = 1 .. Len(s) /\ DOMAIN t = 1 .. Len(t) /\ DOMAIN u = 1 .. Len(u)
  BY <1>1, <1>2, LenProperties
<1> HIDE DEF u
<1>4. /\ \A n \in DOMAIN u : n <= Len(s) => n \in DOMAIN s /\ u[n] = s[n]
      /\ \A n \in DOMAIN u : n > Len(s) => n - Len(s) \in DOMAIN t /\ u[n] = t[n - Len(s)]
  BY <1>2, <1>3, SMTT(30)
<1>5. /\ \A n \in DOMAIN s : s[n] \in Nat /\ lo <= s[n] /\ s[n] < mid
      /\ \A n \in DOMAIN t : t[n] \in Nat /\ mid <= t[n] /\ t[n] < hi
  BY <1>1, ElementOfSeq, <1>3 DEF Ascending
<1>6. ASSUME NEW k \in DOMAIN u, NEW l \in DOMAIN u, k < l PROVE u[k] < u[l]
  <2>0. k \in Nat /\ l \in Nat  BY <1>3
  <2>1. CASE l <= Len(s)
    <3>1. k <= Len(s)  BY <1>3, <1>6, <2>0, <2>1
    <3>2. k \in DOMAIN s /\ l \in DOMAIN s /\ u[k] = s[k] /\ u[l] = s[l]  BY <1>4, <2>1, <3>1
    <3> QED  BY <1>6, <3>2 DEF Ascending
  <2>2. CASE k <= Len(s) /\ l > Len(s)
    <3>1. k \in DOMAIN s /\ l - Len(s) \in DOMAIN t /\ u[k] = s[k] /\ u[l] = t[l - Len(s)]
      BY <1>4, <2>2
    <3> QED  BY <1>5, <3>1
  <2>3. CASE k > Len(s)
    <3>1. l > Len(s)  BY <1>3, <1>6, <2>0, <2>3
    <3>2. /\ k - Len(s) \in DOMAIN t /\ l - Len(s) \in DOMAIN t
          /\ u[k] = t[k - Len(s)] /\ u[l] = t[l - Len(s)]
      BY <1>4, <2>3, <3>1
    <3>3. k - Len(s) < l - Len(s)  BY <1>3, <1>6, <2>0
    <3> QED  BY <3>2, <3>3 DEF Ascending
  <2> QED  BY <1>3, <2>0, <2>1, <2>2, <2>3
<1>7. ASSUME NEW k \in DOMAIN u PROVE lo <= u[k] /\ u[k] < hi
  <2>0. k \in Nat  BY <1>3
  <2>1. CASE k <= Len(s)
    <3>1. k \in DOMAIN s /\ u[k] = s[k]  BY <1>4, <2>1
    <3>2. s[k] \in Nat /\ lo <= s[k] /\ s[k] < mid  BY <1>5, <3>1
    <3> QED  BY <3>1, <3>2
  <2>2. CASE k > Len(s)
    <3>1. k - Len(s) \in DOMAIN t /\ u[k] = t[k - Len(s)]  BY <1>4, <2>2
    <3>2. t[k - Len(s)] \in Nat /\ mid <= t[k - Len(s)] /\ t[k - Len(s)] < hi  BY <1>5, <3>1
    <3> QED  BY <3>1, <3>2
  <2> QED  BY <1>3, <2>0, <2>1, <2>2
<1> QED  BY <1>2, <1>6, <1>7 DEF Ascending, u

\* What SendFd promises of an outcome from off with remain bytes to go: offsets in
\* order from off on, no more of them than remain, and a new offset behind them.
Good(o, off, remain) ==
  /\ o \in Outcome
  /\ off <= o.off
  /\ Ascending(o.sent, off, o.off)
  /\ Len(o.sent) <= o.off - off
  /\ o.sent = << >> \/ Len(o.sent) <= remain

\* Nothing sent is in order.
LEMMA NothingGood ==
  ASSUME NEW off \in Nat, NEW remain \in Int, NEW b \in BOOLEAN
  PROVE  Good([sent |-> << >>, off |-> off, done |-> b], off, remain)
<1> QED  BY DEF Good, Outcome, Ascending

\* What is left of a response continues it.
LEMMA AfterGood ==
  ASSUME NEW off \in Nat, NEW remain \in Nat, NEW n \in 1 .. remain,
         NEW O, \A o \in O : Good(o, off + 2 * n, remain - n),
         NEW p \in After(off, n, O)
  PROVE  Good(p, off, remain)
<1>1. PICK o \in O : p = [o EXCEPT !.sent = Piece(off, n) \o @]  BY DEF After
<1>2. /\ o \in Outcome /\ off + 2 * n <= o.off /\ Ascending(o.sent, off + 2 * n, o.off)
      /\ Len(o.sent) <= o.off - (off + 2 * n)
      /\ o.sent = << >> \/ Len(o.sent) <= remain - n
  BY DEF Good
<1>3. o.off \in Nat /\ o.sent \in Seq(Nat) /\ Len(o.sent) \in Nat  BY <1>2 DEF Outcome
<1>4. Piece(off, n) \in Seq(Nat) /\ Len(Piece(off, n)) = n  BY DEF Piece
<1>5. Ascending(Piece(off, n), off, off + 2 * n)
  BY <1>4 DEF Ascending, Piece
<1>6. /\ Ascending(Piece(off, n) \o o.sent, off, o.off)
      /\ Len(Piece(off, n) \o o.sent) = n + Len(o.sent)
  <2> DEFINE mid == off + 2 * n
             hi == o.off
             s == Piece(off, n)
             t == o.sent
  <2>1. mid \in Nat /\ off <= mid /\ mid <= hi /\ hi \in Nat
    BY <1>2, <1>3
  <2>2. Ascending(s, off, mid) /\ Ascending(t, mid, hi) /\ Len(s) = n
    BY <1>2, <1>4, <1>5
  <2> HIDE DEF mid, hi, s, t
  <2>3. Ascending(s \o t, off, hi) /\ Len(s \o t) = Len(s) + Len(t)
    BY <2>1, <2>2, AscendingConcat
  <2> QED  BY <2>2, <2>3 DEF hi, s, t
<1>7. p \in Outcome /\ p.off = o.off /\ p.sent = Piece(off, n) \o o.sent
  BY <1>1, <1>2, <1>6 DEF Outcome, Ascending
<1>8. Len(p.sent) <= p.off - off /\ off <= p.off
  BY <1>2, <1>3, <1>6, <1>7
<1>9. Len(p.sent) <= remain
  <2>1. CASE o.sent = << >>  BY <1>6, <1>7, <2>1
  <2>2. CASE Len(o.sent) <= remain - n  BY <1>3, <1>6, <1>7, <2>2
  <2> QED  BY <1>2, <2>1, <2>2
<1> QED  BY <1>6, <1>7, <1>8, <1>9 DEF Good

\* Sending a file continues the response.
LEMMA SendFdGood ==
  ASSUME NEW x, NEW start \in Nat, NEW len \in Nat, NEW o \in SendFd(x, start, len)
  PROVE  Good(o, start, len - start)
<1>1. PICK f : /\ f = [p \in Points |-> Outcomes(x, f, p[1], p[2])]
               /\ SendFd(x, start, len) = f[<<start, len - start>>]
  BY SendFdUnfolds
<1> DEFINE S == {n \in Nat : \A off \in Nat, remain \in Int : remain <= n =>
                              \A p \in f[<<off, remain>>] : Good(p, off, remain)}
<1>2. ASSUME NEW off \in Nat, NEW remain \in Int
      PROVE  f[<<off, remain>>] = Outcomes(x, f, off, remain)
  BY <1>1 DEF Points
<1>3. ASSUME NEW off \in Nat, NEW remain \in Int, NEW n \in Nat, remain <= n,
             remain > 0 => n - 1 \in S, NEW p \in f[<<off, remain>>]
      PROVE  Good(p, off, remain)
  <2>1. CASE \E b \in BOOLEAN : p = [sent |-> << >>, off |-> off, done |-> b]
    BY <2>1, NothingGood
  <2>2. CASE \E k \in 1 .. Most(SizeOf(x), off, remain) :
               remain > 0 /\ p \in After(off, k, f[<<off + 2 * k, remain - k>>])
    <3>1. PICK k \in 1 .. Most(SizeOf(x), off, remain) :
            remain > 0 /\ p \in After(off, k, f[<<off + 2 * k, remain - k>>])
      BY <2>2
    <3>2. k \in 1 .. remain /\ remain \in Nat  BY <3>1, SizeType DEF Most
    <3>3. off + 2 * k \in Nat /\ remain - k \in Int /\ remain - k <= n - 1
      BY <1>3, <3>2
    <3>4. n - 1 \in S  BY <1>3, <3>1
    <3>5. \A q \in f[<<off + 2 * k, remain - k>>] : Good(q, off + 2 * k, remain - k)
      BY <3>3, <3>4
    <3> QED  BY <3>1, <3>2, <3>5, AfterGood
  <2>3. CASE remain <= 0 \/ (fds[x] \in Files /\ off >= SizeOf(x))
    BY <1>2, <1>3, <2>1, <2>3, ZenonT(60) DEF Outcomes
  <2>4. CASE ~(remain <= 0 \/ (fds[x] \in Files /\ off >= SizeOf(x))) /\ fds[x] \notin Files
    BY <1>2, <1>3, <2>1, <2>4, ZenonT(60) DEF Outcomes
  <2>5. CASE ~(remain <= 0 \/ (fds[x] \in Files /\ off >= SizeOf(x))) /\ fds[x] \in Files
    <3> DEFINE N == 1 .. Most(SizeOf(x), off, remain)
               F(j) == After(off, j, f[<<off + 2 * j, remain - j>>])
               stop == [sent |-> << >>, off |-> off, done |-> FALSE]
    <3>1. f[<<off, remain>>] = {stop} \union UNION {F(k) : k \in N}
      BY <1>2, <2>5 DEF Outcomes
    <3> HIDE DEF N, F, stop
    <3>2. p = stop \/ \E k \in N : p \in F(k)
      BY <1>3, <3>1
    <3>3. CASE p = stop
      BY <2>1, <3>3 DEF stop
    <3>4. CASE \E k \in N : p \in F(k)
      <4>1. remain > 0  BY <2>5
      <4> QED  BY <2>2, <3>4, <4>1 DEF N, F
    <3> QED  BY <3>2, <3>3, <3>4
  <2> QED  BY <2>3, <2>4, <2>5
<1>4. 0 \in S
  BY <1>3
<1>5. ASSUME NEW n \in Nat, n \in S PROVE n + 1 \in S
  <2>1. n + 1 \in Nat /\ (n + 1) - 1 = n  OBVIOUS
  <2> HIDE DEF S
  <2>2. \A off \in Nat, remain \in Int : remain <= n + 1 =>
          \A p \in f[<<off, remain>>] : Good(p, off, remain)
    BY <1>3, <1>5, <2>1
  <2> QED  BY <2>1, <2>2 DEF S
<1> HIDE DEF S
<1>6. \A n \in Nat : n \in S  BY <1>4, <1>5, Induction
<1>7. len - start \in Int /\ len - start <= len  OBVIOUS
<1>8. len \in S  BY <1>6
<1> QED  BY <1>1, <1>7, <1>8 DEF S
------------------------------------------------------------------------------
(***************************************************************************)
(* The bytes of a response.                                                *)
(***************************************************************************)
Response == [st : {"none", "wait", "body"}, body_fd : Fds \union {None},
             body_len : Nat, body_off : Nat, done : BOOLEAN]

\* SendInv of a response r that g has been sent of.
SentSoFar(r, g) ==
  /\ r \in Response
  /\ r.st # "body" => g = << >>
  /\ Ascending(g, 0, r.body_off)
  /\ Len(g) <= r.body_off /\ Len(g) <= r.body_len

SendParts ==
  /\ res \in [Conns -> Response] /\ got \in [Conns -> Seq(Nat)]
  /\ \A c \in Conns : SentSoFar(res[c], got[c])

\* The invariant, connection by connection.
LEMMA SendInvParts == SendInv <=> SendParts
<1>1. ASSUME res \in [Conns -> Response], got \in [Conns -> Seq(Nat)], NEW c \in Conns
      PROVE  /\ res[c] \in Response
             /\ Ascending(got[c], 0, res[c].body_off) <=>
                  /\ \A k, l \in DOMAIN got[c] : k < l => got[c][k] < got[c][l]
                  /\ \A k \in DOMAIN got[c] : got[c][k] < res[c].body_off
  <2>1. got[c] \in Seq(Nat)  BY <1>1
  <2>2. \A k \in DOMAIN got[c] : got[c][k] \in Nat  BY <2>1, ElementOfSeq, LenProperties
  <2>3. \A k \in DOMAIN got[c] : 0 <= got[c][k]  BY <2>2
  <2> QED  BY <1>1, <2>1, <2>3 DEF Ascending
<1> QED  BY <1>1 DEF SendInv, SendParts, SentSoFar, Response

\* Before the body nothing of it was sent.
LEMMA FreshSent ==
  ASSUME NEW r \in Response, r.st # "body" PROVE SentSoFar(r, << >>)
<1>1. r.body_off \in Nat /\ r.body_len \in Nat /\ Len(<< >>) = 0  BY DEF Response
<1> QED  BY <1>1 DEF SentSoFar, Ascending

\* Sending the head leaves the body as it is.
LEMMA HeadedSent ==
  ASSUME NEW r, NEW g, SentSoFar(r, g), r.st # "none"
  PROVE  SentSoFar(Headed(r), g) /\ Headed(r).st = "body"
<1>1. r \in Response /\ r.st \in {"wait", "body"}  BY DEF SentSoFar, Response
<1>2. CASE r.st = "body"
  BY <1>2 DEF Headed
<1>3. CASE r.st = "wait"
  <2> DEFINE n == SizeOf(r.body_fd)
             h == [r EXCEPT !.st = "body", !.body_len = n]
  <2>1. n \in Nat  BY SizeType
  <2> HIDE DEF n
  <2>2. h \in Response /\ h.st = "body" /\ h.body_off = r.body_off /\ h.body_len = n
    BY <1>1, <2>1 DEF Response
  <2>3. g = << >> /\ Len(g) = 0 /\ r.body_off \in Nat  BY <1>1, <1>3 DEF SentSoFar, Response
  <2>4. Headed(r) = h  BY <1>3 DEF Headed, n
  <2> HIDE DEF h
  <2>5. SentSoFar(h, g)  BY <2>1, <2>2, <2>3 DEF SentSoFar, Ascending
  <2> QED  BY <2>2, <2>4, <2>5
<1> QED  BY <1>1, <1>2, <1>3

\* A call of connection_send_fd goes on where the one before it has left the offset.
LEMMA MoreSent ==
  ASSUME NEW r, NEW g, SentSoFar(r, g), r.st = "body",
         NEW x, NEW o \in SendFd(x, r.body_off, r.body_len)
  PROVE  SentSoFar([r EXCEPT !.body_off = o.off, !.done = o.done], g \o o.sent)
<1> DEFINE off == r.body_off
           len == r.body_len
           hi == o.off
           t == o.sent
           q == [r EXCEPT !.body_off = o.off, !.done = o.done]
<1>1. r \in Response /\ off \in Nat /\ len \in Nat /\ Ascending(g, 0, off)
      /\ Len(g) <= off /\ Len(g) <= len
  BY DEF SentSoFar, Response
<1>2. Good(o, off, len - off)
  BY <1>1, SendFdGood
<1>3. /\ o \in Outcome /\ hi \in Nat /\ off <= hi /\ Ascending(t, off, hi) /\ t \in Seq(Nat)
      /\ Len(t) <= hi - off /\ (t = << >> \/ Len(t) <= len - off)
  BY <1>2 DEF Good, Outcome
<1>4. q \in Response /\ q.st = "body" /\ q.body_off = hi /\ q.body_len = len
  BY <1>1, <1>3 DEF Response, Outcome
<1>5. g \in Seq(Nat) /\ Len(g) \in Nat /\ Len(t) \in Nat  BY <1>1, <1>3 DEF Ascending
<1> HIDE DEF off, len, hi, t, q
<1>6. Ascending(g \o t, 0, hi) /\ Len(g \o t) = Len(g) + Len(t)
  <2>1. 0 \in Nat /\ 0 <= off  BY <1>1
  <2> QED  BY <1>1, <1>3, <2>1, AscendingConcat
<1>7. Len(g \o t) <= hi /\ Len(g \o t) <= len
  <2>1. t = << >> => Len(t) = 0  OBVIOUS
  <2> QED  BY <1>1, <1>3, <1>5, <1>6, <2>1
<1>8. SentSoFar(q, g \o t)
  BY <1>4, <1>6, <1>7 DEF SentSoFar
<1> QED  BY <1>8 DEF q, t

\* The invariant of sending holds at the start.
LEMMA InitSent == Init => SendParts
<1> SUFFICES ASSUME Init PROVE SendParts  OBVIOUS
<1>1. NewResponse \in Response /\ NewResponse.st # "body"
  BY DEF NewResponse, Response
<1>2. SentSoFar(NewResponse, << >>)  BY <1>1, FreshSent
<1> QED  BY <1>1, <1>2 DEF Init, SendParts

\* Every step keeps it.
LEMMA NextSent ==
  ASSUME DescriptorInv, SendParts, [Next]_vars PROVE SendParts'
<1>1. ASSUME NEW c \in Conns, NEW r \in Response, NEW g \in Seq(Nat),
             res' = [res EXCEPT ![c] = r], got' = [got EXCEPT ![c] = g], SentSoFar(r, g)
      PROVE  SendParts'
  <2>1. res' \in [Conns -> Response] /\ got' \in [Conns -> Seq(Nat)]
    BY <1>1 DEF SendParts
  <2>2. \A d \in Conns : SentSoFar(res'[d], got'[d])
    BY <1>1 DEF SendParts
  <2> QED  BY <2>1, <2>2 DEF SendParts, SentSoFar
<1>2. ASSUME UNCHANGED <<res, got>> PROVE SendParts'
  BY <1>2 DEF SendParts, SentSoFar
<1>3. \A c \in Conns : res[c] \in Response /\ got[c] \in Seq(Nat) /\ SentSoFar(res[c], got[c])
  BY DEF SendParts
<1>4. ASSUME NEW c \in Conns, NEW f, NEW x \in Fds \union {None}, Prepared(c, f, x)
      PROVE  SendParts'
  <2> DEFINE r == [res[c] EXCEPT !.st = "wait", !.body_fd = x, !.done = FALSE]
  <2>1. r \in Response /\ r.st # "body"  BY <1>3 DEF Response
  <2>2. res' = [res EXCEPT ![c] = r]  BY <1>4 DEF Prepared
  <2>3. got' = [got EXCEPT ![c] = << >>]  BY <1>4 DEF Prepared
  <2> HIDE DEF r
  <2>4. SentSoFar(r, << >>) /\ << >> \in Seq(Nat)  BY <2>1, FreshSent
  <2> QED  BY <1>1, <2>1, <2>2, <2>3, <2>4
<1>5. CASE UNCHANGED vars
  BY <1>2, <1>5 DEF vars
<1>6. ASSUME NEW c \in Conns, Accept(c) PROVE SendParts'
  BY <1>2, <1>6 DEF Accept
<1>7. ASSUME NEW c \in Conns, Close(c) PROVE SendParts'
  <2>1. NewResponse \in Response /\ NewResponse.st # "body"
    BY DEF NewResponse, Response
  <2>2. SentSoFar(NewResponse, << >>) /\ << >> \in Seq(Nat)  BY <2>1, FreshSent
  <2>3. res' = [res EXCEPT ![c] = NewResponse] /\ got' = [got EXCEPT ![c] = << >>]
    BY <1>7 DEF Close
  <2> QED  BY <1>1, <2>1, <2>2, <2>3
<1>8. ASSUME NEW c \in Conns, NEW f \in Files, ProcessHit(c, f) PROVE SendParts'
  <2>1. \E s \in CacheSlots : cache[s].file = f  BY <1>8 DEF ProcessHit, Cached
  <2>2. CachedFd(f) \in Fds \union {None}  BY <2>1 DEF CachedFd, DescriptorInv
  <2> QED  BY <1>4, <1>8, <2>2 DEF ProcessHit
<1>9. ASSUME NEW c \in Conns, NEW f \in Files, ProcessMiss(c, f) PROVE SendParts'
  BY <1>4, <1>9, LowestIsFree DEF ProcessMiss
<1>10. ASSUME NEW c \in Conns, NEW f, ProcessString(c, f) PROVE SendParts'
  BY <1>4, <1>10 DEF ProcessString
<1>11. ASSUME NEW c \in Conns, WriteFile(c) PROVE SendParts'
  <2> DEFINE r == Headed(res[c])
  <2>1. PICK o \in SendFd(r.body_fd, r.body_off, r.body_len) :
          /\ res' = [res EXCEPT ![c] = [r EXCEPT !.body_off = o.off, !.done = o.done]]
          /\ got' = [got EXCEPT ![c] = got[c] \o o.sent]
    BY <1>3, <1>11 DEF WriteFile, SendParts
  <2>2. SentSoFar(r, got[c]) /\ r.st = "body"
    BY <1>3, <1>11, HeadedSent DEF WriteFile
  <2> HIDE DEF r
  <2> DEFINE q == [r EXCEPT !.body_off = o.off, !.done = o.done]
  <2>3. SentSoFar(q, got[c] \o o.sent)
    BY <2>2, MoreSent
  <2>4. q \in Response /\ got[c] \o o.sent \in Seq(Nat)
    BY <2>3 DEF SentSoFar, Ascending
  <2> QED  BY <1>1, <2>1, <2>3, <2>4
<1>12. ASSUME NEW c \in Conns, WriteString(c) PROVE SendParts'
  <2> DEFINE r == Headed(res[c])
             q == [r EXCEPT !.done = TRUE]
  <2>1. res' = [res EXCEPT ![c] = q] /\ got' = [got EXCEPT ![c] = got[c]]
    BY <1>12 DEF WriteString, SendParts
  <2>2. SentSoFar(r, got[c]) /\ r.st = "body"
    BY <1>3, <1>12, HeadedSent DEF WriteString
  <2> HIDE DEF r
  <2>3. q \in Response /\ q.st = "body" /\ q.body_off = r.body_off /\ q.body_len = r.body_len
    BY <2>2 DEF SentSoFar, Response
  <2> HIDE DEF q
  <2>4. SentSoFar(q, got[c])  BY <2>2, <2>3 DEF SentSoFar
  <2> QED  BY <1>1, <1>3, <2>1, <2>3, <2>4
<1> QED  BY <1>5, <1>6, <1>7, <1>8, <1>9, <1>10, <1>11, <1>12 DEF Next

\* What a client is sent of a body is in order, no byte of it twice, and no more than
\* Content-Length has said, however sendfile and the socket cut it into calls.
THEOREM SentSafe == Spec => []SentInOrder
<1>1. DescriptorInv /\ SendParts /\ [Next]_vars => SendParts'  BY NextSent
<1>2. SendParts => SentInOrder
  BY SendInvParts DEF SendInv, SentInOrder
<1> QED  BY InitSent, <1>1, <1>2, Descriptors, PTL DEF Spec
=============================================================================
