---------------------------- MODULE HttpMessages ----------------------------
(***************************************************************************)
(* The parsers of HttpParse on every buffer up to a length, against what a *)
(* message is by its lines.  The texts grow byte by byte from some starts. *)
(***************************************************************************)
EXTENDS HttpParse

CONSTANTS
  Starts,      \* bound: the texts to begin with
  MaxGrowth,   \* bound: bytes behind a start
  MaxHeaders   \* HTTP_HEADER_NUMBER_LIMIT

ASSUME MessagesAssumption ==
  MaxGrowth \in Nat /\ MaxHeaders \in Nat \ {0} /\ Starts \subseteq Seq(Bytes)

VARIABLES text, growth

textVars == <<text, growth>>

TextInit == text \in Starts /\ growth = 0
TextNext ==
  /\ growth < MaxGrowth /\ growth' = growth + 1
  /\ \E b \in Bytes : text' = Append(text, b)
TextSpec == TextInit /\ [][TextNext]_textVars
------------------------------------------------------------------------------
Prefix(s, k) == SubSeq(s, 1, k)
Text(s) == \A p \in DOMAIN s : s[p] \notin Controls \ {"HT"}
AllIn(s, a, b, S) == \A p \in a .. b : s[p] \in S

\* The lines of s, which ends with a line feed, without their ends.
Feeds(s) == {0} \union {p \in DOMAIN s : s[p] = "LF"}
LineFrom(s, f) ==
  LET e == Min({p \in Feeds(s) : p > f}) IN
  SubSeq(s, f + 1, IF e > f + 1 /\ s[e - 1] = "CR" THEN e - 2 ELSE e - 1)
LinesOf(s) ==
  [k \in 1 .. Cardinality(Feeds(s)) - 1 |->
     LineFrom(s, CHOOSE f \in Feeds(s) : Cardinality({g \in Feeds(s) : g < f}) = k - 1)]

IsRequestLine(l) ==
  \E i, j, k \in DOMAIN l :
    /\ 1 < i /\ i < j /\ j < k /\ k <= Len(l) - 2
    /\ AllIn(l, 1, i - 1, TokenChars) /\ AllIn(l, i, j - 1, {"SP"})
    /\ AllIn(l, j, k - 1, Bytes \ (Controls \union {"SP"})) /\ AllIn(l, k, Len(l) - 2, {"SP"})
    /\ l[Len(l) - 1] = "V" /\ l[Len(l)] = "1"

Colon(l) == FirstOf(l, 1, {":"})
IsHeader(l, n) ==
  /\ Text(l)
  /\ \/ n > 1 /\ l[1] \in Blanks
     \/ Colon(l) \in 2 .. Len(l) /\ AllIn(l, 1, Colon(l) - 1, TokenChars)

\* The lines of headers that end with the first empty one.
AreHeaders(L) ==
  /\ L # << >> /\ Len(L) - 1 <= MaxHeaders
  /\ \A n \in DOMAIN L : IF n = Len(L) THEN L[n] = << >> ELSE L[n] # << >> /\ IsHeader(L[n], n)

EndsLine(s) == s # << >> /\ s[Len(s)] = "LF"
Without1(L) == SubSeq(L, 2, Len(L))
RequestLines(s) == IF LinesOf(s)[1] = << >> THEN Without1(LinesOf(s)) ELSE LinesOf(s)
IsRequest(s) ==
  /\ EndsLine(s)
  /\ LET L == RequestLines(s) IN L # << >> /\ IsRequestLine(L[1]) /\ AreHeaders(Without1(L))

IsStatusLine(l) ==
  /\ Len(l) >= 6 /\ SubSeq(l, 1, 3) = <<"V", "1", "SP">>
  /\ \E i \in 4 .. Len(l) - 2 :
       /\ AllIn(l, 3, i - 1, {"SP"}) /\ AllIn(l, i, i + 2, {"1"})
       /\ i + 2 < Len(l) => l[i + 3] = "SP"
  /\ Text(l)
IsResponse(s) ==
  EndsLine(s) /\ IsStatusLine(LinesOf(s)[1]) /\ AreHeaders(Without1(LinesOf(s)))

AreOnlyHeaders(s) == EndsLine(s) /\ AreHeaders(LinesOf(s))

NonBlank(l, a) == {p \in a .. Len(l) : l[p] \notin Blanks}
ValueFrom(l, a) == IF NonBlank(l, a) = {} THEN << >> ELSE SubSeq(l, a, Max(NonBlank(l, a)))
HeaderOf(l, n) ==
  IF n > 1 /\ l[1] \in Blanks THEN [name |-> << >>, value |-> ValueFrom(l, 1)]
  ELSE [name |-> Prefix(l, Colon(l) - 1),
        value |-> ValueFrom(l, Min(NonBlank(l, Colon(l) + 1) \union {Len(l) + 1}))]
HeadersOf(L) == [n \in 1 .. Len(L) - 1 |-> HeaderOf(L[n], n)]

Whole(s) == ParseRequest(s, MaxHeaders)

\* A result that is no failure is the position behind the only prefix of its kind.
Finds(s, r, Is(_)) ==
  {k \in DOMAIN s : Is(Prefix(s, k))} = IF r \in {More, Bad} THEN {} ELSE {r - 1}
------------------------------------------------------------------------------
\* The parser takes exactly the requests, wherever the buffer ends: it finds one
\* as soon as its last byte is there, and it takes no bytes that follow.  The same
\* for responses, also when an earlier call has had too little, and for headers
\* alone.
MessagesExact ==
  /\ Finds(text, Whole(text).ret, IsRequest)
  /\ \A last_len \in {0, More} :
       Finds(text, ResponseOrMore(text, MaxHeaders, last_len, 1).ret, IsResponse)
  /\ Finds(text, HeadersOrMore(text, MaxHeaders, 0, 1).ret, AreOnlyHeaders)

\* Method, path and headers of a request are what its lines say: the method ends at
\* the first space, the path goes from the first character behind the spaces to
\* the next space, a folded line has no name, a value has no blanks around it.
PathFrom(l) == FirstOf(l, FirstOf(l, 1, {"SP"}), Bytes \ {"SP"})
FieldsExact ==
  LET r == Whole(text) IN
  r.ret > 0 =>
    LET L == RequestLines(Prefix(text, r.ret - 1)) IN
      /\ r.method = Prefix(L[1], FirstOf(L[1], 1, {"SP"}) - 1)
      /\ r.path = SubSeq(L[1], PathFrom(L[1]), FirstOf(L[1], PathFrom(L[1]), {"SP"}) - 1)
      /\ r.headers = HeadersOf(Without1(L))

\* Where a text is refused, on its own or while the server waits for a blank
\* line, nothing that could still arrive would make it a request; so the
\* connection may be closed at once.
Endings == {<<"LF">>, <<"LF", "LF">>, <<"1", "LF", "LF">>, <<"V", "1", "LF", "LF">>,
            <<"SP", "V", "1", "LF", "LF">>, <<"SP", "/", "SP", "V", "1", "LF", "LF">>,
            <<":", "LF", "LF">>, <<"t", ":", "LF", "LF">>}
RefusedForGood ==
  (\E last_len \in {0, More} : RequestOrMore(text, MaxHeaders, last_len, 1).ret = Bad) =>
    \A x \in Endings : ~IsRequest(text \o x)
=============================================================================
