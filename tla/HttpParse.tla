----------------------------- MODULE HttpParse -----------------------------
(***************************************************************************)
(* The parsers of protocol/picohttpparser.c: what phr_parse_request,       *)
(* phr_parse_response and phr_parse_headers make of a buffer that may end  *)
(* anywhere.  A position is the index of the next byte, the end of the     *)
(* buffer is Len(s) + 1; instead of a position a part of the parser gives  *)
(* -2 (the buffer ends too early) or -1 (it cannot become right).          *)
(***************************************************************************)
EXTENDS Integers, Sequences, FiniteSetsExt

More == -2
Bad == -1

\* One symbol for each kind of byte that is told apart: "t" is a character of a
\* token and no digit, "1" a digit, "/" one that is printable but in no token,
\* "hi" a byte from 128 on, "ctl" any other control character.  "V" is the seven
\* bytes "HTTP/1.".
TokenChars == {"t", "1"}
Blanks == {"SP", "HT"}
Controls == {"HT", "CR", "LF", "ctl"}
Bytes == TokenChars \union Blanks \union Controls \union {":", "/", "hi", "V"}

\* The parts run one after the other, and the first that fails ends them.
Then(p, Part(_)) == IF p < 0 THEN p ELSE Part(p)

\* findchar_fast and the loops behind it: the first byte of a kind.
FirstOf(s, i, S) == Min({p \in i .. Len(s) : s[p] \in S} \union {Len(s) + 1})
AtEnd(s, i) == i = Len(s) + 1

\* EXPECT_CHAR.  Mutant: the end of the buffer is taken for a wrong byte.
Expect_NoEof(s, i, c) == IF AtEnd(s, i) \/ s[i] # c THEN Bad ELSE i + 1
Expect(s, i, c) ==
  IF AtEnd(s, i) THEN More ELSE IF s[i] = c THEN i + 1 ELSE Bad

\* The first byte of the kind, when it is one of G and the buffer has it.
Reach(s, i, S, G) ==
  LET p == FirstOf(s, i, S) IN
  IF AtEnd(s, p) THEN More ELSE IF s[p] \in G THEN p ELSE Bad

\* parse_token
Token(s, i, next) == Reach(s, i, (Bytes \ TokenChars) \union {next}, {next})

\* ADVANCE_TOKEN
AdvanceToken(s, i) == Reach(s, i, Controls \union {"SP"}, {"SP"})

\* From a space on, over the spaces behind it.
SkipSpaces(s, i) == Reach(s, i + 1, Bytes \ {"SP"}, Bytes)
SkipBlanks(s, i) == Reach(s, i, Bytes \ Blanks, Bytes)

\* The end of a line, as "\r\n" or "\n".
LineEnd(s, i) ==
  CASE AtEnd(s, i) -> More
    [] ~AtEnd(s, i) /\ s[i] = "CR" -> Expect(s, i + 1, "LF")
    [] ~AtEnd(s, i) /\ s[i] = "LF" -> i + 1
    [] ~AtEnd(s, i) /\ s[i] \notin {"CR", "LF"} -> Bad

\* get_token_to_eol: the text ends in front of Eol, the next line begins at ToEol.
Eol(s, i) == FirstOf(s, i, Controls \ {"HT"})
ToEol(s, i) == LineEnd(s, Eol(s, i))

\* parse_http_version, which wants nine bytes.
Versions(s, i) == {p \in i .. Len(s) : s[p] = "V"}
Width(s, i) == Len(s) + 1 - i + 6 * Cardinality(Versions(s, i))
Version(s, i) ==
  IF Width(s, i) < 9 THEN More
  ELSE IF s[i] = "V" /\ s[i + 1] = "1" THEN i + 2 ELSE Bad
------------------------------------------------------------------------------
\* The value without the blanks behind it.  Mutant: tabs are kept.
Trimmed_Spaces(s, a, b) ==
  SubSeq(s, a, Max({p \in a .. b - 1 : s[p] # "SP"} \union {a - 1}))
Trimmed(s, a, b) ==
  SubSeq(s, a, Max({p \in a .. b - 1 : s[p] \notin Blanks} \union {a - 1}))

\* A line that begins with a blank goes on with the header before it, so the
\* first line cannot.  Mutant: it can.
Folded_First(s, i, n) == s[i] \in Blanks
Folded(s, i, n) == n # 0 /\ s[i] \in Blanks

\* Where the value of the line at i begins.
ValueAt(s, i, n) ==
  IF Folded(s, i, n) THEN i
  ELSE Then(Token(s, i, ":"), LAMBDA c : IF c = i THEN Bad ELSE SkipBlanks(s, c + 1))

\* A folded line has an empty name.
HeaderName(s, i, n) ==
  IF Folded(s, i, n) THEN << >> ELSE SubSeq(s, i, Token(s, i, ":") - 1)

Failed(r) == [ret |-> r, headers |-> << >>]

\* parse_headers from position h0 on, at most max of them.
Headers(s, h0, max) ==
  LET from[at \in (1 .. Len(s) + 1) \X (0 .. max)] ==
        LET i == at[1]
            n == at[2]
            v == ValueAt(s, i, n)
            e == Then(v, LAMBDA p : ToEol(s, p))
        IN  IF AtEnd(s, i) \/ s[i] \in {"CR", "LF"} THEN Failed(LineEnd(s, i))
            ELSE IF n = max THEN Failed(Bad)
            ELSE IF e < 0 THEN Failed(e)
            ELSE [from[<<e, n + 1>>] EXCEPT !.headers =
                   <<[name |-> HeaderName(s, i, n), value |-> Trimmed(s, v, Eol(s, v))]>> \o @]
  IN  IF h0 < 0 THEN Failed(h0) ELSE from[<<h0, 0>>]

NoRequest(r) == [ret |-> r, method |-> << >>, path |-> << >>, headers |-> << >>]

\* parse_request.  ret is the position behind the request.
ParseRequest(s, max) ==
  LET start == CASE s = << >> -> More
                 [] s # << >> /\ s[1] \in {"CR", "LF"} -> LineEnd(s, 1)
                 [] s # << >> /\ s[1] \notin {"CR", "LF"} -> 1
      method == Then(start, LAMBDA i : Token(s, i, "SP"))
      path == Then(method, LAMBDA i : SkipSpaces(s, i))
      pathEnd == Then(path, LAMBDA i : AdvanceToken(s, i))
      version == Then(pathEnd, LAMBDA i : SkipSpaces(s, i))
      line == Then(version, LAMBDA i : IF method = start \/ pathEnd = path THEN Bad
                                       ELSE Version(s, i))
      h == Headers(s, Then(line, LAMBDA i : LineEnd(s, i)), max)
  IN  IF h.ret < 0 THEN NoRequest(h.ret)
      ELSE [ret |-> h.ret, method |-> SubSeq(s, start, method - 1),
            path |-> SubSeq(s, path, pathEnd - 1), headers |-> h.headers]

\* PARSE_INT_3, behind a check for four bytes.
Status(s, i) ==
  IF Width(s, i) < 4 THEN More
  ELSE IF \A p \in i .. i + 2 : p <= Len(s) /\ s[p] = "1" THEN i + 3 ELSE Bad

NoResponse(r) == [ret |-> r, msg |-> << >>, headers |-> << >>]

\* parse_response.  The message, when there is one, is behind a space.
ParseResponse(s, max) ==
  LET version == Then(Version(s, 1), LAMBDA i : IF s[i] = "SP" THEN i ELSE Bad)
      status == Then(version, LAMBDA i : SkipSpaces(s, i))
      msg == Then(status, LAMBDA i : Status(s, i))
      next == Then(msg, LAMBDA i : ToEol(s, i))
      text == SubSeq(s, msg, Eol(s, msg) - 1)
      h == Headers(s, Then(next, LAMBDA i : IF text # << >> /\ text[1] # "SP" THEN Bad ELSE i), max)
  IN  IF h.ret < 0 THEN NoResponse(h.ret)
      ELSE [ret |-> h.ret, headers |-> h.headers,
            msg |-> SubSeq(s, FirstOf(s, msg, Bytes \ {"SP"}), Eol(s, msg) - 1)]
------------------------------------------------------------------------------
\* is_complete, looking from position i on: the position behind the first two
\* line ends in a row.
IsComplete(s, i) ==
  LET from[at \in (1 .. Len(s) + 1) \X (0 .. 2)] ==
        LET p == at[1]
            n == at[2]
        IN  IF n = 2 THEN p
            ELSE IF AtEnd(s, p) THEN More
            ELSE IF s[p] \in {"CR", "LF"} THEN Then(LineEnd(s, p), LAMBDA q : from[<<q, n + 1>>])
            ELSE from[<<p + 1, 0>>]
  IN  from[<<i, 0>>]

\* phr_parse_request and phr_parse_response.  Unless last_len is 0 the parser is
\* only called for a buffer that has a blank line at or behind resume.
RequestOrMore(s, max, last_len, resume) ==
  IF last_len # 0 /\ IsComplete(s, resume) < 0 THEN NoRequest(IsComplete(s, resume))
  ELSE ParseRequest(s, max)
ResponseOrMore(s, max, last_len, resume) ==
  IF last_len # 0 /\ IsComplete(s, resume) < 0 THEN NoResponse(IsComplete(s, resume))
  ELSE ParseResponse(s, max)
HeadersOrMore(s, max, last_len, resume) ==
  IF last_len # 0 /\ IsComplete(s, resume) < 0 THEN Failed(IsComplete(s, resume))
  ELSE Headers(s, 1, max)
=============================================================================
