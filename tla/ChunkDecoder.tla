---------------------------- MODULE ChunkDecoder ----------------------------
(***************************************************************************)
(* phr_decode_chunked of protocol/picohttpparser.c: it takes the body of a *)
(* message in pieces and keeps, in a decoder, where in the encoding the    *)
(* last piece ended.  What it leaves at the beginning of its buffer is the *)
(* data of the piece, and behind the end of the body what follows it.      *)
(***************************************************************************)
EXTENDS HttpParse, FiniteSets

CONSTANTS
  MaxStream,     \* bound: bytes of a body and what follows it
  MaxText,       \* bound: those of them that are no line ends
  MaxPiece,      \* bound: bytes of a call
  HexMax,        \* 16, the hexadecimal digits of a size_t
  OverheadMax    \* 100 KB, what the encoding may cost

ASSUME ChunkAssumption == {MaxStream, MaxText, MaxPiece, HexMax, OverheadMax} \subseteq Nat

VARIABLES
  decoder,     \* struct phr_chunked_decoder
  out,         \* the data of all the calls
  result,      \* of the last call: More, Bad, or Complete when the body has ended
  rest,        \* what follows the body in the last piece
  stream       \* the bytes of all the calls: history

chunkVars == <<decoder, out, result, rest, stream>>

Complete == 0

\* Two digits, with their values, and the other characters that are told apart:
\* ";" may follow a size, "x" may not.
Digits == {"0", "1"}
DecodeHex(c) == IF c = "0" THEN 0 ELSE 1
Chars == Digits \union {";", "x", "CR", "LF"}

NewDecoder(trailer) ==
  [state |-> "size", left |-> 0, hex |-> 0, trailer |-> trailer, read |-> 0, overhead |-> 0]

\* A call so far: the decoder, the data, and how it ends if it has to.
To(d, st) == [decoder |-> [d EXCEPT !.state = st], out |-> << >>, result |-> More]
End(d, r) == [decoder |-> d, out |-> << >>, result |-> r]

\* Behind a size, up to the end of the line.
Extension(d, c) ==
  CASE c = "CR" -> To(d, "size_lf") [] c = "LF" -> End(d, Bad)
    [] c \notin {"CR", "LF"} -> To(d, "ext")

SizeEnds(d) == [d EXCEPT !.state = "ext", !.hex = 0]

WithDigit(d, v) == [d EXCEPT !.left = @ * 16 + v, !.hex = @ + 1]

Size(d, c) ==
  CASE c \notin Digits /\ (d.hex = 0 \/ c = "x") -> End(d, Bad)
    [] c \notin Digits /\ d.hex # 0 /\ c # "x" -> Extension(SizeEnds(d), c)
    [] c \in Digits /\ d.hex = HexMax -> End(d, Bad)
    [] c \in Digits /\ d.hex # HexMax ->
         To(WithDigit(d, DecodeHex(c)), "size")

\* The chunk of size 0 is the last.  Mutant: its trailer is left to the caller.
SizeLineEnds_NoTrailer(d) == IF d.left # 0 THEN To(d, "data") ELSE End(d, Complete)
SizeLineEnds(d) ==
  CASE d.left # 0 -> To(d, "data")
    [] d.left = 0 /\ d.trailer -> To(d, "head")
    [] d.left = 0 /\ ~d.trailer -> End(d, Complete)

TrailerHead(d, c) ==
  CASE c = "CR" -> To(d, "head") [] c = "LF" -> End(d, Complete)
    [] c \notin {"CR", "LF"} -> To(d, "middle")

\* One byte of the loops; the data is moved to the front byte by byte.
Byte(d, c) ==
  CASE d.state = "size" -> Size(d, c)
    [] d.state = "ext" -> Extension(d, c)
    [] d.state = "size_lf" -> IF c = "LF" THEN SizeLineEnds(d) ELSE End(d, Bad)
    [] d.state = "data" ->
         [To([d EXCEPT !.left = @ - 1], IF d.left = 1 THEN "data_cr" ELSE "data")
            EXCEPT !.out = <<c>>]
    [] d.state = "data_cr" -> IF c = "CR" THEN To(d, "data_lf") ELSE End(d, Bad)
    [] d.state = "data_lf" -> IF c = "LF" THEN To(d, "size") ELSE End(d, Bad)
    [] d.state = "head" -> TrailerHead(d, c)
    [] d.state = "middle" -> To(d, IF c = "LF" THEN "head" ELSE "middle")

\* A round of the loop: it goes on until a byte ends it, and those behind are the
\* rest.
Consume(a, c) ==
  IF a.result # More THEN [a EXCEPT !.rest = Append(@, c)]
  ELSE LET b == Byte(a.decoder, c) IN
       [decoder |-> b.decoder, out |-> a.out \o b.out, result |-> b.result, rest |-> << >>]

\* The decoder at the beginning of a call.  Mutant: the digits that a call before
\* has seen are not counted.
Started_NoHex(d, n) == [d EXCEPT !.read = @ + n, !.hex = 0]
Started(d, n) == [d EXCEPT !.read = @ + n]

TooMuch(d) == d.overhead >= OverheadMax /\ d.read - d.overhead < d.read \div 4

\* The loop over the bytes of a call.
Loop(d, buf) ==
  LET after[k \in 0 .. Len(buf)] ==
        IF k = 0 THEN [decoder |-> d, out |-> << >>, result |-> More, rest |-> << >>]
        ELSE Consume(after[k - 1], buf[k])
  IN  after[Len(buf)]

\* phr_decode_chunked
Decode(d0, buf) ==
  LET a == Loop(Started(d0, Len(buf)), buf)
      d == [a.decoder EXCEPT !.overhead = @ + Len(buf) - Len(a.out)]
  IN  IF a.result # More THEN a
      ELSE [a EXCEPT !.decoder = d, !.result = IF TooMuch(d) THEN Bad ELSE More]

ChunkInit ==
  /\ \E trailer \in BOOLEAN : decoder = NewDecoder(trailer)
  /\ out = << >> /\ result = More /\ rest = << >> /\ stream = << >>

TextOf(s) == Cardinality({p \in DOMAIN s : s[p] \notin {"CR", "LF"}})

\* The caller goes on until the body has ended or is refused.
ChunkNext ==
  /\ result = More
  /\ \E n \in 1 .. MaxPiece : \E buf \in [1 .. n -> Chars] :
       LET a == Decode(decoder, buf) IN
       /\ Len(stream) + n <= MaxStream /\ TextOf(stream) + TextOf(buf) <= MaxText
       /\ decoder' = a.decoder /\ out' = out \o a.out
       /\ result' = a.result /\ rest' = a.rest
       /\ stream' = stream \o buf

ChunkSpec == ChunkInit /\ [][ChunkNext]_chunkVars
------------------------------------------------------------------------------
(***************************************************************************)
(* What a chunked body is, chunk by chunk.                                 *)
(***************************************************************************)
LeastOr(S, other) == IF S = {} THEN other ELSE CHOOSE p \in S : \A q \in S : p <= q
FirstAt(i, S) == LeastOr({p \in i .. Len(stream) : stream[p] \in S}, Len(stream) + 1)
HasAt(p, c) == p \in DOMAIN stream /\ stream[p] = c

\* The size line at i: digits, then perhaps an extension, then "\r\n".
SizeEnd(i) == FirstAt(i, Chars \ Digits)
SizeLineEnd(i) == FirstAt(i, {"CR", "LF"})
IsSizeLine(i) ==
  /\ SizeEnd(i) - i \in 1 .. HexMax /\ SizeEnd(i) <= Len(stream)
  /\ stream[SizeEnd(i)] # "x" /\ HasAt(SizeLineEnd(i), "CR") /\ HasAt(SizeLineEnd(i) + 1, "LF")
ChunkSize(i) ==
  LET of[p \in i - 1 .. SizeEnd(i) - 1] ==
        IF p = i - 1 THEN 0 ELSE of[p - 1] * 16 + DecodeHex(stream[p])
  IN  of[SizeEnd(i) - 1]

\* What can still become one when more bytes come.
MayBeSizeLine(i) ==
  /\ SizeEnd(i) - i <= HexMax
  /\ \/ SizeEnd(i) > Len(stream)
     \/ /\ SizeEnd(i) > i /\ stream[SizeEnd(i)] # "x"
        /\ \/ SizeLineEnd(i) > Len(stream)
           \/ SizeLineEnd(i) = Len(stream) /\ HasAt(SizeLineEnd(i), "CR")

\* A trailer ends with a line that is empty, not counting carriage returns.
TrailerEnd(i) ==
  LeastOr({p \in i .. Len(stream) :
           /\ stream[p] = "LF"
           /\ \E q \in i .. p : /\ q = i \/ stream[q - 1] = "LF"
                              /\ \A r \in q .. p - 1 : stream[r] = "CR"},
        Len(stream) + 1)

\* The body is not at its end: more of it can come, or it is none.
Unended(data, more) == [data |-> data, end |-> IF more THEN Len(stream) + 1 ELSE 0]

\* The data from the chunk at i on and where the body ends: behind the stream when
\* more bytes are needed, 0 when what is there begins no body.
Body ==
  LET from[i \in Nat] ==
        LET v == ChunkSize(i)
            b == SizeLineEnd(i) + 2
        IN  IF i > Len(stream) \/ ~IsSizeLine(i) THEN Unended(<< >>, MayBeSizeLine(i))
            ELSE IF v = 0 /\ ~decoder.trailer THEN [data |-> << >>, end |-> b - 1]
            ELSE IF v = 0 THEN [data |-> << >>, end |-> TrailerEnd(b)]
            ELSE IF ~HasAt(b + v, "CR") \/ ~HasAt(b + v + 1, "LF") THEN
              Unended(SubSeq(stream, b, IF b + v > Len(stream) THEN Len(stream) ELSE b + v - 1),
                      b + v > Len(stream) \/ (b + v = Len(stream) /\ HasAt(b + v, "CR")))
            ELSE [from[b + v + 2] EXCEPT !.data = SubSeq(stream, b, b + v - 1) \o @]
  IN  from[1]

\* n bytes of data are too few for what the stream is long.
Costly(n) == Len(stream) - n >= OverheadMax /\ n < Len(stream) \div 4

\* However the bytes so far were cut into calls, data, end, rest and decoder are those
\* of one run of the loop over all of them; only that encoding which costs too much
\* is refused depends on the cuts, since picohttpparser.c:692 asks it of a call that ends
\* within the body: such a body is refused in pieces and taken as a whole.
CutsHidden ==
  LET a == Loop(Started(NewDecoder(decoder.trailer), Len(stream)), stream) IN
  /\ result = IF a.result = More /\ Costly(Len(a.out)) THEN Bad ELSE a.result
  /\ result # Bad => out = a.out /\ rest = a.rest
  /\ result = More => decoder = [a.decoder EXCEPT !.overhead = Len(stream) - Len(out)]

\* The decoder tells what the grammar of a chunked body says of the bytes so far: that
\* they hold a body, where it ends and what follows it; that more are needed; or that
\* they begin none, or cost too much before they end.  The data is that of the chunks.
ChunksExact ==
  LET b == Body IN
  /\ result = Complete <=> b.end \in DOMAIN stream
  /\ result = More <=> b.end > Len(stream) /\ ~Costly(Len(b.data))
  /\ result # Bad => out = b.data
  /\ result = Complete => rest = SubSeq(stream, b.end + 1, Len(stream))
=============================================================================
