----------------------------- MODULE ChunkProofs -----------------------------
(***************************************************************************)
(* What holds of the decoder of chunked bodies for streams of any length:  *)
(* but for the limit on what the encoding costs a body does not depend on  *)
(* the pieces it comes in, and what the loop makes of a stream is what the *)
(* grammar of a chunked body says of it.                                   *)
(***************************************************************************)
EXTENDS ChunkDecoder, Recursion, FiniteSetTheorems, SequenceTheorems
------------------------------------------------------------------------------
(***************************************************************************)
(* Chunked bodies: the bytes of a call.                                    *)
(***************************************************************************)
States == {"size", "ext", "size_lf", "data", "data_cr", "data_lf", "head", "middle"}
DecoderType ==
  [state : States, left : Int, hex : Int, trailer : BOOLEAN, read : Int, overhead : Int]
Results == {More, Bad, Complete}
CallType == [decoder : DecoderType, out : Seq(Chars), result : Results, rest : Seq(Chars)]
ByteType == [decoder : DecoderType, out : Seq(Chars), result : Results]

\* What a decoder has read and what it cost, which no byte looks at.
Costs(d, r, k) == [d EXCEPT !.read = r, !.overhead = k]

\* b is what a byte leads to from d; with other costs it leads to the same with those.
Follows(b, d, e, r, k) ==
  /\ b \in ByteType
  /\ b.decoder.trailer = d.trailer /\ b.decoder.read = d.read /\ b.decoder.overhead = d.overhead
  /\ e = [decoder |-> Costs(b.decoder, r, k), out |-> b.out, result |-> b.result]

\* The fields of a decoder that a byte may change.
Changed(d, st, l, h) == [[d EXCEPT !.left = l, !.hex = h] EXCEPT !.state = st]

\* Changing these and the costs does not depend on the order.
LEMMA DecoderFields ==
  ASSUME NEW d \in DecoderType, NEW r \in Int, NEW k \in Int, NEW st \in States,
         NEW l \in Int, NEW h \in Int
  PROVE  LET e == Costs(d, r, k)
             c == Changed(d, st, l, h)
         IN  /\ e \in DecoderType /\ c \in DecoderType
             /\ e.state = d.state /\ e.left = d.left /\ e.hex = d.hex /\ e.trailer = d.trailer
             /\ Changed(e, st, l, h) = Costs(c, r, k)
             /\ c.trailer = d.trailer /\ c.read = d.read /\ c.overhead = d.overhead
<1>1. Costs(d, r, k) \in DecoderType  BY DEF Costs, DecoderType
<1>2. Changed(d, st, l, h) \in DecoderType  BY DEF Changed, DecoderType
<1>3. Changed(Costs(d, r, k), st, l, h) = Costs(Changed(d, st, l, h), r, k)
  BY DEF Changed, Costs, DecoderType
<1> QED  BY <1>1, <1>2, <1>3 DEF Changed, Costs, DecoderType

\* What a byte makes of a decoder: three fields of it, data and a result.
Out(d, st, l, h, o, x) == [decoder |-> Changed(d, st, l, h), out |-> o, result |-> x]

\* The same with other costs.
LEMMA OutFollows ==
  ASSUME NEW d \in DecoderType, NEW r \in Int, NEW k \in Int, NEW st \in States,
         NEW l \in Int, NEW h \in Int, NEW o \in Seq(Chars), NEW x \in Results
  PROVE  Follows(Out(d, st, l, h, o, x), d, Out(Costs(d, r, k), st, l, h, o, x), r, k)
BY DecoderFields DEF Out, Follows, ByteType

\* Two decoders that a byte cannot tell apart.
Alike(d, e) ==
  e \in DecoderType /\ e.state = d.state /\ e.left = d.left /\ e.hex = d.hex /\ e.trailer = d.trailer

\* Going on, in this form.
LEMMA GoesOn ==
  ASSUME NEW d \in DecoderType, NEW e, Alike(d, e), NEW st \in States
  PROVE  /\ To(e, st) = Out(e, st, d.left, d.hex, << >>, More)
         /\ To(SizeEnds(e), st) = Out(e, st, d.left, 0, << >>, More)
<1>1. To(e, st) = Out(e, st, d.left, d.hex, << >>, More)
  BY DEF Alike, To, Out, Changed, DecoderType
<1>2. To(SizeEnds(e), st) = Out(e, st, d.left, 0, << >>, More)
  BY DEF Alike, To, SizeEnds, Out, Changed, DecoderType
<1> QED  BY <1>1, <1>2

\* Being refused, or complete.
LEMMA Ends ==
  ASSUME NEW d \in DecoderType, NEW e, Alike(d, e), NEW x \in Results
  PROVE  /\ End(e, x) = Out(e, d.state, d.left, d.hex, << >>, x)
         /\ End(SizeEnds(e), x) = Out(e, "ext", d.left, 0, << >>, x)
<1>1. End(e, x) = Out(e, d.state, d.left, d.hex, << >>, x)
  BY DEF Alike, End, Out, Changed, DecoderType
<1>2. End(SizeEnds(e), x) = Out(e, "ext", d.left, 0, << >>, x)
  BY DEF Alike, End, SizeEnds, Out, Changed, DecoderType
<1> QED  BY <1>1, <1>2

\* A digit of a size.
LEMMA CountsDigit ==
  ASSUME NEW d \in DecoderType, NEW e, Alike(d, e), NEW st \in States, NEW v \in Int
  PROVE  To(WithDigit(e, v), st) = Out(e, st, d.left * 16 + v, d.hex + 1, << >>, More)
BY DEF Alike, To, WithDigit, Out, Changed, DecoderType

\* A byte of data.
LEMMA CountsData ==
  ASSUME NEW d \in DecoderType, NEW e, Alike(d, e), NEW st \in States, NEW c
  PROVE  [To([e EXCEPT !.left = @ - 1], st) EXCEPT !.out = <<c>>]
           = Out(e, st, d.left - 1, d.hex, <<c>>, More)
<1> DEFINE y == [[e EXCEPT !.left = @ - 1] EXCEPT !.state = st]
<1>1. To([e EXCEPT !.left = @ - 1], st) = [decoder |-> y, out |-> << >>, result |-> More]
  BY DEF To
<1>2. y = Changed(e, st, d.left - 1, d.hex)  BY DEF Alike, Changed, DecoderType
<1> HIDE DEF y
<1> QED  BY <1>1, <1>2 DEF Out

\* A byte makes the same of them.
LEMMA ByteIsOut ==
  ASSUME NEW d \in DecoderType, NEW c \in Chars
  PROVE  \E st \in States, l \in Int, h \in Int, o \in Seq(Chars), x \in Results :
           \A e : Alike(d, e) => Byte(e, c) = Out(e, st, l, h, o, x)
<1> DEFINE Makes(st, l, h, o, x) == \A e : Alike(d, e) => Byte(e, c) = Out(e, st, l, h, o, x)
           Goal == \E st \in States, l \in Int, h \in Int, o \in Seq(Chars), x \in Results :
                     Makes(st, l, h, o, x)
<1>0. /\ d.state \in States /\ d.left \in Int /\ d.hex \in Int /\ d.left - 1 \in Int
      /\ d.hex + 1 \in Int /\ 0 \in Int /\ DecodeHex(c) \in Int /\ d.left * 16 + DecodeHex(c) \in Int
      /\ << >> \in Seq(Chars) /\ <<c>> \in Seq(Chars) /\ More \in Results /\ Bad \in Results /\ Complete \in Results
  BY DEF DecoderType, DecodeHex, Results
<1>1. ASSUME NEW st \in States, \A e : Alike(d, e) => Byte(e, c) = To(e, st) PROVE Goal
  <2>1. Makes(st, d.left, d.hex, << >>, More)
    <3> SUFFICES ASSUME NEW e, Alike(d, e)
                 PROVE  Byte(e, c) = Out(e, st, d.left, d.hex, << >>, More)
      OBVIOUS
    <3>1. To(e, st) = Out(e, st, d.left, d.hex, << >>, More)  BY <1>0, GoesOn
    <3> QED  BY <1>1, <3>1
  <2> QED  BY <1>0, <2>1
<1>2. ASSUME NEW x \in Results, \A e : Alike(d, e) => Byte(e, c) = End(e, x) PROVE Goal
  <2>1. Makes(d.state, d.left, d.hex, << >>, x)
    <3> SUFFICES ASSUME NEW e, Alike(d, e)
                 PROVE  Byte(e, c) = Out(e, d.state, d.left, d.hex, << >>, x)
      OBVIOUS
    <3>1. End(e, x) = Out(e, d.state, d.left, d.hex, << >>, x)  BY <1>0, Ends
    <3> QED  BY <1>2, <3>1
  <2> QED  BY <1>0, <2>1
<1>3. CASE d.state = "size"
  <2>1. CASE c \notin Digits /\ (d.hex = 0 \/ c = "x")
    <3>1. \A e : Alike(d, e) => Byte(e, c) = End(e, Bad)
      BY <1>3, <2>1 DEF Alike, Byte, Size
    <3> QED  BY <1>0, <1>2, <3>1
  <2>2. CASE c \notin Digits /\ d.hex # 0 /\ c # "x"
    <3>0. \A e : Alike(d, e) => Byte(e, c) = Extension(SizeEnds(e), c)
      BY <1>3, <2>2 DEF Alike, Byte, Size
    <3>1. CASE c = "LF"
      <4>1. \A e : Alike(d, e) => Byte(e, c) = End(SizeEnds(e), Bad)
        BY <3>0, <3>1 DEF Extension
      <4>2. Makes("ext", d.left, 0, << >>, Bad)
        <5> SUFFICES ASSUME NEW e, Alike(d, e)
                     PROVE  Byte(e, c) = Out(e, "ext", d.left, 0, << >>, Bad)
          OBVIOUS
        <5>1. End(SizeEnds(e), Bad) = Out(e, "ext", d.left, 0, << >>, Bad)  BY <1>0, Ends
        <5> QED  BY <4>1, <5>1
      <4> QED  BY <1>0, <4>2 DEF States
    <3>2. CASE c # "LF"
      <4>1. PICK st \in States : \A e : Alike(d, e) => Byte(e, c) = To(SizeEnds(e), st)
        BY <3>0, <3>2 DEF Extension, States
      <4>2. Makes(st, d.left, 0, << >>, More)
        <5> SUFFICES ASSUME NEW e, Alike(d, e)
                     PROVE  Byte(e, c) = Out(e, st, d.left, 0, << >>, More)
          OBVIOUS
        <5>1. To(SizeEnds(e), st) = Out(e, st, d.left, 0, << >>, More)  BY <1>0, GoesOn
        <5> QED  BY <4>1, <5>1
      <4> QED  BY <1>0, <4>2
    <3> QED  BY <3>1, <3>2
  <2>3. CASE c \in Digits /\ d.hex = HexMax
    <3>1. \A e : Alike(d, e) => Byte(e, c) = End(e, Bad)
      BY <1>3, <2>3 DEF Alike, Byte, Size
    <3> QED  BY <1>0, <1>2, <3>1
  <2>4. CASE c \in Digits /\ d.hex # HexMax
    <3>1. \A e : Alike(d, e) => Byte(e, c) = To(WithDigit(e, DecodeHex(c)), "size")
      BY <1>3, <2>4 DEF Alike, Byte, Size
    <3>2. "size" \in States  BY DEF States
    <3>3. Makes("size", d.left * 16 + DecodeHex(c), d.hex + 1, << >>, More)
      <4> SUFFICES ASSUME NEW e, Alike(d, e)
                   PROVE  Byte(e, c) = Out(e, "size", d.left * 16 + DecodeHex(c), d.hex + 1, << >>, More)
        OBVIOUS
      <4>1. To(WithDigit(e, DecodeHex(c)), "size")
              = Out(e, "size", d.left * 16 + DecodeHex(c), d.hex + 1, << >>, More)
        BY <1>0, <3>2, CountsDigit
      <4> QED  BY <3>1, <4>1
    <3> QED  BY <1>0, <3>2, <3>3
  <2> QED  BY <2>1, <2>2, <2>3, <2>4
<1>4. CASE d.state = "ext"
  <2>0. \A e : Alike(d, e) => Byte(e, c) = Extension(e, c)
    BY <1>4 DEF Alike, Byte
  <2>1. CASE c = "LF"
    <3>1. \A e : Alike(d, e) => Byte(e, c) = End(e, Bad)  BY <2>0, <2>1 DEF Extension
    <3> QED  BY <1>0, <1>2, <3>1
  <2>2. CASE c # "LF"
    <3>1. PICK st \in States : \A e : Alike(d, e) => Byte(e, c) = To(e, st)
      BY <2>0, <2>2 DEF Extension, States
    <3> QED  BY <1>1, <3>1
  <2> QED  BY <2>1, <2>2
<1>5. CASE d.state = "size_lf"
  <2>1. CASE c = "LF" /\ (d.left # 0 \/ d.trailer)
    <3>1. PICK st \in States : \A e : Alike(d, e) => Byte(e, c) = To(e, st)
      BY <1>5, <2>1 DEF Alike, Byte, SizeLineEnds, States
    <3> QED  BY <1>1, <3>1
  <2>2. CASE c # "LF" \/ ~(d.left # 0 \/ d.trailer)
    <3>1. PICK x \in Results : \A e : Alike(d, e) => Byte(e, c) = End(e, x)
      BY <1>0, <1>5, <2>2 DEF Alike, Byte, SizeLineEnds, Results
    <3> QED  BY <1>2, <3>1
  <2> QED  BY <2>1, <2>2
<1>6. CASE d.state = "data"
  <2> DEFINE st == IF d.left = 1 THEN "data_cr" ELSE "data"
  <2>1. st \in States  BY DEF States
  <2>2. \A e : Alike(d, e) =>
          Byte(e, c) = [To([e EXCEPT !.left = @ - 1], st) EXCEPT !.out = <<c>>]
    BY <1>6 DEF Alike, Byte
  <2> HIDE DEF st
  <2>3. Makes(st, d.left - 1, d.hex, <<c>>, More)
    <3> SUFFICES ASSUME NEW e, Alike(d, e)
                 PROVE  Byte(e, c) = Out(e, st, d.left - 1, d.hex, <<c>>, More)
      OBVIOUS
    <3>1. [To([e EXCEPT !.left = @ - 1], st) EXCEPT !.out = <<c>>]
            = Out(e, st, d.left - 1, d.hex, <<c>>, More)
      BY <1>0, <2>1, CountsData
    <3> QED  BY <2>2, <3>1
  <2> QED  BY <1>0, <2>1, <2>3
<1>7. CASE d.state \in {"data_cr", "data_lf"}
  <2>1. CASE c = IF d.state = "data_cr" THEN "CR" ELSE "LF"
    <3>1. PICK st \in States : \A e : Alike(d, e) => Byte(e, c) = To(e, st)
      BY <1>7, <2>1 DEF Alike, Byte, States
    <3> QED  BY <1>1, <3>1
  <2>2. CASE c # IF d.state = "data_cr" THEN "CR" ELSE "LF"
    <3>1. \A e : Alike(d, e) => Byte(e, c) = End(e, Bad)
      BY <1>7, <2>2 DEF Alike, Byte
    <3> QED  BY <1>0, <1>2, <3>1
  <2> QED  BY <2>1, <2>2
<1>8. CASE d.state = "head"
  <2>1. CASE c = "LF"
    <3>1. \A e : Alike(d, e) => Byte(e, c) = End(e, Complete)
      BY <1>8, <2>1 DEF Alike, Byte, TrailerHead
    <3> QED  BY <1>0, <1>2, <3>1
  <2>2. CASE c # "LF"
    <3>1. PICK st \in States : \A e : Alike(d, e) => Byte(e, c) = To(e, st)
      BY <1>8, <2>2 DEF Alike, Byte, TrailerHead, States
    <3> QED  BY <1>1, <3>1
  <2> QED  BY <2>1, <2>2
<1>9. CASE d.state = "middle"
  <2>1. PICK st \in States : \A e : Alike(d, e) => Byte(e, c) = To(e, st)
    BY <1>9 DEF Alike, Byte, States
  <2> QED  BY <1>1, <2>1
<1>10. Goal
  BY <1>0, <1>3, <1>4, <1>5, <1>6, <1>7, <1>8, <1>9 DEF States
<1> QED  BY <1>10

\* Other costs do not show in what a byte does.
LEMMA ByteFollows ==
  ASSUME NEW d \in DecoderType, NEW c \in Chars, NEW r \in Int, NEW k \in Int
  PROVE  Follows(Byte(d, c), d, Byte(Costs(d, r, k), c), r, k)
<1>1. PICK st \in States, l \in Int, h \in Int, o \in Seq(Chars), x \in Results :
        \A e : Alike(d, e) => Byte(e, c) = Out(e, st, l, h, o, x)
  BY ByteIsOut
<1>2. Alike(d, d)  BY DEF Alike
<1>3. Alike(d, Costs(d, r, k))  BY DEF Alike, Costs, DecoderType
<1>4. Byte(d, c) = Out(d, st, l, h, o, x)  BY <1>1, <1>2
<1>5. Byte(Costs(d, r, k), c) = Out(Costs(d, r, k), st, l, h, o, x)  BY <1>1, <1>3
<1> QED  BY <1>4, <1>5, OutFollows
------------------------------------------------------------------------------
(***************************************************************************)
(* Chunked bodies: the loop.                                               *)
(***************************************************************************)
StartOf(d) == [decoder |-> d, out |-> << >>, result |-> More, rest |-> << >>]

\* The call a, with other costs and with data in front.
Shifted(a, w, r, k) ==
  [decoder |-> Costs(a.decoder, r, k), out |-> w \o a.out, result |-> a.result, rest |-> a.rest]

\* What a byte keeps of a call.
KeptBy(a, b) ==
  /\ b.decoder.trailer = a.decoder.trailer /\ b.decoder.read = a.decoder.read
  /\ b.decoder.overhead = a.decoder.overhead

\* A round of the loop, and the same round of the shifted call.
LEMMA ConsumeShifts ==
  ASSUME NEW a \in CallType, NEW c \in Chars, NEW w \in Seq(Chars), NEW r \in Int, NEW k \in Int
  PROVE  /\ Consume(a, c) \in CallType /\ KeptBy(a, Consume(a, c))
         /\ Consume(Shifted(a, w, r, k), c) = Shifted(Consume(a, c), w, r, k)
         /\ Consume(a, c).result = More => a.result = More /\ Consume(a, c).rest = << >>
<1> DEFINE s == Shifted(a, w, r, k)
<1>0. /\ a.decoder \in DecoderType /\ a.out \in Seq(Chars) /\ a.result \in Results
      /\ a.rest \in Seq(Chars)
  BY DEF CallType
<1>1. s.decoder = Costs(a.decoder, r, k) /\ s.out = w \o a.out /\ s.result = a.result
      /\ s.rest = a.rest
  BY DEF Shifted
<1>2. CASE a.result # More
  <2>1. Consume(a, c) = [a EXCEPT !.rest = Append(@, c)]  BY <1>2 DEF Consume
  <2>2. Consume(s, c) = [s EXCEPT !.rest = Append(@, c)]  BY <1>1, <1>2 DEF Consume
  <2>3. Append(a.rest, c) \in Seq(Chars)  BY <1>0
  <2> DEFINE q == Append(a.rest, c)
  <2>4. Consume(a, c) = [a EXCEPT !.rest = q] /\ Consume(s, c) = [s EXCEPT !.rest = q]
    BY <1>1, <2>1, <2>2
  <2> HIDE DEF q
  <2>5. Consume(a, c) \in CallType /\ KeptBy(a, Consume(a, c))
    BY <2>3, <2>4 DEF CallType, KeptBy, q
  <2>6. Consume(s, c) = Shifted(Consume(a, c), w, r, k)
    <3> DEFINE b == Consume(a, c)
    <3>1. b.decoder = a.decoder /\ b.out = a.out /\ b.result = a.result /\ b.rest = q
      BY <2>4 DEF CallType
    <3>2. [s EXCEPT !.rest = q]
            = [decoder |-> s.decoder, out |-> s.out, result |-> s.result, rest |-> q]
      <4>1. s = [decoder |-> s.decoder, out |-> s.out, result |-> s.result, rest |-> s.rest]
        BY <1>1 DEF Shifted
      <4> HIDE DEF s
      <4> QED  BY <4>1
    <3> HIDE DEF b, s
    <3>3. Consume(s, c) = Shifted(b, w, r, k)
      BY <1>1, <2>4, <3>1, <3>2 DEF Shifted
    <3> QED  BY <3>3 DEF b, s
  <2>7. Consume(a, c).result # More  BY <1>2, <2>4 DEF CallType
  <2> QED  BY <2>5, <2>6, <2>7
<1>3. CASE a.result = More
  <2> DEFINE b == Byte(a.decoder, c)
             e == Byte(s.decoder, c)
  <2>1. Follows(b, a.decoder, e, r, k)  BY <1>0, <1>1, ByteFollows
  <2>2. Consume(a, c) = [decoder |-> b.decoder, out |-> a.out \o b.out, result |-> b.result,
                         rest |-> << >>]
    BY <1>3 DEF Consume
  <2>3. Consume(s, c) = [decoder |-> e.decoder, out |-> s.out \o e.out, result |-> e.result,
                         rest |-> << >>]
    BY <1>1, <1>3 DEF Consume
  <2> HIDE DEF b, e, s
  <2>4. /\ b.decoder \in DecoderType /\ b.out \in Seq(Chars) /\ b.result \in Results
        /\ e.decoder = Costs(b.decoder, r, k) /\ e.out = b.out /\ e.result = b.result
        /\ b.decoder.trailer = a.decoder.trailer /\ b.decoder.read = a.decoder.read
        /\ b.decoder.overhead = a.decoder.overhead
    BY <2>1 DEF Follows, ByteType
  <2>5. a.out \o b.out \in Seq(Chars) /\ << >> \in Seq(Chars)  BY <1>0, <2>4
  <2>6. (w \o a.out) \o b.out = w \o (a.out \o b.out)
    <3>1. w \in Seq(Chars) /\ a.out \in Seq(Chars) /\ b.out \in Seq(Chars)  BY <1>0, <2>4
    <3> DEFINE x == a.out
               y == b.out
    <3>2. w \in Seq(Chars) /\ x \in Seq(Chars) /\ y \in Seq(Chars)  BY <3>1
    <3> HIDE DEF x, y
    <3>3. (w \o x) \o y = w \o (x \o y)  BY <3>2, ConcatAssociative
    <3> QED  BY <3>3 DEF x, y
  <2>7. Consume(a, c) \in CallType /\ KeptBy(a, Consume(a, c)) /\ Consume(a, c).rest = << >>
    BY <2>2, <2>4, <2>5 DEF CallType, KeptBy
  <2>8. Consume(s, c) = Shifted(Consume(a, c), w, r, k)
    BY <1>1, <2>2, <2>3, <2>4, <2>6 DEF Shifted
  <2> QED  BY <1>3, <2>7, <2>8 DEF s
<1> QED  BY <1>2, <1>3

\* The rounds of the loop over buf from d on.
Rounds(f, d, buf) ==
  /\ f \in [0 .. Len(buf) -> CallType]
  /\ f[0] = StartOf(d)
  /\ \A k \in 1 .. Len(buf) : f[k] = Consume(f[k - 1], buf[k])

\* The loop, as what a recursive function that exists computes.
LEMMA LoopUnfolds ==
  ASSUME NEW d \in DecoderType, NEW buf \in Seq(Chars)
  PROVE  \E f : Rounds(f, d, buf) /\ Loop(d, buf) = f[Len(buf)]
<1>0. /\ Len(buf) \in Nat /\ \A k \in 1 .. Len(buf) : buf[k] \in Chars
      /\ StartOf(d) \in CallType
  BY DEF StartOf, CallType, Results
<1> DEFINE A == 0 .. Len(buf)
           Next1(k, f) == IF k = 0 THEN StartOf(d) ELSE Consume(f[k - 1], buf[k])
           G == [q \in A \X [A -> CallType] |-> Next1(q[1], q[2])]
           rank == [k \in A |-> k]
<1>1. rank \in [A -> Nat] /\ CallType # {}  BY <1>0
<1>2. G \in [A \X [A -> CallType] -> CallType]
  <2> SUFFICES ASSUME NEW k \in A, NEW f \in [A -> CallType] PROVE Next1(k, f) \in CallType
    OBVIOUS
  <2>1. k # 0 => f[k - 1] \in CallType /\ buf[k] \in Chars  BY <1>0
  <2>2. k # 0 => Consume(f[k - 1], buf[k]) \in CallType
    <3>1. << >> \in Seq(Chars) /\ 0 \in Int  OBVIOUS
    <3> QED  BY <2>1, <3>1, ConsumeShifts
  <2> QED  BY <1>0, <2>2
<1>3. LooksBelow(G, A, CallType, rank)
  <2> SUFFICES ASSUME NEW k \in A, NEW f \in [A -> CallType], NEW g \in [A -> CallType],
                      AgreeBelow(f, g, A, rank, rank[k])
               PROVE  Next1(k, f) = Next1(k, g)
    BY DEF LooksBelow
  <2>1. k # 0 => k - 1 \in A /\ rank[k - 1] < rank[k]  BY <1>0
  <2>2. k # 0 => f[k - 1] = g[k - 1]  BY <2>1 DEF AgreeBelow
  <2> QED  BY <2>2
<1>4. Recursive(G, A, CallType, rank)  BY <1>1, <1>2, <1>3 DEF Recursive
<1> HIDE DEF rank, G, A
<1>5. PICK f \in [A -> CallType] : \A k \in A : f[k] = G[<<k, f>>]
  BY <1>4, RecursiveFunctionExists
<1>6. f = [k \in A |-> Next1(k, f)]  BY <1>5 DEF G
<1> DEFINE Eq(after) == after = [k \in A |-> Next1(k, after)]
           c == CHOOSE after : Eq(after)
<1>7. Eq(c)  BY <1>6
<1>8. Loop(d, buf) = c[Len(buf)]  BY DEF Loop, StartOf, A
<1> HIDE DEF c
<1>9. \A k \in A : c[k] = Next1(k, c)  BY <1>7
<1>10. 0 \in A /\ \A k \in 1 .. Len(buf) : k \in A /\ k # 0  BY <1>0 DEF A
<1>11. c[0] = StartOf(d) /\ \A k \in 1 .. Len(buf) : c[k] = Consume(c[k - 1], buf[k])
  BY <1>9, <1>10
<1> DEFINE S == {k \in Nat : k <= Len(buf) => c[k] \in CallType}
<1>12. 0 \in S  BY <1>0, <1>11
<1>13. ASSUME NEW k \in Nat, k \in S PROVE k + 1 \in S
  <2> SUFFICES ASSUME k + 1 <= Len(buf) PROVE c[k + 1] \in CallType  OBVIOUS
  <2>1. k + 1 \in 1 .. Len(buf) /\ k + 1 - 1 = k /\ k <= Len(buf)  BY <1>0
  <2>2. c[k] \in CallType /\ buf[k + 1] \in Chars  BY <1>0, <1>13, <2>1
  <2>3. << >> \in Seq(Chars) /\ 0 \in Int  OBVIOUS
  <2>4. Consume(c[k], buf[k + 1]) \in CallType  BY <2>2, <2>3, ConsumeShifts
  <2> QED  BY <1>11, <2>1, <2>4
<1> HIDE DEF S
<1>14. \A k \in Nat : k \in S  BY <1>12, <1>13, Induction
<1>15. \A k \in 0 .. Len(buf) : c[k] \in CallType  BY <1>0, <1>14 DEF S
<1>16. c \in [0 .. Len(buf) -> CallType]  BY <1>7, <1>15 DEF A
<1> QED  BY <1>8, <1>11, <1>16 DEF Rounds

\* What the loop keeps of its decoder; going on it has no rest.
LEMMA LoopKeeps ==
  ASSUME NEW d \in DecoderType, NEW buf \in Seq(Chars)
  PROVE  LET a == Loop(d, buf) IN
         a \in CallType /\ KeptBy(StartOf(d), a) /\ (a.result = More => a.rest = << >>)
<1>0. /\ Len(buf) \in Nat /\ \A k \in 1 .. Len(buf) : buf[k] \in Chars
  OBVIOUS
<1>1. PICK f : Rounds(f, d, buf) /\ Loop(d, buf) = f[Len(buf)]  BY LoopUnfolds
<1> DEFINE Good(a) == KeptBy(StartOf(d), a) /\ (a.result = More => a.rest = << >>)
           S == {k \in Nat : k <= Len(buf) => Good(f[k])}
<1>2. 0 \in S  BY <1>1 DEF Rounds, StartOf, KeptBy
<1>3. ASSUME NEW k \in Nat, k \in S PROVE k + 1 \in S
  <2> SUFFICES ASSUME k + 1 <= Len(buf) PROVE Good(f[k + 1])  OBVIOUS
  <2>1. k + 1 \in 1 .. Len(buf) /\ k + 1 - 1 = k /\ k <= Len(buf) /\ k \in 0 .. Len(buf)
    BY <1>0
  <2>2. f[k] \in CallType /\ buf[k + 1] \in Chars /\ f[k + 1] = Consume(f[k], buf[k + 1])
    BY <1>0, <1>1, <2>1 DEF Rounds
  <2>3. << >> \in Seq(Chars) /\ 0 \in Int  OBVIOUS
  <2>4. /\ KeptBy(f[k], Consume(f[k], buf[k + 1]))
        /\ Consume(f[k], buf[k + 1]).result = More => Consume(f[k], buf[k + 1]).rest = << >>
    BY <2>2, <2>3, ConsumeShifts
  <2>5. KeptBy(StartOf(d), f[k])  BY <1>3, <2>1
  <2> QED  BY <2>2, <2>4, <2>5 DEF KeptBy
<1> HIDE DEF S
<1>4. \A k \in Nat : k \in S  BY <1>2, <1>3, Induction
<1>5. Good(f[Len(buf)])  BY <1>0, <1>4 DEF S
<1>6. f[Len(buf)] \in CallType  BY <1>0, <1>1 DEF Rounds
<1> QED  BY <1>1, <1>5, <1>6

\* A loop over two pieces is the loop over the first and then over the second, whatever
\* costs the decoder has in between.
LEMMA LoopSplit ==
  ASSUME NEW d \in DecoderType, NEW s \in Seq(Chars), NEW buf \in Seq(Chars),
         NEW r \in Int, NEW k \in Int, NEW q \in Int, NEW p \in Int, Loop(d, s).result = More
  PROVE  Loop(Costs(d, r, k), s \o buf)
           = Shifted(Loop(Costs(Loop(d, s).decoder, q, p), buf), Loop(d, s).out, r, k)
<1> DEFINE n == Len(s)
           m == Len(buf)
           a == Loop(d, s)
           D == Costs(d, r, k)
           e == Costs(a.decoder, q, p)
           both == s \o buf
<1>0. /\ n \in Nat /\ m \in Nat /\ << >> \in Seq(Chars)
      /\ \A j \in 1 .. n : s[j] \in Chars
      /\ \A j \in 1 .. m : buf[j] \in Chars
  OBVIOUS
<1>1. a \in CallType /\ a.rest = << >> /\ a.result = More /\ a.decoder \in DecoderType
      /\ a.out \in Seq(Chars)
  BY LoopKeeps DEF CallType
<1>2. D \in DecoderType  BY DEF Costs, DecoderType
<1>3. e \in DecoderType
  <2> HIDE DEF a
  <2> QED  BY <1>1 DEF Costs, DecoderType
<1>4. /\ both \in Seq(Chars) /\ Len(both) = n + m
      /\ \A j \in 1 .. n : both[j] = s[j]
      /\ \A j \in 1 .. m : both[n + j] = buf[j]
  <2>1. /\ both \in Seq(Chars) /\ Len(both) = n + m
        /\ \A j \in 1 .. n + m : both[j] = IF j <= n THEN s[j] ELSE buf[j - n]
    BY ConcatProperties
  <2> HIDE DEF both, n, m
  <2>2. \A j \in 1 .. n : j \in 1 .. n + m /\ j <= n  BY <1>0
  <2>3. \A j \in 1 .. m : n + j \in 1 .. n + m /\ ~(n + j <= n) /\ n + j - n = j  BY <1>0
  <2>4. \A j \in 1 .. n : both[j] = s[j]  BY <2>1, <2>2
  <2>5. ASSUME NEW j \in 1 .. m PROVE both[n + j] = buf[j]
    <3> DEFINE i == n + j
    <3>1. i \in 1 .. n + m /\ ~(i <= n) /\ i - n = j  BY <1>0
    <3> HIDE DEF i
    <3>2. both[i] = buf[i - n]  BY <2>1, <3>1
    <3> QED  BY <3>1, <3>2 DEF i
  <2> QED  BY <2>1, <2>4, <2>5
<1>5. PICK f : Rounds(f, d, s) /\ a = f[n]  BY LoopUnfolds
<1>6. PICK g : Rounds(g, e, buf) /\ Loop(e, buf) = g[m]  BY <1>3, LoopUnfolds
<1>7. PICK h : Rounds(h, D, both) /\ Loop(D, both) = h[n + m]  BY <1>2, <1>4, LoopUnfolds
<1> HIDE DEF n, m, a, D, e, both
<1> DEFINE S == {j \in Nat : j <= n => h[j] = Shifted(f[j], << >>, r, k)}
           T == {j \in Nat : j <= m => h[n + j] = Shifted(g[j], a.out, r, k)}
<1>8. 0 \in S
  <2>1. h[0] = StartOf(D) /\ f[0] = StartOf(d)  BY <1>5, <1>7 DEF Rounds
  <2>2. << >> \o << >> = << >>  BY <1>0, ConcatEmptySeq
  <2>3. StartOf(D) = Shifted(StartOf(d), << >>, r, k)  BY <2>2 DEF StartOf, Shifted, D
  <2> QED  BY <2>1, <2>3
<1>9. ASSUME NEW j \in Nat, j \in S PROVE j + 1 \in S
  <2> SUFFICES ASSUME j + 1 <= n PROVE h[j + 1] = Shifted(f[j + 1], << >>, r, k)  OBVIOUS
  <2>1. /\ j + 1 \in 1 .. n /\ j + 1 - 1 = j /\ j <= n /\ j \in 0 .. n
        /\ j + 1 \in 1 .. n + m
    BY <1>0
  <2>2. f[j + 1] = Consume(f[j], s[j + 1]) /\ f[j] \in CallType /\ s[j + 1] \in Chars
    <3>1. f \in [0 .. n -> CallType] /\ \A i \in 1 .. n : f[i] = Consume(f[i - 1], s[i])
      BY <1>5 DEF Rounds, n
    <3>2. \A i \in 1 .. n : s[i] \in Chars  BY DEF n
    <3>3. f[j + 1] = Consume(f[j + 1 - 1], s[j + 1])  BY <2>1, <3>1
    <3> QED  BY <2>1, <3>1, <3>2, <3>3
  <2>3. h[j + 1] = Consume(h[j], s[j + 1])  BY <1>4, <1>7, <2>1 DEF Rounds
  <2>4. h[j] = Shifted(f[j], << >>, r, k)  BY <1>9, <2>1
  <2>5. Consume(Shifted(f[j], << >>, r, k), s[j + 1])
          = Shifted(Consume(f[j], s[j + 1]), << >>, r, k)
    <3> DEFINE x == f[j]
               c == s[j + 1]
               w == << >>
    <3>1. x \in CallType /\ c \in Chars /\ w \in Seq(Chars)  BY <1>0, <2>2
    <3> HIDE DEF x, c, w
    <3>2. Consume(Shifted(x, w, r, k), c) = Shifted(Consume(x, c), w, r, k)
      BY <3>1, ConsumeShifts
    <3> QED  BY <3>2 DEF x, c, w
  <2> QED  BY <2>2, <2>3, <2>4, <2>5
<1> HIDE DEF S
<1>10. \A j \in Nat : j \in S  BY <1>8, <1>9, Induction
<1>11. h[n] = Shifted(a, << >>, r, k)  BY <1>0, <1>5, <1>10 DEF S
<1>12. 0 \in T
  <2>1. g[0] = StartOf(e) /\ n + 0 = n  BY <1>0, <1>6 DEF Rounds
  <2>2. << >> \o a.out = a.out /\ a.out \o << >> = a.out  BY <1>1, ConcatEmptySeq
  <2>3. Costs(e, r, k) = Costs(a.decoder, r, k)  BY <1>1 DEF Costs, e, DecoderType
  <2>4. Shifted(StartOf(e), a.out, r, k) = Shifted(a, << >>, r, k)
    BY <1>1, <2>2, <2>3 DEF StartOf, Shifted
  <2> QED  BY <1>11, <2>1, <2>4
<1>13. ASSUME NEW j \in Nat, j \in T PROVE j + 1 \in T
  <2> SUFFICES ASSUME j + 1 <= m PROVE h[n + (j + 1)] = Shifted(g[j + 1], a.out, r, k)  OBVIOUS
  <2>1. /\ j + 1 \in 1 .. m /\ j + 1 - 1 = j /\ j <= m /\ j \in 0 .. m
        /\ n + (j + 1) \in 1 .. n + m /\ n + (j + 1) - 1 = n + j
    BY <1>0
  <2>2. g[j + 1] = Consume(g[j], buf[j + 1]) /\ g[j] \in CallType /\ buf[j + 1] \in Chars
    BY <1>0, <1>6, <2>1 DEF Rounds, m
  <2>3. h[n + (j + 1)] = Consume(h[n + j], both[n + (j + 1)])
    <3> DEFINE i == n + (j + 1)
    <3>1. i \in 1 .. Len(both) /\ i - 1 = n + j  BY <1>0, <1>4, <2>1
    <3> HIDE DEF i
    <3>2. h[i] = Consume(h[i - 1], both[i])  BY <1>7, <3>1 DEF Rounds
    <3> QED  BY <3>1, <3>2 DEF i
  <2>4. both[n + (j + 1)] = buf[j + 1]  BY <1>4, <2>1
  <2>5. h[n + j] = Shifted(g[j], a.out, r, k)  BY <1>13, <2>1
  <2>6. Consume(Shifted(g[j], a.out, r, k), buf[j + 1])
          = Shifted(Consume(g[j], buf[j + 1]), a.out, r, k)
    BY <1>1, <2>2, ConsumeShifts
  <2> QED  BY <2>2, <2>3, <2>4, <2>5, <2>6
<1> HIDE DEF T
<1>14. \A j \in Nat : j \in T  BY <1>12, <1>13, Induction
<1>15. h[n + m] = Shifted(g[m], a.out, r, k)  BY <1>0, <1>14 DEF T
<1> QED  BY <1>6, <1>7, <1>15 DEF a, D, e, both, n, m

------------------------------------------------------------------------------
(***************************************************************************)
(* Chunked bodies: the calls.                                              *)
(***************************************************************************)
\* What the calls so far have made is what one call makes of all their bytes.
LikeOneCall ==
  LET a == Decode(NewDecoder(decoder.trailer), stream) IN
  /\ result = a.result
  /\ result # Bad => out = a.out /\ rest = a.rest
  /\ result = More => decoder = a.decoder

ChunkInv ==
  /\ decoder \in DecoderType /\ out \in Seq(Chars) /\ stream \in Seq(Chars)
  /\ LikeOneCall
  /\ result = More => rest = << >>

\* A call and the end of its loop.
LEMMA DecodeIs ==
  ASSUME NEW d \in DecoderType, NEW buf \in Seq(Chars)
  PROVE  LET a == Loop(Started(d, Len(buf)), buf)
             e == [a.decoder EXCEPT !.overhead = @ + Len(buf) - Len(a.out)]
             b == Decode(d, buf)
         IN  /\ Started(d, Len(buf)) \in DecoderType
             /\ a \in CallType /\ KeptBy(StartOf(Started(d, Len(buf))), a)
             /\ a.result = More => a.rest = << >>
             /\ e \in DecoderType
             /\ a.result # More => b = a
             /\ a.result = More /\ TooMuch(e) => b.result = Bad
             /\ a.result = More /\ ~TooMuch(e) => b = [a EXCEPT !.decoder = e]
             /\ b.decoder \in DecoderType /\ b.out \in Seq(Chars)
             /\ b.decoder.trailer = d.trailer
<1> DEFINE D == Started(d, Len(buf))
           a == Loop(D, buf)
           e == [a.decoder EXCEPT !.overhead = @ + Len(buf) - Len(a.out)]
           b == Decode(d, buf)
<1>1. D \in DecoderType /\ D.trailer = d.trailer  BY DEF Started, DecoderType
<1> HIDE DEF D
<1>2. a \in CallType /\ KeptBy(StartOf(D), a) /\ (a.result = More => a.rest = << >>)
  BY <1>1, LoopKeeps
<1>3. b = IF a.result # More THEN a
          ELSE [a EXCEPT !.decoder = e, !.result = IF TooMuch(e) THEN Bad ELSE More]
  BY DEF Decode, D
<1> HIDE DEF a, b
<1>4. a.decoder \in DecoderType /\ a.out \in Seq(Chars) /\ a.decoder.trailer = d.trailer
  BY <1>1, <1>2 DEF CallType, KeptBy, StartOf
<1>5. e \in DecoderType /\ e.trailer = d.trailer
  <2> DEFINE n == Len(a.out)
             o == a.decoder.overhead + Len(buf) - n
  <2>1. n \in Nat /\ Len(buf) \in Nat  BY <1>4
  <2>2. a.decoder.overhead \in Int  BY <1>4 DEF DecoderType
  <2>3. o \in Int  BY <2>1, <2>2
  <2>4. e = [a.decoder EXCEPT !.overhead = o]  OBVIOUS
  <2> HIDE DEF o, e
  <2> QED  BY <1>4, <2>3, <2>4 DEF DecoderType
<1> HIDE DEF e
<1>6. a.result = More /\ TooMuch(e) => b.result = Bad  BY <1>2, <1>3 DEF CallType
<1>7. a.result = More /\ ~TooMuch(e) => b = [a EXCEPT !.decoder = e]
  BY <1>2, <1>3 DEF CallType
<1>8. b.decoder \in DecoderType /\ b.out \in Seq(Chars) /\ b.decoder.trailer = d.trailer
  BY <1>2, <1>3, <1>4, <1>5 DEF CallType
<1> QED  BY <1>1, <1>2, <1>3, <1>5, <1>6, <1>7, <1>8 DEF D, a, b, e

\* The call so far, as one call for all its bytes.
LEMMA AtOnce ==
  ASSUME ChunkInv, result = More
  PROVE  LET d == Started(NewDecoder(decoder.trailer), Len(stream))
             a == Loop(d, stream)
         IN  /\ NewDecoder(decoder.trailer) \in DecoderType /\ d \in DecoderType
             /\ a \in CallType /\ a.result = More /\ a.out = out
             /\ decoder = [a.decoder EXCEPT !.overhead = Len(stream) - Len(out)]
             /\ a.decoder.read = Len(stream) /\ a.decoder.overhead = 0
<1> DEFINE D == NewDecoder(decoder.trailer)
           d == Started(D, Len(stream))
           a == Loop(d, stream)
           e == [a.decoder EXCEPT !.overhead = @ + Len(stream) - Len(a.out)]
           w == Decode(D, stream)
<1>0. /\ decoder \in DecoderType /\ out \in Seq(Chars) /\ stream \in Seq(Chars)
      /\ Len(stream) \in Nat
  BY DEF ChunkInv
<1>1. D \in DecoderType /\ D.read = 0 /\ D.overhead = 0
  BY <1>0 DEF NewDecoder, DecoderType, States
<1>2. w.result = More /\ w.out = out /\ w.decoder = decoder
  <2>1. result = w.result /\ (result # Bad => out = w.out) /\ (result = More => decoder = w.decoder)
    BY DEF ChunkInv, LikeOneCall
  <2>2. More # Bad  BY DEF More, Bad
  <2> QED  BY <2>1, <2>2
<1>3. d.read = Len(stream) /\ d.overhead = 0  BY <1>0, <1>1 DEF Started, DecoderType
<1>4. /\ d \in DecoderType /\ a \in CallType /\ KeptBy(StartOf(d), a)
      /\ a.result # More => w = a
      /\ a.result = More /\ TooMuch(e) => w.result = Bad
      /\ a.result = More /\ ~TooMuch(e) => w = [a EXCEPT !.decoder = e]
  BY <1>0, <1>1, DecodeIs
<1> HIDE DEF w, e, a, d, D
<1>5. a.result = More /\ w = [a EXCEPT !.decoder = e]
  BY <1>2, <1>4 DEF More, Bad
<1>6. a.out = out /\ decoder = e  BY <1>2, <1>4, <1>5 DEF CallType
<1>7. a.decoder.read = Len(stream) /\ a.decoder.overhead = 0
  BY <1>3, <1>4 DEF KeptBy, StartOf
<1>8. e = [a.decoder EXCEPT !.overhead = Len(stream) - Len(out)]
  <2>1. e = [a.decoder EXCEPT !.overhead = a.decoder.overhead + Len(stream) - Len(a.out)]  BY DEF e
  <2>2. Len(out) \in Nat  BY <1>0
  <2>3. a.decoder.overhead + Len(stream) - Len(a.out) = Len(stream) - Len(out)
    BY <1>0, <1>6, <1>7, <2>2
  <2> QED  BY <2>1, <2>3
<1> QED  BY <1>1, <1>4, <1>5, <1>6, <1>7, <1>8 DEF D, d, a

\* A further call makes of the bytes so far and its own what one call makes of both.
LEMMA ChunkStep == ASSUME ChunkInv, ChunkNext PROVE ChunkInv'
<1> DEFINE N == Len(stream)
           D == NewDecoder(decoder.trailer)
           d == Started(D, N)
           a == Loop(d, stream)
<1>0. /\ decoder \in DecoderType /\ out \in Seq(Chars) /\ stream \in Seq(Chars)
      /\ N \in Nat /\ Len(out) \in Nat /\ result = More
  BY DEF ChunkInv, ChunkNext
<1>1. PICK m \in 1 .. MaxPiece : \E buf \in [1 .. m -> Chars] :
        /\ decoder' = Decode(decoder, buf).decoder /\ out' = out \o Decode(decoder, buf).out
        /\ result' = Decode(decoder, buf).result /\ rest' = Decode(decoder, buf).rest
        /\ stream' = stream \o buf
  BY DEF ChunkNext
<1>buf. PICK buf \in [1 .. m -> Chars] :
        /\ decoder' = Decode(decoder, buf).decoder /\ out' = out \o Decode(decoder, buf).out
        /\ result' = Decode(decoder, buf).result /\ rest' = Decode(decoder, buf).rest
        /\ stream' = stream \o buf
  BY <1>1
<1>2. m \in Nat /\ buf \in Seq(Chars) /\ Len(buf) = m
  <2>1. MaxPiece \in Nat  BY ChunkAssumption
  <2> QED  BY <2>1
<1>3. /\ D \in DecoderType /\ d \in DecoderType /\ a \in CallType /\ a.result = More /\ a.out = out
      /\ decoder = [a.decoder EXCEPT !.overhead = N - Len(out)]
      /\ a.decoder.read = N /\ a.decoder.overhead = 0
  BY <1>0, AtOnce
<1> DEFINE both == stream \o buf
           p == N - Len(out)
           b == Loop(Started(decoder, m), buf)
           eb == [b.decoder EXCEPT !.overhead = @ + m - Len(b.out)]
           x == Decode(decoder, buf)
           w == Loop(Started(D, N + m), both)
           ew == [w.decoder EXCEPT !.overhead = @ + (N + m) - Len(w.out)]
           y == Decode(D, both)
<1>4. both \in Seq(Chars) /\ Len(both) = N + m
  BY <1>0, <1>2, ConcatProperties
<1>5. /\ b \in CallType /\ KeptBy(StartOf(Started(decoder, m)), b)
      /\ b.result = More => b.rest = << >>
      /\ b.result # More => x = b
      /\ b.result = More /\ TooMuch(eb) => x.result = Bad
      /\ b.result = More /\ ~TooMuch(eb) => x = [b EXCEPT !.decoder = eb]
      /\ x.decoder \in DecoderType /\ x.out \in Seq(Chars) /\ x.decoder.trailer = decoder.trailer
  BY <1>0, <1>2, DecodeIs
<1>6. /\ w.result # More => y = w
      /\ w.result = More /\ TooMuch(ew) => y.result = Bad
      /\ w.result = More /\ ~TooMuch(ew) => y = [w EXCEPT !.decoder = ew]
  <2> HIDE DEF D, both, N
  <2>1. LET v == Loop(Started(D, Len(both)), both)
            ev == [v.decoder EXCEPT !.overhead = @ + Len(both) - Len(v.out)]
        IN  /\ v.result # More => y = v
            /\ v.result = More /\ TooMuch(ev) => y.result = Bad
            /\ v.result = More /\ ~TooMuch(ev) => y = [v EXCEPT !.decoder = ev]
    BY <1>3, <1>4, DecodeIs
  <2> HIDE DEF y
  <2> QED  BY <1>4, <2>1
<1>7. Started(decoder, m) = Costs(a.decoder, N + m, p)
  <2>1. a.decoder \in DecoderType  BY <1>3 DEF CallType
  <2> HIDE DEF N, p, a
  <2> QED  BY <1>3, <2>1 DEF Started, Costs, DecoderType, p
<1>8. Started(D, N + m) = Costs(d, N + m, 0)
  <2>1. D.read = 0 /\ D.overhead = 0  BY DEF NewDecoder
  <2> DEFINE z == N + m
  <2>2. z \in Int /\ 0 + z = z /\ 0 + N = N  BY <1>0, <1>2
  <2> HIDE DEF N, D, z
  <2>3. Started(D, z) = [D EXCEPT !.read = z] /\ d = [D EXCEPT !.read = N]
    BY <2>1, <2>2 DEF Started
  <2> HIDE DEF d
  <2>4. Started(D, z) = Costs(d, z, 0)  BY <1>3, <2>1, <2>3 DEF Costs, DecoderType
  <2> QED  BY <2>4 DEF z
<1>9. w = Shifted(b, out, N + m, 0)
  <2>1. N + m \in Int /\ 0 \in Int /\ p \in Int  BY <1>0, <1>2
  <2>2. Loop(Costs(d, N + m, 0), both) = Shifted(Loop(Costs(a.decoder, N + m, p), buf), a.out, N + m, 0)
    <3> DEFINE r == N + m
    <3>1. r \in Int  BY <2>1
    <3> HIDE DEF r, p, N, d
    <3>2. Loop(Costs(d, r, 0), both) = Shifted(Loop(Costs(a.decoder, r, p), buf), a.out, r, 0)
      BY <1>0, <1>2, <1>3, <2>1, <3>1, LoopSplit
    <3> QED  BY <3>2 DEF r
  <2> QED  BY <1>3, <1>7, <1>8, <2>2
<1>10. b.decoder.read = N + m /\ b.decoder.overhead = p
  <2>1. Started(decoder, m).read = N + m /\ Started(decoder, m).overhead = p
    BY <1>3, <1>7 DEF Costs, CallType, DecoderType
  <2> HIDE DEF b, p
  <2> QED  BY <1>5, <2>1 DEF KeptBy, StartOf
<1> HIDE DEF N, D, d, a, both, p, b, eb, x, w, ew, y
<1>11. /\ w.decoder = Costs(b.decoder, N + m, 0) /\ w.out = out \o b.out
       /\ w.result = b.result /\ w.rest = b.rest
  BY <1>9 DEF Shifted
<1>12. /\ b.decoder \in DecoderType /\ b.out \in Seq(Chars) /\ Len(b.out) \in Nat
       /\ w.out \in Seq(Chars) /\ Len(w.out) = Len(out) + Len(b.out)
  <2>1. b.decoder \in DecoderType /\ b.out \in Seq(Chars)  BY <1>5 DEF CallType
  <2> DEFINE o == b.out
  <2>2. o \in Seq(Chars)  BY <2>1
  <2> HIDE DEF o
  <2>3. out \o o \in Seq(Chars) /\ Len(out \o o) = Len(out) + Len(o) /\ Len(o) \in Nat
    BY <1>0, <2>2, ConcatProperties
  <2> QED  BY <1>11, <2>1, <2>3 DEF o
<1>13. ew = eb
  <2>1. 0 + (N + m) - Len(w.out) = p + m - Len(b.out)  BY <1>0, <1>2, <1>12 DEF p
  <2>2. eb = [b.decoder EXCEPT !.overhead = p + m - Len(b.out)]  BY <1>10, <1>12 DEF eb
  <2>3. Costs(b.decoder, N + m, 0) = [b.decoder EXCEPT !.overhead = 0]
    BY <1>10, <1>12 DEF Costs, DecoderType
  <2>4. ew = [w.decoder EXCEPT !.overhead = 0 + (N + m) - Len(w.out)]
    <3>1. w.decoder.overhead = 0  BY <1>11, <1>12, <2>3 DEF DecoderType
    <3> QED  BY <3>1 DEF ew
  <2> DEFINE z == p + m - Len(b.out)
  <2>5. ew = [[b.decoder EXCEPT !.overhead = 0] EXCEPT !.overhead = z]
    BY <1>11, <2>1, <2>3, <2>4
  <2>6. eb = [b.decoder EXCEPT !.overhead = z]  BY <2>2
  <2> HIDE DEF z
  <2> QED  BY <1>12, <2>5, <2>6 DEF DecoderType
<1>14. /\ x.result = y.result
       /\ x.result # Bad => out \o x.out = y.out /\ x.rest = y.rest
       /\ x.result = More => x.decoder = y.decoder /\ x.rest = << >>
  <2>1. CASE b.result # More
    BY <1>5, <1>6, <1>11, <2>1
  <2>2. CASE b.result = More /\ TooMuch(eb)
    <3>1. x.result = Bad /\ y.result = Bad  BY <1>5, <1>6, <1>11, <1>13, <2>2
    <3> QED  BY <3>1 DEF More, Bad
  <2>3. CASE b.result = More /\ ~TooMuch(eb)
    <3>1. x = [b EXCEPT !.decoder = eb] /\ y = [w EXCEPT !.decoder = eb]
      BY <1>5, <1>6, <1>11, <1>13, <2>3
    <3>2. x.decoder = eb /\ x.out = b.out /\ x.result = b.result /\ x.rest = b.rest
      BY <1>5, <3>1 DEF CallType
    <3>3. y.decoder = eb /\ y.out = w.out /\ y.result = w.result /\ y.rest = w.rest
      BY <1>9, <3>1 DEF Shifted
    <3> QED  BY <1>5, <1>11, <2>3, <3>2, <3>3
  <2> QED  BY <2>1, <2>2, <2>3
<1>15. /\ decoder' = x.decoder /\ out' = out \o x.out /\ result' = x.result /\ rest' = x.rest
       /\ stream' = both
  BY <1>buf DEF x, both
<1>16. y = Decode(NewDecoder(decoder'.trailer), stream')
  BY <1>5, <1>15 DEF y, D
<1>17. LikeOneCall'
  BY <1>14, <1>15, <1>16 DEF LikeOneCall
<1>18. out' \in Seq(Chars)
  <2> DEFINE o == x.out
  <2>1. o \in Seq(Chars)  BY <1>5
  <2> HIDE DEF o
  <2>2. out \o o \in Seq(Chars)  BY <1>0, <2>1
  <2> QED  BY <1>15, <2>2 DEF o
<1> QED  BY <1>4, <1>5, <1>14, <1>15, <1>17, <1>18 DEF ChunkInv

\* Before the first call.
LEMMA ChunkBegins == ChunkInit => ChunkInv
<1> SUFFICES ASSUME ChunkInit PROVE ChunkInv  OBVIOUS
<1>1. PICK trailer \in BOOLEAN : decoder = NewDecoder(trailer)  BY DEF ChunkInit
<1>2. /\ out = << >> /\ result = More /\ rest = << >> /\ stream = << >>
      /\ << >> \in Seq(Chars) /\ Len(<< >>) = 0
  BY DEF ChunkInit
<1> DEFINE D == NewDecoder(trailer)
           d == Started(D, Len(<< >>))
           a == Loop(d, << >>)
           e == [a.decoder EXCEPT !.overhead = @ + Len(<< >>) - Len(a.out)]
           w == Decode(D, << >>)
<1>3. D \in DecoderType /\ D.read = 0 /\ D.overhead = 0 /\ D.trailer = trailer
  BY DEF NewDecoder, DecoderType, States
<1>4. d = D
  <2> HIDE DEF D
  <2> QED  BY <1>2, <1>3 DEF Started, DecoderType
<1>5. a = StartOf(D)
  <2>1. PICK f : Rounds(f, D, << >>) /\ Loop(D, << >>) = f[Len(<< >>)]
    BY <1>2, <1>3, LoopUnfolds
  <2> QED  BY <1>2, <1>4, <2>1 DEF Rounds
<1>6. /\ a.result = More /\ TooMuch(e) => w.result = Bad
      /\ a.result = More /\ ~TooMuch(e) => w = [a EXCEPT !.decoder = e]
  BY <1>2, <1>3, DecodeIs
<1>7. e = D
  <2>1. a.decoder = D /\ a.out = << >>  BY <1>5 DEF StartOf
  <2>2. e = [D EXCEPT !.overhead = 0]
    <3> HIDE DEF a, D
    <3> QED  BY <1>2, <1>3, <2>1
  <2> HIDE DEF D, e
  <2> QED  BY <1>3, <2>2 DEF DecoderType
<1>8. ~TooMuch(D)
  <2> HIDE DEF D
  <2> QED  BY <1>3 DEF TooMuch
<1> HIDE DEF a, e, w, D
<1>9. w = StartOf(D)
  BY <1>5, <1>6, <1>7, <1>8 DEF StartOf
<1>10. LikeOneCall
  <2>1. Decode(NewDecoder(decoder.trailer), stream) = w  BY <1>1, <1>2, <1>3 DEF w, D
  <2> QED  BY <1>1, <1>2, <1>9, <2>1 DEF LikeOneCall, StartOf, D
<1> QED  BY <1>1, <1>2, <1>3, <1>10 DEF ChunkInv, D

\* What a call for all the bytes makes of them, as the loop over them and its costs.
LEMMA OneCall ==
  ASSUME ChunkInv
  PROVE  LET a == Loop(Started(NewDecoder(decoder.trailer), Len(stream)), stream) IN
         /\ a \in CallType
         /\ result = IF a.result = More /\ Costly(Len(a.out)) THEN Bad ELSE a.result
         /\ result # Bad => out = a.out /\ rest = a.rest
         /\ result = More => decoder = [a.decoder EXCEPT !.overhead = Len(stream) - Len(out)]
<1> DEFINE D == NewDecoder(decoder.trailer)
           d == Started(D, Len(stream))
           a == Loop(d, stream)
           n == Len(a.out)
           e == [a.decoder EXCEPT !.overhead = @ + Len(stream) - Len(a.out)]
           w == Decode(D, stream)
<1>0. /\ decoder \in DecoderType /\ stream \in Seq(Chars) /\ Len(stream) \in Nat
      /\ result = w.result /\ (result # Bad => out = w.out /\ rest = w.rest)
  BY DEF ChunkInv, LikeOneCall
<1>1. D \in DecoderType /\ D.read = 0 /\ D.overhead = 0
  BY <1>0 DEF NewDecoder, DecoderType, States
<1>2. d.read = Len(stream) /\ d.overhead = 0  BY <1>0, <1>1 DEF Started, DecoderType
<1>3. /\ d \in DecoderType /\ a \in CallType /\ KeptBy(StartOf(d), a)
      /\ e \in DecoderType
      /\ a.result # More => w = a
      /\ a.result = More /\ TooMuch(e) => w.result = Bad
      /\ a.result = More /\ ~TooMuch(e) => w = [a EXCEPT !.decoder = e]
  BY <1>0, <1>1, DecodeIs
<1> HIDE DEF w, a, d, D
<1>4. /\ a.decoder \in DecoderType /\ n \in Nat /\ a.result \in Results
      /\ a.decoder.read = Len(stream) /\ a.decoder.overhead = 0
  BY <1>2, <1>3 DEF KeptBy, StartOf, CallType
<1>5. TooMuch(e) <=> Costly(n)
  <2>1. e.read = Len(stream)  BY <1>4 DEF DecoderType
  <2>2. e.overhead = Len(stream) - n
    <3> DEFINE o == a.decoder.overhead + Len(stream) - n
    <3>1. o = Len(stream) - n  BY <1>0, <1>4
    <3> HIDE DEF o
    <3>2. e = [a.decoder EXCEPT !.overhead = o]  BY DEF o
    <3> QED  BY <1>4, <3>1, <3>2 DEF DecoderType
  <2> HIDE DEF e, n
  <2>3. Len(stream) - (Len(stream) - n) = n  BY <1>0, <1>4
  <2> QED  BY <2>1, <2>2, <2>3 DEF TooMuch, Costly
<1> HIDE DEF e
<1>6. result = IF a.result = More /\ Costly(n) THEN Bad ELSE a.result
  <2>1. CASE a.result # More  BY <1>0, <1>3, <2>1
  <2>2. CASE a.result = More /\ Costly(n)  BY <1>0, <1>3, <1>5, <2>2
  <2>3. CASE a.result = More /\ ~Costly(n)
    <3>1. w.result = a.result  BY <1>3, <1>5, <2>3 DEF CallType
    <3> QED  BY <1>0, <2>3, <3>1
  <2> QED  BY <2>1, <2>2, <2>3
<1>7. ASSUME result # Bad PROVE out = a.out /\ rest = a.rest
  <2>1. CASE a.result # More  BY <1>0, <1>3, <1>7, <2>1
  <2>2. CASE a.result = More
    <3>1. ~TooMuch(e)  BY <1>5, <1>6, <1>7, <2>2
    <3>2. w.out = a.out /\ w.rest = a.rest  BY <1>3, <2>2, <3>1 DEF CallType
    <3> QED  BY <1>0, <1>7, <3>2
  <2> QED  BY <2>1, <2>2
<1>8. result = More => decoder = [a.decoder EXCEPT !.overhead = Len(stream) - Len(out)]
  BY AtOnce DEF a, d, D
<1> QED  BY <1>3, <1>6, <1>7, <1>8 DEF n, a, d, D

\* However a chunked body is cut into calls of phr_decode_chunked, and whatever it
\* may cost, they make of its bytes what one run of the loop makes of all of them, but
\* that a call which ends within the body refuses encoding that costs too much.
THEOREM CutsSafe == ChunkSpec => []CutsHidden
<1>1. ChunkInv /\ [ChunkNext]_chunkVars => ChunkInv'
  <2>1. ASSUME ChunkInv, UNCHANGED chunkVars PROVE ChunkInv'
    BY <2>1 DEF ChunkInv, LikeOneCall, chunkVars
  <2> QED  BY <2>1, ChunkStep
<1>2. ChunkInv => CutsHidden
  <2> SUFFICES ASSUME ChunkInv PROVE CutsHidden  OBVIOUS
  <2> QED  BY OneCall DEF CutsHidden
<1> QED  BY <1>1, <1>2, ChunkBegins, PTL DEF ChunkSpec
------------------------------------------------------------------------------
------------------------------------------------------------------------------
(***************************************************************************)
(* Chunked bodies: the loop against the grammar.  The loop over all of the *)
(* stream is followed through the lines of a chunk, its data and the       *)
(* trailer, each against the part of the grammar that it has to agree      *)
(* with.                                                                   *)
(***************************************************************************)
\* The call a goes on, in the state st, with what it still expects and has put out.
Is(a, st, l, h, o) ==
  /\ a \in CallType /\ a.result = More /\ a.out = o
  /\ a.decoder.state = st /\ a.decoder.left = l /\ a.decoder.hex = h

\* Where the byte c leads behind a size, with a hexadecimal count of 0.
Extends(b, c, l, o) ==
  /\ c = "CR" => Is(b, "size_lf", l, 0, o)
  /\ c = "LF" => b.result = Bad
  /\ c \notin {"CR", "LF"} => Is(b, "ext", l, 0, o)

\* A round while the call goes on.
LEMMA RoundIs ==
  ASSUME NEW a \in CallType, NEW c \in Chars, a.result = More
  PROVE  LET b == Consume(a, c)
             y == Byte(a.decoder, c)
         IN  /\ a.decoder \in DecoderType /\ a.out \in Seq(Chars)
             /\ b \in CallType /\ b.decoder.trailer = a.decoder.trailer
             /\ b.decoder = y.decoder /\ b.result = y.result /\ b.rest = << >>
             /\ b.out = a.out \o y.out
             /\ y.out = << >> => b.out = a.out
<1> DEFINE b == Consume(a, c)
           y == Byte(a.decoder, c)
<1>1. a.decoder \in DecoderType /\ a.out \in Seq(Chars)  BY DEF CallType
<1>2. b \in CallType /\ KeptBy(a, b)
  <2>1. << >> \in Seq(Chars) /\ 0 \in Int  OBVIOUS
  <2> QED  BY <2>1, ConsumeShifts
<1>3. b = [decoder |-> y.decoder, out |-> a.out \o y.out, result |-> y.result, rest |-> << >>]
  BY DEF Consume
<1>4. a.out \o << >> = a.out
  <2> DEFINE o == a.out
  <2>1. o \in Seq(Chars)  BY <1>1
  <2> HIDE DEF o
  <2>2. o \o << >> = o  BY <2>1, ConcatEmptySeq
  <2> QED  BY <2>2 DEF o
<1> HIDE DEF b, y
<1>5. /\ b.decoder = y.decoder /\ b.result = y.result /\ b.rest = << >>
      /\ b.out = a.out \o y.out
  BY <1>3
<1>6. y.out = << >> => b.out = a.out  BY <1>4, <1>5
<1>7. b.decoder.trailer = a.decoder.trailer  BY <1>2 DEF KeptBy
<1> QED  BY <1>1, <1>2, <1>5, <1>6, <1>7 DEF b, y

\* The fields of a decoder that goes on.
LEMMA ToIs ==
  ASSUME NEW d \in DecoderType, NEW st
  PROVE  LET y == To(d, st) IN
         /\ y.result = More /\ y.out = << >>
         /\ y.decoder.state = st /\ y.decoder.left = d.left /\ y.decoder.hex = d.hex
BY DEF To, DecoderType

\* A byte behind a size.
LEMMA ExtensionIs ==
  ASSUME NEW a \in CallType, NEW c \in Chars, a.result = More, NEW d \in DecoderType,
         Byte(a.decoder, c) = Extension(d, c), d.hex = 0
  PROVE  Extends(Consume(a, c), c, d.left, a.out)
<1> DEFINE b == Consume(a, c)
           y == Extension(d, c)
<1>1. /\ b \in CallType /\ b.decoder = y.decoder /\ b.result = y.result
      /\ y.out = << >> => b.out = a.out
  <2> DEFINE z == Byte(a.decoder, c)
  <2>1. /\ b \in CallType /\ b.decoder = z.decoder /\ b.result = z.result
        /\ z.out = << >> => b.out = a.out
    BY RoundIs
  <2>2. z = y  OBVIOUS
  <2> HIDE DEF z, y, b
  <2> QED  BY <2>1, <2>2
<1>2. CASE c = "CR"
  <2>1. y = To(d, "size_lf")  BY <1>2 DEF Extension
  <2> HIDE DEF y, b
  <2> QED  BY <1>1, <1>2, <2>1, ToIs DEF Extends, Is, b
<1>3. CASE c = "LF"
  <2>1. y = End(d, Bad)  BY <1>3 DEF Extension
  <2>2. y.result = Bad  BY <2>1 DEF End
  <2> HIDE DEF y, b
  <2> QED  BY <1>1, <1>3, <2>2 DEF Extends, b
<1>4. CASE c \notin {"CR", "LF"}
  <2>1. y = To(d, "ext")  BY <1>4 DEF Extension
  <2> HIDE DEF y, b
  <2> QED  BY <1>1, <1>4, <2>1, ToIs DEF Extends, Is, b
<1> QED  BY <1>2, <1>3, <1>4

\* A byte of a size.
LEMMA SizeByte ==
  ASSUME NEW a, NEW c \in Chars, NEW l, NEW h, NEW o, Is(a, "size", l, h, o)
  PROVE  LET b == Consume(a, c) IN
         /\ c \in Digits /\ h # HexMax => Is(b, "size", l * 16 + DecodeHex(c), h + 1, o)
         /\ c \in Digits /\ h = HexMax => b.result = Bad
         /\ c \notin Digits /\ (h = 0 \/ c = "x") => b.result = Bad
         /\ c \notin Digits /\ h # 0 /\ c # "x" => Extends(b, c, l, o)
<1> DEFINE b == Consume(a, c)
           d == a.decoder
           y == Byte(d, c)
<1>1. /\ d \in DecoderType /\ b \in CallType /\ b.decoder = y.decoder /\ b.result = y.result
      /\ y.out = << >> => b.out = a.out
      /\ a \in CallType /\ a.result = More /\ a.out = o /\ d.state = "size"
      /\ d.left = l /\ d.hex = h
  BY RoundIs DEF Is
<1>2. y = Size(d, c)  BY <1>1 DEF Byte
<1>3. CASE c \in Digits /\ h # HexMax
  <2> DEFINE e == WithDigit(d, DecodeHex(c))
  <2>1. y = To(e, "size")  BY <1>1, <1>2, <1>3 DEF Size
  <2>2. DecodeHex(c) \in Int  BY DEF DecodeHex
  <2>3. e \in DecoderType /\ e.left = l * 16 + DecodeHex(c) /\ e.hex = h + 1
    <3> DEFINE v == l * 16 + DecodeHex(c)
               n == h + 1
    <3>1. v \in Int /\ n \in Int  BY <1>1, <2>2 DEF DecoderType
    <3>2. e = [d EXCEPT !.left = v, !.hex = n]  BY <1>1 DEF WithDigit
    <3> HIDE DEF v, n, e, d
    <3>3. e \in DecoderType /\ e.left = v /\ e.hex = n  BY <1>1, <3>1, <3>2 DEF DecoderType
    <3> QED  BY <3>3 DEF v, n
  <2> HIDE DEF e, y, d, b
  <2>4. Is(b, "size", l * 16 + DecodeHex(c), h + 1, o)  BY <1>1, <2>1, <2>3, ToIs DEF Is
  <2> QED  BY <1>3, <2>4 DEF b
<1>4. CASE (c \in Digits /\ h = HexMax) \/ (c \notin Digits /\ (h = 0 \/ c = "x"))
  <2>1. y = End(d, Bad)  BY <1>1, <1>2, <1>4 DEF Size
  <2>2. y.result = Bad  BY <2>1 DEF End
  <2> HIDE DEF y, d, b
  <2> QED  BY <1>1, <1>4, <2>2 DEF b
<1>5. CASE c \notin Digits /\ h # 0 /\ c # "x"
  <2> DEFINE e == SizeEnds(d)
  <2>1. y = Extension(e, c)  BY <1>1, <1>2, <1>5 DEF Size
  <2>2. e \in DecoderType /\ e.hex = 0 /\ e.left = l
    <3> HIDE DEF d
    <3> DEFINE st == "ext"
    <3>1. e = [d EXCEPT !.state = st, !.hex = 0]  BY DEF SizeEnds
    <3>2. st \in States  BY DEF States
    <3> HIDE DEF e, st
    <3> DEFINE g == [d EXCEPT !.state = st]
    <3>3. g \in DecoderType /\ g.left = d.left  BY <1>1, <3>2 DEF DecoderType
    <3>4. e = [g EXCEPT !.hex = 0]  BY <1>1, <3>1 DEF DecoderType
    <3> HIDE DEF g
    <3>5. e \in DecoderType /\ e.hex = 0 /\ e.left = g.left  BY <3>3, <3>4 DEF DecoderType
    <3> QED  BY <1>1, <3>3, <3>5
  <2> HIDE DEF e
  <2>3. Extends(b, c, l, o)  BY <1>1, <2>1, <2>2, ExtensionIs
  <2> QED  BY <1>5, <2>3
<1> QED  BY <1>3, <1>4, <1>5

\* A byte of an extension.
LEMMA ExtByte ==
  ASSUME NEW a, NEW c \in Chars, NEW l, NEW o, Is(a, "ext", l, 0, o)
  PROVE  Extends(Consume(a, c), c, l, o)
<1> DEFINE d == a.decoder
<1>1. /\ d \in DecoderType /\ a \in CallType /\ a.result = More /\ a.out = o /\ d.state = "ext"
      /\ d.left = l /\ d.hex = 0
  BY RoundIs DEF Is
<1>2. Byte(d, c) = Extension(d, c)  BY <1>1 DEF Byte
<1> HIDE DEF d
<1> QED  BY <1>1, <1>2, ExtensionIs DEF d

\* The line feed of a size line.
LEMMA SizeLfByte ==
  ASSUME NEW a, NEW c \in Chars, NEW l, NEW o, Is(a, "size_lf", l, 0, o)
  PROVE  LET b == Consume(a, c) IN
         /\ c # "LF" => b.result = Bad
         /\ c = "LF" /\ l # 0 => Is(b, "data", l, 0, o)
         /\ c = "LF" /\ l = 0 /\ a.decoder.trailer => Is(b, "head", 0, 0, o)
         /\ c = "LF" /\ l = 0 /\ ~a.decoder.trailer =>
              b.result = Complete /\ b.out = o /\ b.rest = << >>
<1> DEFINE b == Consume(a, c)
           d == a.decoder
           y == Byte(d, c)
<1>1. /\ d \in DecoderType /\ b \in CallType /\ b.decoder = y.decoder /\ b.result = y.result
      /\ y.out = << >> => b.out = a.out
      /\ b.rest = << >>
      /\ a \in CallType /\ a.result = More /\ a.out = o /\ d.state = "size_lf"
      /\ d.left = l /\ d.hex = 0
  BY RoundIs DEF Is
<1>2. y = IF c = "LF" THEN SizeLineEnds(d) ELSE End(d, Bad)  BY <1>1 DEF Byte
<1>3. c # "LF" => y.result = Bad  BY <1>2 DEF End
<1>4. c = "LF" /\ l # 0 => y = To(d, "data")  BY <1>1, <1>2 DEF SizeLineEnds
<1>5. c = "LF" /\ l = 0 /\ d.trailer => y = To(d, "head")  BY <1>1, <1>2 DEF SizeLineEnds
<1>6. c = "LF" /\ l = 0 /\ ~d.trailer => y = End(d, Complete)  BY <1>1, <1>2 DEF SizeLineEnds
<1>7. /\ End(d, Complete).result = Complete /\ End(d, Complete).out = << >>
  BY DEF End
<1> HIDE DEF y, d, b
<1>8. c = "LF" /\ l # 0 => Is(b, "data", l, 0, o)  BY <1>1, <1>4, ToIs DEF Is
<1>9. c = "LF" /\ l = 0 /\ d.trailer => Is(b, "head", 0, 0, o)  BY <1>1, <1>5, ToIs DEF Is
<1> QED  BY <1>1, <1>3, <1>6, <1>7, <1>8, <1>9 DEF b, d

\* A byte of data.
LEMMA DataByte ==
  ASSUME NEW a, NEW c \in Chars, NEW l, NEW o, Is(a, "data", l, 0, o)
  PROVE  Is(Consume(a, c), IF l = 1 THEN "data_cr" ELSE "data", l - 1, 0, o \o <<c>>)
<1> DEFINE b == Consume(a, c)
           d == a.decoder
           y == Byte(d, c)
           st == IF l = 1 THEN "data_cr" ELSE "data"
<1>1. /\ d \in DecoderType /\ b \in CallType /\ b.decoder = y.decoder /\ b.result = y.result
      /\ b.out = a.out \o y.out
      /\ a.out = o /\ d.state = "data" /\ d.left = l /\ d.hex = 0
  BY RoundIs DEF Is
<1>2. y = [To([d EXCEPT !.left = @ - 1], st) EXCEPT !.out = <<c>>]  BY <1>1 DEF Byte
<1>3. st \in States  BY DEF States
<1> HIDE DEF st
<1> DEFINE e == [d EXCEPT !.left = @ - 1]
<1>4. e \in DecoderType /\ e.left = l - 1 /\ e.hex = 0
  <2> DEFINE n == l - 1
  <2>1. n \in Int  BY <1>1 DEF DecoderType
  <2>2. e = [d EXCEPT !.left = n]  BY <1>1
  <2> HIDE DEF n, e, d
  <2>3. e \in DecoderType /\ e.left = n /\ e.hex = 0  BY <1>1, <2>1, <2>2 DEF DecoderType
  <2> QED  BY <2>3 DEF n
<1>5. y = [To(e, st) EXCEPT !.out = <<c>>]  BY <1>2
<1> HIDE DEF e
<1>6. /\ y.result = More /\ y.out = <<c>> /\ y.decoder.state = st
      /\ y.decoder.left = l - 1 /\ y.decoder.hex = 0
  <2> DEFINE z == To(e, st)
  <2>1. /\ z = [decoder |-> z.decoder, out |-> z.out, result |-> z.result]
        /\ z.result = More /\ z.decoder.state = st /\ z.decoder.left = e.left
        /\ z.decoder.hex = e.hex
    BY <1>4, ToIs DEF To
  <2> HIDE DEF z, y, d
  <2>2. y = [z EXCEPT !.out = <<c>>]  BY <1>5 DEF z
  <2>3. y.result = z.result /\ y.out = <<c>> /\ y.decoder = z.decoder  BY <2>1, <2>2
  <2> QED  BY <1>4, <2>1, <2>3
<1> HIDE DEF y, d, b
<1> QED  BY <1>1, <1>6 DEF Is, b, st

\* The line end behind the data.
LEMMA DataEndByte ==
  ASSUME NEW a, NEW c \in Chars, NEW o
  PROVE  LET b == Consume(a, c) IN
         /\ Is(a, "data_cr", 0, 0, o) => IF c = "CR" THEN Is(b, "data_lf", 0, 0, o) ELSE b.result = Bad
         /\ Is(a, "data_lf", 0, 0, o) => IF c = "LF" THEN Is(b, "size", 0, 0, o) ELSE b.result = Bad
<1> SUFFICES ASSUME Is(a, "data_cr", 0, 0, o) \/ Is(a, "data_lf", 0, 0, o)
             PROVE  LET b == Consume(a, c) IN
                    /\ Is(a, "data_cr", 0, 0, o) =>
                         IF c = "CR" THEN Is(b, "data_lf", 0, 0, o) ELSE b.result = Bad
                    /\ Is(a, "data_lf", 0, 0, o) =>
                         IF c = "LF" THEN Is(b, "size", 0, 0, o) ELSE b.result = Bad
  OBVIOUS
<1> DEFINE b == Consume(a, c)
           d == a.decoder
           y == Byte(d, c)
<1>1. /\ d \in DecoderType /\ b \in CallType /\ b.decoder = y.decoder /\ b.result = y.result
      /\ y.out = << >> => b.out = a.out
      /\ a.out = o /\ d.left = 0 /\ d.hex = 0
  BY RoundIs DEF Is
<1>2. d.state = "data_cr" => y = IF c = "CR" THEN To(d, "data_lf") ELSE End(d, Bad)  BY DEF Byte
<1>3. d.state = "data_lf" => y = IF c = "LF" THEN To(d, "size") ELSE End(d, Bad)  BY DEF Byte
<1>4. End(d, Bad).result = Bad  BY DEF End
<1>5. /\ Is(a, "data_cr", 0, 0, o) => d.state = "data_cr"
      /\ Is(a, "data_lf", 0, 0, o) => d.state = "data_lf"
  BY DEF Is
<1> HIDE DEF y, d, b
<1>6. y = To(d, "data_lf") => Is(b, "data_lf", 0, 0, o)  BY <1>1, ToIs DEF Is
<1>7. y = To(d, "size") => Is(b, "size", 0, 0, o)  BY <1>1, ToIs DEF Is
<1> QED  BY <1>1, <1>2, <1>3, <1>4, <1>5, <1>6, <1>7 DEF b

\* A byte of the trailer.
LEMMA TrailerByte ==
  ASSUME NEW a, NEW c \in Chars, NEW o
  PROVE  LET b == Consume(a, c) IN
         /\ Is(a, "head", 0, 0, o) =>
              /\ c = "CR" => Is(b, "head", 0, 0, o)
              /\ c = "LF" => b.result = Complete /\ b.out = o /\ b.rest = << >>
              /\ c \notin {"CR", "LF"} => Is(b, "middle", 0, 0, o)
         /\ Is(a, "middle", 0, 0, o) => Is(b, IF c = "LF" THEN "head" ELSE "middle", 0, 0, o)
<1> DEFINE b == Consume(a, c)
           d == a.decoder
           y == Byte(d, c)
<1>1. ASSUME Is(a, "head", 0, 0, o)
      PROVE  /\ c = "CR" => Is(b, "head", 0, 0, o)
             /\ c = "LF" => b.result = Complete /\ b.out = o /\ b.rest = << >>
             /\ c \notin {"CR", "LF"} => Is(b, "middle", 0, 0, o)
  <2>1. /\ d \in DecoderType /\ b \in CallType /\ b.decoder = y.decoder /\ b.result = y.result
        /\ y.out = << >> => b.out = a.out
        /\ b.rest = << >> /\ a.out = o /\ d.left = 0 /\ d.hex = 0 /\ d.state = "head"
    BY <1>1, RoundIs DEF Is
  <2>2. y = TrailerHead(d, c)  BY <2>1 DEF Byte
  <2>3. /\ c = "CR" => y = To(d, "head")
        /\ c = "LF" => y = End(d, Complete)
        /\ c \notin {"CR", "LF"} => y = To(d, "middle")
    BY <2>2 DEF TrailerHead
  <2>4. End(d, Complete).result = Complete /\ End(d, Complete).out = << >>  BY DEF End
  <2> HIDE DEF y, d, b
  <2>5. c = "CR" => Is(b, "head", 0, 0, o)  BY <2>1, <2>3, ToIs DEF Is
  <2>6. c \notin {"CR", "LF"} => Is(b, "middle", 0, 0, o)  BY <2>1, <2>3, ToIs DEF Is
  <2> QED  BY <2>1, <2>3, <2>4, <2>5, <2>6
<1>2. ASSUME Is(a, "middle", 0, 0, o)
      PROVE  Is(b, IF c = "LF" THEN "head" ELSE "middle", 0, 0, o)
  <2> DEFINE st == IF c = "LF" THEN "head" ELSE "middle"
  <2>1. /\ d \in DecoderType /\ b \in CallType /\ b.decoder = y.decoder /\ b.result = y.result
        /\ y.out = << >> => b.out = a.out
        /\ a.out = o /\ d.left = 0 /\ d.hex = 0 /\ d.state = "middle"
    BY <1>2, RoundIs DEF Is
  <2>2. y = To(d, st)  BY <2>1 DEF Byte
  <2> HIDE DEF y, d, b, st
  <2>3. Is(b, st, 0, 0, o)  BY <2>1, <2>2, ToIs DEF Is
  <2> QED  BY <2>3 DEF st
<1> QED  BY <1>1, <1>2

\* f is what the loop over the stream has after each byte, with or without a trailer.
RunsOver(f, t) ==
  /\ \A k \in 0 .. Len(stream) : f[k] \in CallType /\ f[k].decoder.trailer = t
  /\ \A k \in 1 .. Len(stream) : f[k] = Consume(f[k - 1], stream[k])

\* The loop of a call for all of the stream is such an f.
LEMMA RunIs ==
  ASSUME NEW d \in DecoderType, stream \in Seq(Chars)
  PROVE  \E f : RunsOver(f, d.trailer) /\ f[0] = StartOf(d) /\ f[Len(stream)] = Loop(d, stream)
<1> DEFINE N == Len(stream)
<1>0. N \in Nat  OBVIOUS
<1>1. PICK f : Rounds(f, d, stream) /\ Loop(d, stream) = f[N]  BY LoopUnfolds
<1>2. /\ f[0] = StartOf(d) /\ \A k \in 0 .. N : f[k] \in CallType
      /\ \A k \in 1 .. N : f[k] = Consume(f[k - 1], stream[k])
  BY <1>1 DEF Rounds
<1> DEFINE S == {k \in Nat : k <= N => f[k].decoder.trailer = d.trailer}
<1>3. 0 \in S  BY <1>2 DEF StartOf
<1>4. ASSUME NEW k \in Nat, k \in S PROVE k + 1 \in S
  <2> SUFFICES ASSUME k + 1 <= N PROVE f[k + 1].decoder.trailer = d.trailer  OBVIOUS
  <2>1. k + 1 \in 1 .. N /\ k + 1 - 1 = k /\ k <= N /\ k \in 0 .. N  BY <1>0
  <2>2. f[k] \in CallType /\ stream[k + 1] \in Chars /\ f[k + 1] = Consume(f[k], stream[k + 1])
    BY <1>2, <2>1
  <2>3. << >> \in Seq(Chars) /\ 0 \in Int  OBVIOUS
  <2>4. KeptBy(f[k], Consume(f[k], stream[k + 1]))  BY <2>2, <2>3, ConsumeShifts
  <2> QED  BY <1>4, <2>1, <2>2, <2>4 DEF KeptBy
<1> HIDE DEF S
<1>5. \A k \in Nat : k \in S  BY <1>3, <1>4, Induction
<1>6. \A k \in 0 .. N : f[k].decoder.trailer = d.trailer  BY <1>0, <1>5 DEF S
<1> QED  BY <1>1, <1>2, <1>6 DEF RunsOver

\* A byte of the run.
LEMMA RunStep ==
  ASSUME stream \in Seq(Chars), NEW f, NEW t, RunsOver(f, t), NEW k \in 1 .. Len(stream)
  PROVE  /\ stream[k] \in Chars /\ f[k - 1] \in CallType /\ f[k] \in CallType
         /\ f[k] = Consume(f[k - 1], stream[k]) /\ f[k - 1].decoder.trailer = t
BY DEF RunsOver

\* Once it has ended, what follows is the rest.
LEMMA RunEnded ==
  ASSUME stream \in Seq(Chars), NEW f, NEW t, RunsOver(f, t), NEW k \in 1 .. Len(stream),
         f[k].result # More, f[k].rest = << >>
  PROVE  /\ f[Len(stream)].result = f[k].result /\ f[Len(stream)].out = f[k].out
         /\ f[Len(stream)].rest = SubSeq(stream, k + 1, Len(stream))
<1> DEFINE N == Len(stream)
           Ended(m) == /\ f[m].result = f[k].result /\ f[m].out = f[k].out
                       /\ f[m].rest = SubSeq(stream, k + 1, m)
           S == {j \in Nat : k + j <= N => Ended(k + j)}
<1>0. N \in Nat /\ k \in Nat /\ k >= 1 /\ k <= N  OBVIOUS
<1>1. 0 \in S
  <2>1. SubSeq(stream, k + 1, k) = << >>
    <3> DEFINE m == k + 1
    <3>1. m \in Int /\ k \in Int /\ k < m  BY <1>0
    <3> HIDE DEF m
    <3>2. SubSeq(stream, m, k) = << >>  BY <3>1, SubSeqEmpty
    <3> QED  BY <3>2 DEF m
  <2>2. k + 0 = k  BY <1>0
  <2>3. Ended(k + 0)  BY <2>1, <2>2
  <2> QED  BY <2>3
<1>2. ASSUME NEW j \in Nat, j \in S PROVE j + 1 \in S
  <2> SUFFICES ASSUME k + (j + 1) <= N PROVE Ended(k + (j + 1))  OBVIOUS
  <2> DEFINE m == k + (j + 1)
  <2>1. m \in 1 .. N /\ m - 1 = k + j /\ k + j <= N /\ k + 1 \in 1 .. N /\ m \in k + 1 .. N
    BY <1>0
  <2>2. Ended(k + j)  BY <1>2, <2>1
  <2> HIDE DEF m
  <2>3. /\ stream[m] \in Chars /\ f[m - 1] \in CallType /\ f[m] = Consume(f[m - 1], stream[m])
    BY <2>1, RunStep
  <2>4. f[m] = [f[m - 1] EXCEPT !.rest = Append(@, stream[m])]
    BY <2>1, <2>2, <2>3 DEF Consume
  <2>5. /\ f[m].result = f[m - 1].result /\ f[m].out = f[m - 1].out
        /\ f[m].rest = Append(f[m - 1].rest, stream[m])
    BY <2>3, <2>4 DEF CallType
  <2>6. Append(SubSeq(stream, k + 1, m - 1), stream[m]) = SubSeq(stream, k + 1, m)
    <3> DEFINE i == k + 1
    <3>1. i \in 1 .. Len(stream) /\ m \in i .. Len(stream)  BY <2>1
    <3> HIDE DEF i, N
    <3>2. SubSeq(stream, i, m) = SubSeq(stream, i, m - 1) \o <<stream[m]>>
      BY <3>1, SubSeqRecursiveSecond
    <3>3. SubSeq(stream, i, m - 1) \in Seq(Chars)
      <4> DEFINE n == m - 1
      <4>1. i \in Int /\ n \in Int /\ \A q \in i .. n : stream[q] \in Chars
        BY <3>1 DEF N
      <4> HIDE DEF n
      <4>2. SubSeq(stream, i, n) \in Seq(Chars)  BY <4>1, SubSeqProperties
      <4> QED  BY <4>2 DEF n
    <3> DEFINE w == SubSeq(stream, i, m - 1)
               x == stream[m]
    <3> HIDE DEF w, x
    <3>4. w \in Seq(Chars) /\ x \in Chars  BY <2>3, <3>3 DEF w, x
    <3>5. Append(w, x) = w \o <<x>>  BY <3>4
    <3> QED  BY <3>2, <3>5 DEF w, x, i
  <2>7. Ended(m)  BY <2>1, <2>2, <2>5, <2>6
  <2> QED  BY <2>7 DEF m
<1> HIDE DEF S
<1>3. \A j \in Nat : j \in S  BY <1>1, <1>2, Induction
<1> DEFINE j == N - k
<1>4. j \in Nat /\ k + j = N  BY <1>0
<1> HIDE DEF j
<1>5. j \in S  BY <1>3, <1>4
<1>6. Ended(k + j)  BY <1>0, <1>4, <1>5 DEF S
<1> QED  BY <1>4, <1>6

\* The loop does not complete: it is refused, or it can go on and has put out o.
Stops(f, more, o) ==
  LET a == f[Len(stream)] IN IF more THEN a.result = More /\ a.out = o ELSE a.result = Bad

\* A refused byte refuses the stream.
LEMMA RunRefused ==
  ASSUME stream \in Seq(Chars), NEW f, NEW t, RunsOver(f, t), NEW k \in 1 .. Len(stream),
         f[k].result = Bad
  PROVE  f[Len(stream)].result = Bad
<1> DEFINE N == Len(stream)
           S == {j \in Nat : k + j <= N => f[k + j].result = Bad}
<1>0. N \in Nat /\ k \in Nat /\ k >= 1 /\ k <= N  OBVIOUS
<1>1. 0 \in S  BY <1>0
<1>2. ASSUME NEW j \in Nat, j \in S PROVE j + 1 \in S
  <2> SUFFICES ASSUME k + (j + 1) <= N PROVE f[k + (j + 1)].result = Bad  OBVIOUS
  <2> DEFINE m == k + (j + 1)
  <2>1. m \in 1 .. N /\ m - 1 = k + j /\ k + j <= N  BY <1>0
  <2>2. f[k + j].result = Bad  BY <1>2, <2>1
  <2> HIDE DEF m
  <2>3. f[m - 1] \in CallType /\ f[m] = Consume(f[m - 1], stream[m])  BY <2>1, RunStep
  <2>4. f[m] = [f[m - 1] EXCEPT !.rest = Append(@, stream[m])]
    BY <2>1, <2>2, <2>3 DEF Consume, Bad, More
  <2>5. f[m].result = Bad  BY <2>1, <2>2, <2>3, <2>4 DEF CallType
  <2> QED  BY <2>5 DEF m
<1> HIDE DEF S
<1>3. \A j \in Nat : j \in S  BY <1>1, <1>2, Induction
<1> DEFINE j == N - k
<1>4. j \in Nat /\ k + j = N  BY <1>0
<1> HIDE DEF j
<1>5. j \in S  BY <1>3, <1>4
<1>6. f[k + j].result = Bad  BY <1>0, <1>4, <1>5 DEF S
<1> QED  BY <1>4, <1>6

\* The least of a set of numbers.
LEMMA LeastOrIs ==
  ASSUME NEW S \in SUBSET Nat, NEW x
  PROVE  /\ S = {} => LeastOr(S, x) = x
         /\ S # {} => LeastOr(S, x) \in S /\ \A q \in S : LeastOr(S, x) <= q
<1>1. CASE S = {}  BY <1>1 DEF LeastOr
<1>2. CASE S # {}
  <2>1. \E p \in S : \A q \in S : p <= q  BY <1>2, Least
  <2> DEFINE p == CHOOSE n \in S : \A q \in S : n <= q
  <2>2. p \in S /\ \A q \in S : p <= q  BY <2>1
  <2>3. LeastOr(S, x) = p  BY <1>2 DEF LeastOr
  <2> HIDE DEF p
  <2> QED  BY <1>2, <2>2, <2>3
<1> QED  BY <1>1, <1>2

\* The first of some characters in the stream, or the position behind it.
LEMMA FirstAtIs ==
  ASSUME stream \in Seq(Chars), NEW i \in Nat, NEW S
  PROVE  LET p == FirstAt(i, S) IN
         /\ p \in Nat /\ p <= Len(stream) + 1 /\ (i <= Len(stream) + 1 => i <= p)
         /\ p <= Len(stream) => stream[p] \in S
         /\ \A q \in i .. Len(stream) : q < p => stream[q] \notin S
<1> DEFINE T == {p \in i .. Len(stream) : stream[p] \in S}
           x == Len(stream) + 1
           p == FirstAt(i, S)
<1>0. Len(stream) \in Nat  OBVIOUS
<1>1. T \in SUBSET Nat  BY <1>0
<1>2. p = LeastOr(T, x)  BY DEF FirstAt
<1>3. /\ T = {} => p = x
      /\ T # {} => p \in T /\ \A q \in T : p <= q
  <2> HIDE DEF T, x, p
  <2> QED  BY <1>1, <1>2, LeastOrIs
<1> HIDE DEF p
<1>4. CASE T = {}
  <2>1. p = Len(stream) + 1  BY <1>3, <1>4
  <2>2. \A q \in i .. Len(stream) : stream[q] \notin S  BY <1>4
  <2> QED  BY <1>0, <2>1, <2>2 DEF p
<1>5. CASE T # {}
  <2>1. p \in i .. Len(stream) /\ stream[p] \in S /\ \A q \in T : p <= q  BY <1>3, <1>5
  <2>2. ASSUME NEW q \in i .. Len(stream), q < p PROVE stream[q] \notin S
    <3> SUFFICES ASSUME stream[q] \in S PROVE FALSE  OBVIOUS
    <3>1. q \in T  OBVIOUS
    <3>2. p <= q  BY <2>1, <3>1
    <3> QED  BY <1>0, <2>1, <2>2, <3>2
  <2> QED  BY <1>0, <2>1, <2>2 DEF p
<1> QED  BY <1>4, <1>5

\* The size of a chunk, as what a recursive function that exists computes.
LEMMA SizeUnfolds ==
  ASSUME stream \in Seq(Chars), NEW i \in 0 .. Len(stream) + 1
  PROVE  LET e == SizeEnd(i) IN
         \E g : /\ g[i - 1] = 0
                /\ \A p \in i - 1 .. e - 1 : g[p] \in Nat
                /\ \A p \in i .. e - 1 : g[p] = g[p - 1] * 16 + DecodeHex(stream[p])
                /\ ChunkSize(i) = g[e - 1]
<1> DEFINE e == SizeEnd(i)
           A == i - 1 .. e - 1
           Next1(p, f) == IF p = i - 1 THEN 0 ELSE f[p - 1] * 16 + DecodeHex(stream[p])
           G == [q \in A \X [A -> Nat] |-> Next1(q[1], q[2])]
           rank == [p \in A |-> p - (i - 1)]
<1>0. /\ i \in Nat /\ Len(stream) \in Nat /\ e \in Nat /\ i <= e
  BY FirstAtIs DEF SizeEnd
<1> HIDE DEF e
<1>1. rank \in [A -> Nat] /\ Nat # {}  BY <1>0
<1>2. G \in [A \X [A -> Nat] -> Nat]
  <2> SUFFICES ASSUME NEW p \in A, NEW f \in [A -> Nat] PROVE Next1(p, f) \in Nat
    OBVIOUS
  <2>1. DecodeHex(stream[p]) \in Nat  BY DEF DecodeHex
  <2>2. p # i - 1 => f[p - 1] \in Nat  BY <1>0
  <2> QED  BY <2>1, <2>2
<1>3. LooksBelow(G, A, Nat, rank)
  <2> SUFFICES ASSUME NEW p \in A, NEW f \in [A -> Nat], NEW g \in [A -> Nat],
                      AgreeBelow(f, g, A, rank, rank[p])
               PROVE  Next1(p, f) = Next1(p, g)
    BY DEF LooksBelow
  <2>1. p # i - 1 => p - 1 \in A /\ rank[p - 1] < rank[p]  BY <1>0
  <2>2. p # i - 1 => f[p - 1] = g[p - 1]  BY <2>1 DEF AgreeBelow
  <2> QED  BY <2>2
<1>4. Recursive(G, A, Nat, rank)  BY <1>1, <1>2, <1>3 DEF Recursive
<1> HIDE DEF rank, G, A
<1>5. PICK f \in [A -> Nat] : \A p \in A : f[p] = G[<<p, f>>]
  BY <1>4, RecursiveFunctionExists
<1>6. f = [p \in A |-> Next1(p, f)]  BY <1>5 DEF G
<1> DEFINE Eq(of) == of = [p \in A |-> Next1(p, of)]
           c == CHOOSE of : Eq(of)
<1>7. Eq(c)  BY <1>6
<1>8. ChunkSize(i) = c[e - 1]  BY DEF ChunkSize, A, e
<1> HIDE DEF c
<1>9. \A p \in A : c[p] = Next1(p, c)  BY <1>7
<1>10. i - 1 \in A /\ \A p \in i .. e - 1 : p \in A /\ p # i - 1  BY <1>0 DEF A
<1>11. c[i - 1] = 0 /\ \A p \in i .. e - 1 : c[p] = c[p - 1] * 16 + DecodeHex(stream[p])
  BY <1>9, <1>10
<1> DEFINE S == {k \in Nat : k <= e - i => c[i - 1 + k] \in Nat}
<1>12. 0 \in S  BY <1>0, <1>11
<1>13. ASSUME NEW k \in Nat, k \in S PROVE k + 1 \in S
  <2> SUFFICES ASSUME k + 1 <= e - i PROVE c[i - 1 + (k + 1)] \in Nat  OBVIOUS
  <2> DEFINE p == i - 1 + (k + 1)
  <2>1. p \in i .. e - 1 /\ p - 1 = i - 1 + k /\ k <= e - i  BY <1>0
  <2> HIDE DEF p
  <2>2. c[p - 1] \in Nat  BY <1>13, <2>1
  <2>3. DecodeHex(stream[p]) \in Nat  BY DEF DecodeHex
  <2>4. c[p] = c[p - 1] * 16 + DecodeHex(stream[p])  BY <1>11, <2>1
  <2>5. c[p] \in Nat  BY <2>2, <2>3, <2>4
  <2> QED  BY <2>5 DEF p
<1> HIDE DEF S
<1>14. \A k \in Nat : k \in S  BY <1>12, <1>13, Induction
<1>15. ASSUME NEW p \in i - 1 .. e - 1 PROVE c[p] \in Nat
  <2> DEFINE k == p - (i - 1)
  <2>1. k \in Nat /\ k <= e - i /\ i - 1 + k = p  BY <1>0
  <2> HIDE DEF k
  <2>2. c[i - 1 + k] \in Nat  BY <1>14, <2>1 DEF S
  <2> QED  BY <2>1, <2>2
<1> QED  BY <1>8, <1>11, <1>15 DEF e

\* Over the digits of a size: too many of them, none, or a bad one behind them refuse
\* the stream, and without anything behind them it goes on.
LEMMA SizeRun ==
  ASSUME stream \in Seq(Chars), NEW f, NEW t, RunsOver(f, t), NEW i \in 1 .. Len(stream) + 1,
         NEW o, Is(f[i - 1], "size", 0, 0, o)
  PROVE  LET e == SizeEnd(i) IN
         IF e - i \in 1 .. HexMax /\ e <= Len(stream) /\ stream[e] # "x"
         THEN Extends(f[e], stream[e], ChunkSize(i), o)
         ELSE Stops(f, e - i <= HexMax /\ e > Len(stream), o)
<1> DEFINE N == Len(stream)
           e == SizeEnd(i)
           v == ChunkSize(i)
<1>0. /\ N \in Nat /\ i \in Nat /\ i >= 1 /\ e \in Nat /\ i <= e /\ e <= N + 1 /\ HexMax \in Nat
      /\ e <= N => stream[e] \notin Digits
      /\ \A q \in i .. N : q < e => stream[q] \in Digits
  <2>1. /\ e \in Nat /\ i <= e /\ e <= N + 1 /\ (e <= N => stream[e] \in Chars \ Digits)
        /\ \A q \in i .. N : q < e => stream[q] \notin Chars \ Digits
    BY FirstAtIs DEF SizeEnd
  <2>2. \A q \in 1 .. N : stream[q] \in Chars  OBVIOUS
  <2>3. HexMax \in Nat  BY ChunkAssumption
  <2> QED  BY <2>1, <2>2, <2>3
<1>1. PICK g : /\ g[i - 1] = 0
               /\ \A p \in i .. e - 1 : g[p] = g[p - 1] * 16 + DecodeHex(stream[p])
               /\ v = g[e - 1]
  BY SizeUnfolds
<1> HIDE DEF e, v
<1> DEFINE S == {j \in Nat : j <= e - i /\ j <= HexMax =>
                               Is(f[i - 1 + j], "size", g[i - 1 + j], j, o)}
<1>2. 0 \in S  BY <1>0, <1>1
<1>3. ASSUME NEW j \in Nat, j \in S PROVE j + 1 \in S
  <2> SUFFICES ASSUME j + 1 <= e - i, j + 1 <= HexMax
               PROVE  Is(f[i - 1 + (j + 1)], "size", g[i - 1 + (j + 1)], j + 1, o)
    OBVIOUS
  <2> DEFINE p == i - 1 + (j + 1)
  <2>1. p \in i .. e - 1 /\ p \in 1 .. N /\ p \in i .. N /\ p < e /\ p - 1 = i - 1 + j /\ j <= e - i
        /\ j <= HexMax /\ j # HexMax
    BY <1>0
  <2> HIDE DEF p
  <2>2. Is(f[p - 1], "size", g[p - 1], j, o)  BY <1>3, <2>1
  <2>3. stream[p] \in Chars /\ f[p] = Consume(f[p - 1], stream[p]) /\ stream[p] \in Digits
    BY <1>0, <2>1, RunStep
  <2>4. Is(f[p], "size", g[p - 1] * 16 + DecodeHex(stream[p]), j + 1, o)
    BY <2>1, <2>2, <2>3, SizeByte
  <2>5. g[p] = g[p - 1] * 16 + DecodeHex(stream[p])  BY <1>1, <2>1
  <2>6. Is(f[p], "size", g[p], j + 1, o)  BY <2>4, <2>5
  <2> QED  BY <2>6 DEF p
<1> HIDE DEF S
<1>4. \A j \in Nat : j \in S  BY <1>2, <1>3, Induction
<1>5. CASE e - i > HexMax
  <2> DEFINE p == i + HexMax
  <2>1. HexMax \in S /\ HexMax <= e - i /\ p \in i .. N /\ p \in 1 .. N /\ p < e
        /\ i - 1 + HexMax = p - 1
    BY <1>0, <1>4, <1>5
  <2>2. Is(f[i - 1 + HexMax], "size", g[i - 1 + HexMax], HexMax, o)  BY <1>0, <2>1 DEF S
  <2> HIDE DEF p
  <2>3. stream[p] \in Chars /\ f[p] = Consume(f[p - 1], stream[p]) /\ stream[p] \in Digits
    BY <1>0, <2>1, RunStep
  <2>4. f[p].result = Bad  BY <2>1, <2>2, <2>3, SizeByte
  <2>5. f[N].result = Bad  BY <2>1, <2>4, RunRefused
  <2>6. ~(e - i \in 1 .. HexMax) /\ ~(e - i <= HexMax)  BY <1>0, <1>5
  <2> QED  BY <2>5, <2>6 DEF e, Stops
<1>6. CASE e - i <= HexMax
  <2> DEFINE h == e - i
  <2>1. h \in Nat /\ h <= e - i /\ i - 1 + h = e - 1  BY <1>0
  <2>2. Is(f[e - 1], "size", v, h, o)
    <3>1. h \in S  BY <1>4, <2>1
    <3> HIDE DEF h
    <3> QED  BY <1>1, <1>6, <2>1, <3>1 DEF S, h
  <2>3. CASE e > N
    <3>1. e - 1 = N  BY <1>0, <2>3
    <3>2. f[N].result = More /\ f[N].out = o  BY <2>2, <3>1 DEF Is
    <3> QED  BY <1>0, <1>6, <2>3, <3>2 DEF e, Stops
  <2>4. CASE e <= N
    <3>1. e \in 1 .. N  BY <1>0, <2>4
    <3>2. stream[e] \in Chars /\ f[e] = Consume(f[e - 1], stream[e]) /\ stream[e] \notin Digits
      BY <1>0, <2>4, <3>1, RunStep
    <3> HIDE DEF h
    <3>3. /\ h = 0 \/ stream[e] = "x" => f[e].result = Bad
          /\ h # 0 /\ stream[e] # "x" => Extends(f[e], stream[e], v, o)
      BY <2>2, <3>2, SizeByte
    <3>4. h = 0 \/ stream[e] = "x" => f[N].result = Bad
      BY <3>1, <3>3, RunRefused
    <3>5. h \in 1 .. HexMax <=> h # 0  BY <1>0, <1>6, <2>1 DEF h
    <3>6. ~(e > N)  BY <1>0, <2>4
    <3> QED  BY <2>4, <3>3, <3>4, <3>5, <3>6 DEF h, e, v, Stops
  <2> QED  BY <1>0, <2>3, <2>4
<1> QED  BY <1>0, <1>5, <1>6

\* Over what follows a size, up to the end g of its line.
LEMMA ExtRun ==
  ASSUME stream \in Seq(Chars), NEW f, NEW t, RunsOver(f, t), NEW e \in 1 .. Len(stream),
         NEW v, NEW o, Extends(f[e], stream[e], v, o),
         NEW g \in e .. Len(stream) + 1, g <= Len(stream) => stream[g] \in {"CR", "LF"},
         \A q \in e .. Len(stream) : q < g => stream[q] \notin {"CR", "LF"}
  PROVE  IF HasAt(g, "CR") /\ HasAt(g + 1, "LF")
         THEN Is(f[g], "size_lf", v, 0, o)
         ELSE Stops(f, g > Len(stream) \/ (g = Len(stream) /\ HasAt(g, "CR")), o)
<1> DEFINE N == Len(stream)
           S == {j \in Nat : e + j < g => Is(f[e + j], "ext", v, 0, o)}
<1>0. N \in Nat /\ e \in Nat /\ e >= 1 /\ g \in Nat /\ e <= g /\ g <= N + 1 /\ DOMAIN stream = 1 .. N
  OBVIOUS
<1>1. 0 \in S
  <2>1. e < g => stream[e] \notin {"CR", "LF"}  BY <1>0
  <2> QED  BY <1>0, <2>1 DEF Extends
<1>2. ASSUME NEW j \in Nat, j \in S PROVE j + 1 \in S
  <2> SUFFICES ASSUME e + (j + 1) < g PROVE Is(f[e + (j + 1)], "ext", v, 0, o)  OBVIOUS
  <2> DEFINE p == e + (j + 1)
  <2>1. p \in 1 .. N /\ p \in e .. N /\ p < g /\ p - 1 = e + j /\ e + j < g  BY <1>0
  <2> HIDE DEF p
  <2>2. Is(f[p - 1], "ext", v, 0, o)  BY <1>2, <2>1
  <2>3. stream[p] \in Chars /\ f[p] = Consume(f[p - 1], stream[p]) /\ stream[p] \notin {"CR", "LF"}
    BY <2>1, RunStep
  <2>4. Extends(f[p], stream[p], v, o)  BY <2>2, <2>3, ExtByte
  <2>5. Is(f[p], "ext", v, 0, o)  BY <2>3, <2>4 DEF Extends
  <2> QED  BY <2>5 DEF p
<1> HIDE DEF S
<1>3. \A j \in Nat : j \in S  BY <1>1, <1>2, Induction
<1>4. e < g => Is(f[g - 1], "ext", v, 0, o)
  <2> SUFFICES ASSUME e < g PROVE Is(f[g - 1], "ext", v, 0, o)  OBVIOUS
  <2> DEFINE j == g - 1 - e
  <2>1. j \in Nat /\ e + j = g - 1 /\ e + j < g  BY <1>0
  <2> HIDE DEF j
  <2> QED  BY <1>3, <2>1 DEF S
<1>5. CASE g = N + 1
  <2>1. e < g /\ g - 1 = N  BY <1>0, <1>5
  <2>2. f[N].result = More /\ f[N].out = o  BY <1>4, <2>1 DEF Is
  <2>3. ~HasAt(g, "CR") /\ g > N  BY <1>0, <1>5 DEF HasAt
  <2> QED  BY <2>2, <2>3 DEF Stops
<1>6. CASE g <= N
  <2>1. g \in 1 .. N  BY <1>0, <1>6
  <2>2. stream[g] \in Chars /\ f[g] = Consume(f[g - 1], stream[g]) /\ stream[g] \in {"CR", "LF"}
    BY <1>6, <2>1, RunStep
  <2>3. Extends(f[g], stream[g], v, o)
    <3>1. CASE e = g  BY <3>1
    <3>2. CASE e < g  BY <1>4, <2>2, <3>2, ExtByte
    <3> QED  BY <1>0, <3>1, <3>2
  <2>4. CASE stream[g] = "LF"
    <3>1. f[g].result = Bad  BY <2>3, <2>4 DEF Extends
    <3>2. f[N].result = Bad  BY <2>1, <3>1, RunRefused
    <3>3. ~HasAt(g, "CR") /\ ~(g > N)  BY <1>0, <1>6, <2>4 DEF HasAt
    <3> QED  BY <3>2, <3>3 DEF Stops
  <2>5. CASE stream[g] = "CR"
    <3>1. Is(f[g], "size_lf", v, 0, o)  BY <2>3, <2>5 DEF Extends
    <3>2. CASE g = N
      <4>1. f[N].result = More /\ f[N].out = o  BY <3>1, <3>2 DEF Is
      <4>2. ~HasAt(g + 1, "LF") /\ HasAt(g, "CR")  BY <1>0, <2>1, <2>5, <3>2 DEF HasAt
      <4> QED  BY <3>2, <4>1, <4>2 DEF Stops
    <3>3. CASE g < N
      <4> DEFINE p == g + 1
      <4>1. p \in 1 .. N /\ p - 1 = g  BY <1>0, <3>3
      <4> HIDE DEF p
      <4>2. stream[p] \in Chars /\ f[p] = Consume(f[p - 1], stream[p])  BY <4>1, RunStep
      <4>3. stream[p] # "LF" => f[p].result = Bad  BY <3>1, <4>1, <4>2, SizeLfByte
      <4>4. stream[p] # "LF" => f[N].result = Bad
        BY <4>1, <4>3, RunRefused
      <4>5. HasAt(p, "LF") <=> stream[p] = "LF"  BY <1>0, <4>1 DEF HasAt
      <4>6. HasAt(g, "CR")  BY <1>0, <2>1, <2>5 DEF HasAt
      <4>7. ~(g > N) /\ g # N
        <5> HIDE DEF N
        <5> QED  BY <1>0, <3>3
      <4> QED  BY <3>1, <4>4, <4>5, <4>6, <4>7 DEF p, Stops
    <3>4. g = N \/ g < N
      <4> HIDE DEF N
      <4> QED  BY <1>0, <1>6
    <3> QED  BY <3>2, <3>3, <3>4
  <2> QED  BY <2>2, <2>4, <2>5
<1>7. g = N + 1 \/ g <= N
  <2> HIDE DEF N
  <2> QED  BY <1>0
<1> QED  BY <1>5, <1>6, <1>7

\* What the loop has behind the size line of the chunk at i.
BehindSizeLine(f, t, i, o) ==
  LET v == ChunkSize(i)
      k == SizeLineEnd(i) + 1
  IN  IF i > Len(stream) \/ ~IsSizeLine(i) THEN Stops(f, MayBeSizeLine(i), o)
      ELSE /\ v \in Nat /\ k \in 1 .. Len(stream) /\ i < k
           /\ v # 0 => Is(f[k], "data", v, 0, o)
           /\ v = 0 /\ t => Is(f[k], "head", 0, 0, o)
           /\ v = 0 /\ ~t => f[k].result = Complete /\ f[k].out = o /\ f[k].rest = << >>

\* Over the size line of a chunk.
LEMMA SizeLineRun ==
  ASSUME stream \in Seq(Chars), NEW f, NEW t, RunsOver(f, t), NEW i \in 1 .. Len(stream) + 1,
         NEW o, Is(f[i - 1], "size", 0, 0, o)
  PROVE  BehindSizeLine(f, t, i, o)
<1> SUFFICES LET v == ChunkSize(i)
                 k == SizeLineEnd(i) + 1
             IN  IF i > Len(stream) \/ ~IsSizeLine(i) THEN Stops(f, MayBeSizeLine(i), o)
                 ELSE /\ v \in Nat /\ k \in 1 .. Len(stream) /\ i < k
                      /\ v # 0 => Is(f[k], "data", v, 0, o)
                      /\ v = 0 /\ t => Is(f[k], "head", 0, 0, o)
                      /\ v = 0 /\ ~t => f[k].result = Complete /\ f[k].out = o /\ f[k].rest = << >>
  BY DEF BehindSizeLine
<1> DEFINE N == Len(stream)
           e == SizeEnd(i)
           g == SizeLineEnd(i)
           v == ChunkSize(i)
           k == g + 1
           Long == e - i \in 1 .. HexMax /\ e <= N /\ stream[e] # "x"
<1>0. N \in Nat /\ i \in Nat /\ i >= 1 /\ i <= N + 1 /\ DOMAIN stream = 1 .. N /\ HexMax \in Nat
  BY ChunkAssumption
<1>1. /\ e \in Nat /\ i <= e /\ e <= N + 1
      /\ \A q \in i .. N : q < e => stream[q] \notin Chars \ Digits
  BY <1>0, FirstAtIs DEF SizeEnd
<1>2. /\ g \in Nat /\ i <= g /\ g <= N + 1 /\ (g <= N => stream[g] \in {"CR", "LF"})
      /\ \A q \in i .. N : q < g => stream[q] \notin {"CR", "LF"}
  BY <1>0, FirstAtIs DEF SizeLineEnd
<1>3. v \in Nat
  <2>1. i \in 0 .. Len(stream) + 1  BY <1>0
  <2>2. PICK h : /\ \A p \in i - 1 .. e - 1 : h[p] \in Nat
                 /\ v = h[e - 1]
    BY <2>1, SizeUnfolds
  <2> HIDE DEF e, v
  <2>3. e - 1 \in i - 1 .. e - 1  BY <1>0, <1>1
  <2> QED  BY <2>2, <2>3
<1>4. IF Long THEN Extends(f[e], stream[e], v, o) ELSE Stops(f, e - i <= HexMax /\ e > N, o)
  BY SizeRun
<1>5. IsSizeLine(i) <=> Long /\ HasAt(g, "CR") /\ HasAt(g + 1, "LF")
  BY DEF IsSizeLine
<1>may. MayBeSizeLine(i) <=>
          /\ e - i <= HexMax
          /\ e > N \/ (e > i /\ stream[e] # "x" /\ (g > N \/ (g = N /\ HasAt(g, "CR"))))
  BY DEF MayBeSizeLine
<1>sl. IsSizeLine(i) => i <= N
  <2> SUFFICES ASSUME IsSizeLine(i) PROVE i <= N  OBVIOUS
  <2>1. Long  BY <1>5
  <2> HIDE DEF e, N
  <2> QED  BY <1>0, <1>1, <2>1
<1> HIDE DEF e, g, v
<1>6. CASE ~Long
  <2>1. MayBeSizeLine(i) <=> e - i <= HexMax /\ e > N
    <3>1. e - i <= HexMax /\ e > i /\ e <= N /\ stream[e] # "x" => Long  BY <1>0, <1>1
    <3>2. e > N \/ e <= N  BY <1>0, <1>1
    <3> QED  BY <1>6, <1>may, <3>1, <3>2
  <2>2. ~IsSizeLine(i)  BY <1>5, <1>6
  <2>3. (e - i <= HexMax /\ e > N) = MayBeSizeLine(i)
    <3>1. MayBeSizeLine(i) \in BOOLEAN  BY DEF MayBeSizeLine
    <3> QED  BY <2>1, <3>1
  <2>4. Stops(f, MayBeSizeLine(i), o)  BY <1>4, <1>6, <2>3
  <2> QED  BY <2>2, <2>4
<1>7. CASE Long
  <2>1. e \in 1 .. N /\ i <= N  BY <1>0, <1>1, <1>7
  <2>2. e <= g
    <3> SUFFICES ASSUME g < e PROVE FALSE  BY <1>1, <1>2
    <3>1. g \in i .. N /\ g <= N  BY <1>0, <1>1, <1>2
    <3>2. stream[g] \notin Chars \ Digits  BY <1>1, <3>1
    <3>3. stream[g] \in {"CR", "LF"}  BY <1>2, <3>1
    <3> QED  BY <3>2, <3>3 DEF Chars, Digits
  <2>3. /\ g \in e .. N + 1
        /\ \A q \in e .. N : q < g => stream[q] \notin {"CR", "LF"}
    BY <1>0, <1>1, <1>2, <2>2
  <2>4. IF HasAt(g, "CR") /\ HasAt(g + 1, "LF") THEN Is(f[g], "size_lf", v, 0, o)
        ELSE Stops(f, g > N \/ (g = N /\ HasAt(g, "CR")), o)
    BY <1>2, <1>4, <1>7, <2>1, <2>3, ExtRun
  <2>5. CASE ~(HasAt(g, "CR") /\ HasAt(g + 1, "LF"))
    <3>1. e - i <= HexMax /\ ~(e > N) /\ e > i /\ stream[e] # "x"  BY <1>0, <1>1, <1>7
    <3>2. (g > N \/ (g = N /\ HasAt(g, "CR"))) = MayBeSizeLine(i)
      <4>1. MayBeSizeLine(i) \in BOOLEAN  BY DEF MayBeSizeLine
      <4> QED  BY <1>may, <3>1, <4>1
    <3>3. ~IsSizeLine(i)  BY <1>5, <2>5
    <3>4. Stops(f, MayBeSizeLine(i), o)  BY <2>4, <2>5, <3>2
    <3> QED  BY <3>3, <3>4
  <2>6. CASE HasAt(g, "CR") /\ HasAt(g + 1, "LF")
    <3>1. k \in 1 .. N /\ k - 1 = g /\ i < k /\ stream[k] = "LF"
      BY <1>0, <1>2, <2>6 DEF HasAt
    <3>2. IsSizeLine(i)  BY <1>5, <1>7, <2>6
    <3> HIDE DEF k
    <3>3. /\ stream[k] \in Chars /\ f[k] = Consume(f[k - 1], stream[k]) /\ f[k - 1].decoder.trailer = t
      BY <3>1, RunStep
    <3>4. Is(f[k - 1], "size_lf", v, 0, o)  BY <2>4, <2>6, <3>1
    <3> DEFINE a == f[k - 1]
               c == stream[k]
               b == Consume(a, c)
    <3>5. /\ c \in Chars /\ c = "LF" /\ a.decoder.trailer = t /\ Is(a, "size_lf", v, 0, o)
      BY <3>1, <3>3, <3>4
    <3> HIDE DEF a, c
    <3>6. /\ c = "LF" /\ v # 0 => Is(b, "data", v, 0, o)
          /\ c = "LF" /\ v = 0 /\ a.decoder.trailer => Is(b, "head", 0, 0, o)
          /\ c = "LF" /\ v = 0 /\ ~a.decoder.trailer =>
               b.result = Complete /\ b.out = o /\ b.rest = << >>
      BY <3>5, SizeLfByte
    <3>7. f[k] = b  BY <3>3 DEF a, c
    <3> HIDE DEF b
    <3> QED  BY <1>0, <1>3, <2>1, <3>1, <3>2, <3>5, <3>6, <3>7 DEF k, g, v
  <2> QED  BY <2>5, <2>6
<1> QED  BY <1>6, <1>7

\* A part of the stream with its next byte.
LEMMA PartNext ==
  ASSUME stream \in Seq(Chars), NEW b \in 1 .. Len(stream), NEW m \in b .. Len(stream)
  PROVE  /\ SubSeq(stream, b, m - 1) \in Seq(Chars) /\ SubSeq(stream, b, m) \in Seq(Chars)
         /\ SubSeq(stream, b, m) = SubSeq(stream, b, m - 1) \o <<stream[m]>>
<1> DEFINE n == m - 1
<1>0. b \in Int /\ n \in Int /\ m \in Int /\ (\A q \in b .. n : stream[q] \in Chars)
      /\ (\A q \in b .. m : stream[q] \in Chars)
  OBVIOUS
<1>1. SubSeq(stream, b, m) = SubSeq(stream, b, m - 1) \o <<stream[m]>>  BY SubSeqRecursiveSecond
<1>2. SubSeq(stream, b, m) \in Seq(Chars)  BY <1>0, SubSeqProperties
<1> HIDE DEF n
<1>3. SubSeq(stream, b, n) \in Seq(Chars)  BY <1>0, SubSeqProperties
<1> QED  BY <1>1, <1>2, <1>3 DEF n

\* Data, one part behind the other.
Joined(x, y) == x \o y

\* The parts may be joined in any order.
LEMMA JoinedIs ==
  ASSUME NEW x, NEW y, NEW z, x \in Seq(Chars), y \in Seq(Chars), z \in Seq(Chars)
  PROVE  Joined(Joined(x, y), z) = Joined(x, Joined(y, z))
<1>1. (x \o y) \o z = x \o (y \o z)  BY ConcatAssociative
<1> QED  BY <1>1 DEF Joined

\* Over the data of a chunk and the end of its line.
LEMMA DataRun ==
  ASSUME stream \in Seq(Chars), NEW f, NEW t, RunsOver(f, t), NEW k \in 1 .. Len(stream),
         NEW v \in Nat \ {0}, NEW o \in Seq(Chars), Is(f[k], "data", v, 0, o)
  PROVE  LET b == k + 1 IN
         IF HasAt(b + v, "CR") /\ HasAt(b + v + 1, "LF")
         THEN /\ SubSeq(stream, b, b + v - 1) \in Seq(Chars)
              /\ Is(f[b + v + 1], "size", 0, 0, o \o SubSeq(stream, b, b + v - 1))
         ELSE Stops(f, b + v > Len(stream) \/ (b + v = Len(stream) /\ HasAt(b + v, "CR")),
                    o \o SubSeq(stream, b, IF b + v > Len(stream) THEN Len(stream) ELSE b + v - 1))
<1> DEFINE N == Len(stream)
           St(j) == IF j = v THEN "data_cr" ELSE "data"
           Data(j) == o \o SubSeq(stream, k + 1, k + j)
           S == {j \in Nat : j <= v /\ k + j <= N => Is(f[k + j], St(j), v - j, 0, Data(j))}
<1>0. /\ N \in Nat /\ k \in Nat /\ k >= 1 /\ k <= N /\ DOMAIN stream = 1 .. N
      /\ v \in Nat /\ v # 0
  OBVIOUS
<1>1. 0 \in S
  <2>1. SubSeq(stream, k + 1, k) = << >>
    <3> DEFINE m == k + 1
    <3>1. m \in Int /\ k \in Int /\ k < m  BY <1>0
    <3> HIDE DEF m
    <3>2. SubSeq(stream, m, k) = << >>  BY <3>1, SubSeqEmpty
    <3> QED  BY <3>2 DEF m
  <2>2. k + 0 = k /\ v - 0 = v /\ St(0) = "data"  BY <1>0
  <2>3. Data(0) = o
    <3>1. o \o << >> = o  BY ConcatEmptySeq
    <3> QED  BY <2>1, <2>2, <3>1
  <2> HIDE DEF Data, St
  <2> QED  BY <2>2, <2>3
<1>2. ASSUME NEW j \in Nat, j \in S PROVE j + 1 \in S
  <2> SUFFICES ASSUME j + 1 <= v, k + (j + 1) <= N
               PROVE  Is(f[k + (j + 1)], St(j + 1), v - (j + 1), 0, Data(j + 1))
    OBVIOUS
  <2> DEFINE p == k + (j + 1)
  <2>1. /\ p \in 1 .. N /\ p - 1 = k + j /\ j <= v /\ k + j <= N /\ j # v
        /\ k + 1 \in 1 .. N /\ p \in k + 1 .. N
    BY <1>0
  <2>2. Is(f[k + j], "data", v - j, 0, Data(j))  BY <1>2, <2>1
  <2>3. Data(j + 1) = Data(j) \o <<stream[p]>>
    <3> DEFINE x == SubSeq(stream, k + 1, k + j)
               y == <<stream[p]>>
               b == k + 1
    <3>1. b \in 1 .. Len(stream) /\ p \in b .. Len(stream)  BY <2>1
    <3> HIDE DEF p, b
    <3>2. /\ SubSeq(stream, b, p - 1) \in Seq(Chars)
          /\ SubSeq(stream, b, p) = SubSeq(stream, b, p - 1) \o <<stream[p]>>
      BY <3>1, PartNext
    <3>0. SubSeq(stream, k + 1, p) = x \o y  BY <2>1, <3>2 DEF b
    <3>3. o \in Seq(Chars) /\ x \in Seq(Chars) /\ y \in Seq(Chars)
      BY <2>1, <3>2 DEF b
    <3> HIDE DEF x, y, Data, S, St
    <3>7. Joined(Joined(o, x), y) = Joined(o, Joined(x, y))  BY <3>3, JoinedIs
    <3>4. (o \o x) \o y = o \o (x \o y)  BY <3>7 DEF Joined
    <3>5. Data(j + 1) = o \o SubSeq(stream, k + 1, p)  BY DEF p, Data
    <3>6. Data(j) = o \o x  BY DEF x, Data
    <3> QED  BY <3>0, <3>4, <3>5, <3>6 DEF y
  <2>4. v - j - 1 = v - (j + 1) /\ (v - j = 1 <=> j + 1 = v)  BY <1>0
  <2> DEFINE z == Data(j)
  <2> HIDE DEF p, z
  <2>5. stream[p] \in Chars /\ f[p] = Consume(f[p - 1], stream[p])  BY <2>1, RunStep
  <2>6. Is(f[p - 1], "data", v - j, 0, z)  BY <2>1, <2>2 DEF z
  <2>7. Is(f[p], IF v - j = 1 THEN "data_cr" ELSE "data", v - j - 1, 0, z \o <<stream[p]>>)
    BY <2>5, <2>6, DataByte
  <2>8. Is(f[p], St(j + 1), v - (j + 1), 0, z \o <<stream[p]>>)  BY <2>4, <2>7
  <2> QED  BY <2>3, <2>8 DEF p, z
<1> HIDE DEF S
<1>3. \A j \in Nat : j \in S  BY <1>1, <1>2, Induction
<1>4. CASE N < k + v
  <2> DEFINE j == N - k
  <2>1. j \in Nat /\ j <= v /\ k + j = N /\ j # v
    <3> HIDE DEF N
    <3> QED  BY <1>0, <1>4
  <2> HIDE DEF j
  <2>2. Is(f[k + j], St(j), v - j, 0, Data(j))  BY <1>0, <1>3, <2>1 DEF S
  <2>3. f[k + j].result = More /\ f[k + j].out = o \o SubSeq(stream, k + 1, k + j)
    BY <2>2 DEF Is
  <2>5. f[N].result = More /\ f[N].out = o \o SubSeq(stream, k + 1, N)
    <3> HIDE DEF N
    <3> QED  BY <2>1, <2>3
  <2>4. ~HasAt(k + 1 + v, "CR") /\ k + 1 + v > N
    <3>1. ~(k + 1 + v \in 1 .. N) /\ k + 1 + v > N  BY <1>0, <1>4
    <3> QED  BY <1>0, <3>1 DEF HasAt
  <2> QED  BY <2>4, <2>5 DEF Stops
<1>5. CASE k + v <= N
  <2> DEFINE z == Data(v)
             p == k + 1 + v
  <2>0. Is(f[k + v], "data_cr", 0, 0, z)
    <3>1. Is(f[k + v], St(v), v - v, 0, Data(v))  BY <1>0, <1>3, <1>5 DEF S
    <3>2. v - v = 0  BY <1>0
    <3> QED  BY <3>1, <3>2
  <2>1. SubSeq(stream, k + 1, k + v) \in Seq(Chars)
    <3> DEFINE b == k + 1
               m == k + v
    <3>1. b \in 1 .. Len(stream) /\ m \in b .. Len(stream)  BY <1>0, <1>5
    <3> HIDE DEF b, m
    <3> QED  BY <3>1, PartNext DEF b, m
  <2>2. k + 1 + v - 1 = k + v  BY <1>0
  <2>3. z = o \o SubSeq(stream, k + 1, k + 1 + v - 1)  BY <2>2
  <2>4. p - 1 = k + v /\ p + 1 - 1 = p  BY <1>0
  <2> HIDE DEF z, p
  <2>5. CASE p > N
    <3>1. N = k + v
      <4> HIDE DEF N
      <4> QED  BY <1>0, <1>5, <2>5 DEF p
    <3>2. f[N].result = More /\ f[N].out = z  BY <2>0, <3>1 DEF Is
    <3>3. ~HasAt(p, "CR")  BY <1>0, <2>5 DEF HasAt
    <3>4. z = o \o SubSeq(stream, k + 1, N)  BY <2>2, <2>3, <3>1
    <3> QED  BY <2>5, <3>2, <3>3, <3>4 DEF p, Stops
  <2>6. CASE p <= N
    <3>1. p \in 1 .. N  BY <1>0, <2>6 DEF p
    <3>2. stream[p] \in Chars /\ f[p] = Consume(f[p - 1], stream[p])  BY <3>1, RunStep
    <3>3. IF stream[p] = "CR" THEN Is(f[p], "data_lf", 0, 0, z) ELSE f[p].result = Bad
      BY <2>0, <2>4, <3>2, DataEndByte
    <3>4. HasAt(p, "CR") <=> stream[p] = "CR"  BY <1>0, <3>1 DEF HasAt
    <3>5. CASE stream[p] # "CR"
      <4>1. f[N].result = Bad  BY <3>1, <3>3, <3>5, RunRefused
      <4>2. ~(p > N)  BY <3>1
      <4> QED  BY <3>4, <3>5, <4>1, <4>2 DEF p, Stops
    <3>6. CASE stream[p] = "CR"
      <4> DEFINE q == p + 1
      <4>1. q - 1 = p /\ p \in Nat  BY <2>4, <3>1
      <4> HIDE DEF q
      <4>2. CASE q > N
        <5>1. N = p
          <6> HIDE DEF N
          <6> QED  BY <1>0, <2>6, <4>1, <4>2 DEF q
        <5>2. f[N].result = More /\ f[N].out = z  BY <3>3, <3>6, <5>1 DEF Is
        <5>3. ~HasAt(q, "LF") /\ HasAt(p, "CR") /\ ~(p > N)  BY <1>0, <3>1, <3>4, <3>6, <4>2 DEF HasAt
        <5> QED  BY <2>3, <5>1, <5>2, <5>3 DEF p, q, Stops
      <4>3. CASE q <= N
        <5>1. q \in 1 .. N  BY <1>0, <4>1, <4>3 DEF q
        <5>2. stream[q] \in Chars /\ f[q] = Consume(f[q - 1], stream[q])  BY <5>1, RunStep
        <5>3. IF stream[q] = "LF" THEN Is(f[q], "size", 0, 0, z) ELSE f[q].result = Bad
          BY <3>3, <3>6, <4>1, <5>2, DataEndByte
        <5>4. HasAt(q, "LF") <=> stream[q] = "LF"  BY <1>0, <5>1 DEF HasAt
        <5>5. stream[q] # "LF" => f[N].result = Bad
          BY <5>1, <5>3, RunRefused
        <5>6. IF HasAt(p, "CR") /\ HasAt(q, "LF") THEN Is(f[q], "size", 0, 0, z)
              ELSE f[N].result = Bad
          BY <3>4, <3>6, <5>3, <5>4, <5>5
        <5>7. ~(p > N) /\ p # N
          <6> HIDE DEF N
          <6>1. p < q  BY <4>1 DEF q
          <6> QED  BY <1>0, <3>1, <4>1, <4>3, <5>1, <6>1
        <5> QED  BY <2>1, <2>2, <2>3, <5>6, <5>7 DEF p, q, Stops
      <4>4. q \in Nat  BY <4>1 DEF q
      <4>5. q > N \/ q <= N
        <5> HIDE DEF N
        <5> QED  BY <1>0, <4>4
      <4> QED  BY <4>2, <4>3, <4>5
    <3> QED  BY <3>5, <3>6
  <2>7. p \in Nat  BY <1>0 DEF p
  <2>8. p > N \/ p <= N
    <3> HIDE DEF N
    <3> QED  BY <1>0, <2>7
  <2> QED  BY <2>5, <2>6, <2>8
<1>6. N < k + v \/ k + v <= N
  <2> HIDE DEF N
  <2> QED  BY <1>0
<1> QED  BY <1>4, <1>5, <1>6

\* Everything from the beginning of a line up to k is a carriage return.
Blank(b, k) ==
  \E q \in b .. k + 1 : /\ q = b \/ stream[q - 1] = "LF"
                        /\ \A r \in q .. k : stream[r] = "CR"

\* A byte further.
LEMMA BlankNext ==
  ASSUME stream \in Seq(Chars), NEW b \in 1 .. Len(stream) + 1, NEW k \in b .. Len(stream)
  PROVE  /\ stream[k] = "CR" => (Blank(b, k) <=> Blank(b, k - 1))
         /\ stream[k] = "LF" => Blank(b, k)
         /\ stream[k] \notin {"CR", "LF"} => ~Blank(b, k)
<1>0. b \in Nat /\ k \in Nat /\ b >= 1 /\ b <= k /\ k - 1 + 1 = k  OBVIOUS
<1>1. ASSUME stream[k] = "CR", Blank(b, k) PROVE Blank(b, k - 1)
  <2>1. PICK q \in b .. k + 1 : /\ q = b \/ stream[q - 1] = "LF"
                                /\ \A r \in q .. k : stream[r] = "CR"
    BY <1>1 DEF Blank
  <2>2. q # k + 1
    <3> SUFFICES ASSUME q = k + 1 PROVE FALSE  OBVIOUS
    <3>1. q # b /\ q - 1 = k  BY <1>0
    <3>2. stream[k] = "LF"  BY <2>1, <3>1
    <3> QED  BY <1>1, <3>2
  <2>3. q \in b .. k - 1 + 1 /\ \A r \in q .. k - 1 : r \in q .. k  BY <1>0, <2>2
  <2> QED  BY <2>1, <2>3 DEF Blank
<1>2. ASSUME stream[k] = "CR", Blank(b, k - 1) PROVE Blank(b, k)
  <2>1. PICK q \in b .. k - 1 + 1 : /\ q = b \/ stream[q - 1] = "LF"
                                    /\ \A r \in q .. k - 1 : stream[r] = "CR"
    BY <1>2 DEF Blank
  <2>2. q \in b .. k + 1 /\ \A r \in q .. k : r \in q .. k - 1 \/ r = k  BY <1>0
  <2>3. \A r \in q .. k : stream[r] = "CR"  BY <1>2, <2>1, <2>2
  <2> QED  BY <2>1, <2>2, <2>3 DEF Blank
<1>3. ASSUME stream[k] = "LF" PROVE Blank(b, k)
  <2> DEFINE q == k + 1
  <2>1. q \in b .. k + 1 /\ q - 1 = k /\ \A r \in q .. k : FALSE  BY <1>0
  <2> HIDE DEF q
  <2>2. stream[q - 1] = "LF"  BY <1>3, <2>1
  <2> QED  BY <2>1, <2>2 DEF Blank
<1>4. ASSUME stream[k] \notin {"CR", "LF"}, Blank(b, k) PROVE FALSE
  <2>1. PICK q \in b .. k + 1 : /\ q = b \/ stream[q - 1] = "LF"
                                /\ \A r \in q .. k : stream[r] = "CR"
    BY <1>4 DEF Blank
  <2>2. CASE q = k + 1
    <3>1. q # b /\ q - 1 = k  BY <1>0, <2>2
    <3>2. stream[k] = "LF"  BY <2>1, <3>1
    <3> QED  BY <1>4, <3>2
  <2>3. CASE q # k + 1
    <3>1. k \in q .. k  BY <1>0, <2>3
    <3>2. stream[k] = "CR"  BY <2>1, <3>1
    <3> QED  BY <1>4, <3>2
  <2> QED  BY <2>2, <2>3
<1> QED  BY <1>1, <1>2, <1>3, <1>4

\* Over the trailer of a body: it ends with its first empty line.
LEMMA TrailerRun ==
  ASSUME stream \in Seq(Chars), NEW f, NEW t, RunsOver(f, t), NEW k \in 1 .. Len(stream),
         NEW o, Is(f[k], "head", 0, 0, o)
  PROVE  LET p == TrailerEnd(k + 1) IN
         IF p > Len(stream) THEN p = Len(stream) + 1 /\ Stops(f, TRUE, o)
         ELSE /\ p \in k + 1 .. Len(stream)
              /\ f[p].result = Complete /\ f[p].out = o /\ f[p].rest = << >>
<1> DEFINE N == Len(stream)
           b == k + 1
           T == {p \in b .. N : stream[p] = "LF" /\ Blank(b, p - 1)}
           p == TrailerEnd(b)
           St(m) == IF Blank(b, m) THEN "head" ELSE "middle"
           S == {j \in Nat : k + j <= N /\ (\A q \in T : k + j < q) =>
                               Is(f[k + j], St(k + j), 0, 0, o)}
<1>0. N \in Nat /\ k \in Nat /\ k >= 1 /\ k <= N /\ b = k + 1 /\ b \in 1 .. Len(stream) + 1
  OBVIOUS
<1>1. p = LeastOr(T, N + 1)
  <2>1. ASSUME NEW q \in b .. N
        PROVE  Blank(b, q - 1) <=> \E y \in b .. q : /\ y = b \/ stream[y - 1] = "LF"
                                                    /\ \A r \in y .. q - 1 : stream[r] = "CR"
    <3>1. q - 1 + 1 = q  BY <1>0
    <3> QED  BY <3>1 DEF Blank
  <2>2. T = {q \in b .. N : /\ stream[q] = "LF"
                            /\ \E y \in b .. q : /\ y = b \/ stream[y - 1] = "LF"
                                                 /\ \A r \in y .. q - 1 : stream[r] = "CR"}
    BY <2>1
  <2> QED  BY <2>2 DEF TrailerEnd
<1>2. T \in SUBSET Nat /\ T \subseteq b .. N  BY <1>0
<1>3. /\ T = {} => p = N + 1
      /\ T # {} => p \in T /\ \A q \in T : p <= q
  <2> DEFINE x == N + 1
  <2> HIDE DEF T, x, p
  <2>1. p = LeastOr(T, x)  BY <1>1 DEF x
  <2>2. /\ T = {} => p = x
        /\ T # {} => p \in T /\ \A q \in T : p <= q
    BY <1>2, <2>1, LeastOrIs
  <2> QED  BY <2>2 DEF x
<1>in. \A q : q \in T <=> q \in b .. N /\ stream[q] = "LF" /\ Blank(b, q - 1)  OBVIOUS
<1> HIDE DEF p, T, b
<1>4. 0 \in S
  <2>1. Blank(b, k)
    <3>1. b \in b .. k + 1 /\ \A r \in b .. k : FALSE  BY <1>0
    <3> QED  BY <3>1 DEF Blank
  <2>2. k + 0 = k  BY <1>0
  <2> QED  BY <2>1, <2>2
<1>5. ASSUME NEW j \in Nat, j \in S PROVE j + 1 \in S
  <2> SUFFICES ASSUME k + (j + 1) <= N, \A q \in T : k + (j + 1) < q
               PROVE  Is(f[k + (j + 1)], St(k + (j + 1)), 0, 0, o)
    OBVIOUS
  <2> DEFINE m == k + (j + 1)
  <2>1. m \in 1 .. N /\ m \in b .. N /\ m - 1 = k + j /\ k + j <= N /\ k + j < m  BY <1>0
  <2>2. \A q \in T : k + j < q
    <3> SUFFICES ASSUME NEW q \in T PROVE k + j < q  OBVIOUS
    <3>1. q \in Nat /\ m < q  BY <1>2
    <3> QED  BY <2>1, <3>1
  <2>3. Is(f[k + j], St(k + j), 0, 0, o)  BY <1>5, <2>1, <2>2
  <2>4. m \notin T
    <3> SUFFICES ASSUME m \in T PROVE FALSE  OBVIOUS
    <3>1. m < m /\ m \in Nat  BY <1>0
    <3> QED  BY <3>1
  <2> HIDE DEF m, S
  <2>5. stream[m] \in Chars /\ f[m] = Consume(f[m - 1], stream[m])  BY <2>1, RunStep
  <2>6. /\ stream[m] = "CR" => (Blank(b, m) <=> Blank(b, m - 1))
        /\ stream[m] = "LF" => Blank(b, m)
        /\ stream[m] \notin {"CR", "LF"} => ~Blank(b, m)
    BY <1>0, <2>1, BlankNext
  <2>7. stream[m] = "LF" => ~Blank(b, m - 1)  BY <1>in, <2>1, <2>4
  <2>8. CASE Blank(b, m - 1)
    <3>1. Is(f[m - 1], "head", 0, 0, o)  BY <2>1, <2>3, <2>8
    <3>2. /\ stream[m] = "CR" => Is(f[m], "head", 0, 0, o)
          /\ stream[m] \notin {"CR", "LF"} => Is(f[m], "middle", 0, 0, o)
      BY <2>5, <3>1, TrailerByte
    <3> QED  BY <2>6, <2>7, <2>8, <3>2 DEF m
  <2>9. CASE ~Blank(b, m - 1)
    <3>1. Is(f[m - 1], "middle", 0, 0, o)  BY <2>1, <2>3, <2>9
    <3>2. Is(f[m], IF stream[m] = "LF" THEN "head" ELSE "middle", 0, 0, o)
      BY <2>5, <3>1, TrailerByte
    <3> QED  BY <2>6, <2>9, <3>2 DEF m
  <2> QED  BY <2>8, <2>9
<1> HIDE DEF S
<1>6. \A j \in Nat : j \in S  BY <1>4, <1>5, Induction
<1>7. ASSUME NEW m \in k .. N, \A q \in T : m < q PROVE Is(f[m], St(m), 0, 0, o)
  <2> DEFINE j == m - k
  <2>1. j \in Nat /\ k + j = m /\ m <= N  BY <1>0
  <2> HIDE DEF j, St
  <2> QED  BY <1>6, <1>7, <2>1 DEF S
<1>8. CASE T = {}
  <2>1. N \in k .. N  BY <1>0
  <2>2. Is(f[N], St(N), 0, 0, o)  BY <1>7, <1>8, <2>1
  <2>3. f[N].result = More /\ f[N].out = o  BY <2>2 DEF Is
  <2>4. p > N /\ p = N + 1  BY <1>0, <1>3, <1>8
  <2> QED  BY <2>3, <2>4 DEF p, b, Stops
<1>9. CASE T # {}
  <2> DEFINE m == p - 1
  <2>1. p \in T /\ (\A q \in T : p <= q) /\ p \in b .. N /\ stream[p] = "LF" /\ Blank(b, p - 1)
    BY <1>in, <1>3, <1>9
  <2>2. p \in Nat /\ p \in 1 .. N /\ m \in k .. N /\ m < p /\ p \in k + 1 .. N /\ ~(p > N)  BY <1>0, <2>1
  <2>3. \A q \in T : m < q
    <3> SUFFICES ASSUME NEW q \in T PROVE m < q  OBVIOUS
    <3>1. q \in Nat /\ p <= q  BY <1>2, <2>1
    <3> QED  BY <2>2, <3>1
  <2>4. Is(f[p - 1], "head", 0, 0, o)  BY <1>7, <2>1, <2>2, <2>3
  <2>5. stream[p] \in Chars /\ f[p] = Consume(f[p - 1], stream[p])  BY <2>2, RunStep
  <2> DEFINE a == f[p - 1]
             c == stream[p]
             w == Consume(a, c)
  <2>6. c \in Chars /\ c = "LF" /\ Is(a, "head", 0, 0, o) /\ f[p] = w  BY <2>1, <2>4, <2>5
  <2> HIDE DEF a, c
  <2>7. c = "LF" => w.result = Complete /\ w.out = o /\ w.rest = << >>
    BY <2>6, TrailerByte
  <2> HIDE DEF w
  <2>8. f[p].result = Complete /\ f[p].out = o /\ f[p].rest = << >>  BY <2>6, <2>7
  <2> QED  BY <2>2, <2>8 DEF p, b
<1> QED  BY <1>8, <1>9

\* The data of a body from a chunk on, and its end.
BodyType == [data : Seq(Chars), end : Nat]

\* What there is of a chunk that begins at b, and whether it can still go on.
Partial(b, v) == SubSeq(stream, b, IF b + v > Len(stream) THEN Len(stream) ELSE b + v - 1)
MayEnd(b, v) == b + v > Len(stream) \/ (b + v = Len(stream) /\ HasAt(b + v, "CR"))

\* What the grammar says at the chunk i of the function it is defined by.
FromChunk(i, g) ==
  LET v == ChunkSize(i)
      b == SizeLineEnd(i) + 2
  IN  IF i > Len(stream) \/ ~IsSizeLine(i) THEN Unended(<< >>, MayBeSizeLine(i))
      ELSE IF v = 0 /\ ~decoder.trailer THEN [data |-> << >>, end |-> b - 1]
      ELSE IF v = 0 THEN [data |-> << >>, end |-> TrailerEnd(b)]
      ELSE IF ~HasAt(b + v, "CR") \/ ~HasAt(b + v + 1, "LF") THEN
        Unended(Partial(b, v), MayEnd(b, v))
      ELSE [g[b + v + 2] EXCEPT !.data = SubSeq(stream, b, b + v - 1) \o @]

\* The numbers it computes with.
LEMMA ChunkNumbers ==
  ASSUME stream \in Seq(Chars), NEW i \in Nat, i <= Len(stream)
  PROVE  LET v == ChunkSize(i)
             b == SizeLineEnd(i) + 2
         IN  /\ v \in Nat /\ b \in Nat /\ b >= i + 2 /\ b >= 2
             /\ TrailerEnd(b) \in Nat
             /\ HasAt(b + v, "CR") => SubSeq(stream, b, b + v - 1) \in Seq(Chars)
             /\ Partial(b, v) \in Seq(Chars)
<1> DEFINE N == Len(stream)
           v == ChunkSize(i)
           e == SizeEnd(i)
           g == SizeLineEnd(i)
           b == g + 2
<1>0. N \in Nat /\ i <= N + 1 /\ i \in 0 .. N + 1 /\ DOMAIN stream = 1 .. N  OBVIOUS
<1>1. e \in Nat /\ i <= e  BY <1>0, FirstAtIs DEF SizeEnd
<1>2. g \in Nat /\ i <= g  BY <1>0, FirstAtIs DEF SizeLineEnd
<1>3. v \in Nat
  <2>1. PICK h : (\A p \in i - 1 .. e - 1 : h[p] \in Nat) /\ v = h[e - 1]
    BY <1>0, SizeUnfolds
  <2> HIDE DEF e, v
  <2>2. e - 1 \in i - 1 .. e - 1  BY <1>0, <1>1
  <2> QED  BY <2>1, <2>2
<1> HIDE DEF g, v
<1>4. b \in Nat /\ b >= i + 2 /\ b >= 2  BY <1>2
<1> HIDE DEF b
<1>5. TrailerEnd(b) \in Nat
  <2> DEFINE T == {p \in b .. N : /\ stream[p] = "LF"
                                  /\ \E q \in b .. p : /\ q = b \/ stream[q - 1] = "LF"
                                                       /\ \A r \in q .. p - 1 : stream[r] = "CR"}
             x == N + 1
  <2>1. T \in SUBSET Nat /\ x \in Nat  BY <1>0, <1>4
  <2>2. TrailerEnd(b) = LeastOr(T, x)  BY DEF TrailerEnd
  <2> HIDE DEF T, x
  <2>3. LeastOr(T, x) \in Nat  BY <2>1, LeastOrIs
  <2> QED  BY <2>2, <2>3
<1>6. HasAt(b + v, "CR") => SubSeq(stream, b, b + v - 1) \in Seq(Chars)
  <2> SUFFICES ASSUME HasAt(b + v, "CR") PROVE SubSeq(stream, b, b + v - 1) \in Seq(Chars)
    OBVIOUS
  <2> DEFINE m == b + v - 1
  <2>1. b + v \in 1 .. N  BY <1>0 DEF HasAt
  <2>2. b \in Int /\ m \in Int /\ \A q \in b .. m : stream[q] \in Chars
    <3>1. m \in Int /\ m <= N  BY <1>0, <1>3, <1>4, <2>1
    <3> HIDE DEF m
    <3>2. \A q \in b .. m : q \in 1 .. N  BY <1>0, <1>4, <3>1
    <3> QED  BY <1>4, <3>1, <3>2
  <2> HIDE DEF m
  <2>3. SubSeq(stream, b, m) \in Seq(Chars)  BY <2>2, SubSeqProperties
  <2> QED  BY <2>3 DEF m
<1>7. Partial(b, v) \in Seq(Chars)
  <2> DEFINE m == IF b + v > N THEN N ELSE b + v - 1
  <2>1. m \in Int /\ m <= N
    <3> HIDE DEF N
    <3> QED  BY <1>0, <1>3, <1>4
  <2> HIDE DEF m
  <2>2. b \in Int /\ m \in Int /\ \A q \in b .. m : stream[q] \in Chars
    <3>1. \A q \in b .. m : q \in 1 .. N
      <4> HIDE DEF N
      <4> QED  BY <1>0, <1>4, <2>1
    <3> QED  BY <1>4, <2>1, <3>1
  <2>3. SubSeq(stream, b, m) \in Seq(Chars)  BY <2>2, SubSeqProperties
  <2> QED  BY <2>3 DEF m, Partial
<1> QED  BY <1>3, <1>4, <1>5, <1>6, <1>7 DEF b, g, v

\* A body that is not at its end.
LEMMA UnendedType ==
  ASSUME stream \in Seq(Chars), NEW x \in Seq(Chars), NEW more
  PROVE  Unended(x, more) \in BodyType
<1> DEFINE n == IF more THEN Len(stream) + 1 ELSE 0
<1>1. n \in Nat  OBVIOUS
<1>2. Unended(x, more) = [data |-> x, end |-> n]  BY DEF Unended
<1> HIDE DEF n
<1> QED  BY <1>1, <1>2 DEF BodyType

\* The grammar, as what a recursive function that exists computes.
LEMMA BodyUnfolds ==
  ASSUME stream \in Seq(Chars)
  PROVE  \E g : /\ \A i \in Nat : g[i] \in BodyType /\ g[i] = FromChunk(i, g)
                /\ Body = g[1]
<1> DEFINE N == Len(stream)
           G == [q \in Nat \X [Nat -> BodyType] |-> FromChunk(q[1], q[2])]
           rank == [i \in Nat |-> IF i <= N THEN N + 1 - i ELSE 0]
<1>0. N \in Nat /\ << >> \in Seq(Chars)  OBVIOUS
<1>1. rank \in [Nat -> Nat] /\ BodyType # {}
  <2>1. [data |-> << >>, end |-> 0] \in BodyType  BY DEF BodyType
  <2> QED  BY <1>0, <2>1
<1>2. G \in [Nat \X [Nat -> BodyType] -> BodyType]
  <2> SUFFICES ASSUME NEW i \in Nat, NEW f \in [Nat -> BodyType] PROVE FromChunk(i, f) \in BodyType
    OBVIOUS
  <2> DEFINE v == ChunkSize(i)
             b == SizeLineEnd(i) + 2
             x == SubSeq(stream, b, b + v - 1)
  <2>1. i <= N => /\ v \in Nat /\ b \in Nat /\ b >= 2 /\ TrailerEnd(b) \in Nat
                  /\ HasAt(b + v, "CR") => x \in Seq(Chars)
                  /\ Partial(b, v) \in Seq(Chars)
    BY ChunkNumbers
  <2>2. FromChunk(i, f) =
          IF i > N \/ ~IsSizeLine(i) THEN Unended(<< >>, MayBeSizeLine(i))
          ELSE IF v = 0 /\ ~decoder.trailer THEN [data |-> << >>, end |-> b - 1]
          ELSE IF v = 0 THEN [data |-> << >>, end |-> TrailerEnd(b)]
          ELSE IF ~HasAt(b + v, "CR") \/ ~HasAt(b + v + 1, "LF") THEN
            Unended(Partial(b, v), MayEnd(b, v))
          ELSE [f[b + v + 2] EXCEPT !.data = x \o @]
    BY DEF FromChunk
  <2> HIDE DEF v, b, x, N
  <2>3. \A n \in Nat : [data |-> << >>, end |-> n] \in BodyType  BY <1>0 DEF BodyType
  <2>4. CASE i > N \/ ~IsSizeLine(i)
    <3>1. Unended(<< >>, MayBeSizeLine(i)) \in BodyType  BY <1>0, UnendedType
    <3> QED  BY <2>2, <2>4, <3>1
  <2>5. CASE ~(i > N \/ ~IsSizeLine(i))
    <3>1. /\ v \in Nat /\ b \in Nat /\ b - 1 \in Nat /\ TrailerEnd(b) \in Nat
          /\ HasAt(b + v, "CR") => x \in Seq(Chars)
          /\ Partial(b, v) \in Seq(Chars)
      BY <1>0, <2>1, <2>5
    <3>2. CASE v = 0  BY <2>2, <2>3, <2>5, <3>1, <3>2
    <3>3. CASE v # 0 /\ (~HasAt(b + v, "CR") \/ ~HasAt(b + v + 1, "LF"))
      <4>1. Unended(Partial(b, v), MayEnd(b, v)) \in BodyType  BY <3>1, UnendedType
      <4> QED  BY <2>2, <2>5, <3>3, <4>1
    <3>4. CASE v # 0 /\ ~(~HasAt(b + v, "CR") \/ ~HasAt(b + v + 1, "LF"))
      <4> DEFINE y == f[b + v + 2]
      <4>1. FromChunk(i, f) = [y EXCEPT !.data = x \o @]  BY <2>2, <2>5, <3>4
      <4>2. y \in BodyType /\ x \in Seq(Chars)  BY <3>1, <3>4
      <4> HIDE DEF y
      <4>3. y.data \in Seq(Chars)  BY <4>2 DEF BodyType
      <4> DEFINE z == x \o y.data
      <4>4. z \in Seq(Chars)  BY <4>2, <4>3
      <4>5. FromChunk(i, f) = [y EXCEPT !.data = z]  BY <4>1
      <4> HIDE DEF z
      <4> QED  BY <4>2, <4>4, <4>5 DEF BodyType
    <3> QED  BY <3>2, <3>3, <3>4
  <2> QED  BY <2>4, <2>5
<1>3. LooksBelow(G, Nat, BodyType, rank)
  <2> SUFFICES ASSUME NEW i \in Nat, NEW f \in [Nat -> BodyType], NEW g \in [Nat -> BodyType],
                      AgreeBelow(f, g, Nat, rank, rank[i])
               PROVE  FromChunk(i, f) = FromChunk(i, g)
    BY DEF LooksBelow
  <2>1. CASE i > N  BY <2>1 DEF FromChunk
  <2>2. CASE i <= N
    <3> DEFINE k == SizeLineEnd(i) + 2 + ChunkSize(i) + 2
    <3>1. k \in Nat /\ k > i
      <4> DEFINE v == ChunkSize(i)
                 b == SizeLineEnd(i) + 2
      <4>1. v \in Nat /\ b \in Nat /\ b >= i + 2  BY <2>2, ChunkNumbers
      <4> HIDE DEF v, b
      <4>2. b + v + 2 \in Nat /\ b + v + 2 > i  BY <4>1
      <4> QED  BY <4>2 DEF v, b
    <3> HIDE DEF k
    <3>2. rank[k] < rank[i]  BY <1>0, <2>2, <3>1
    <3>3. f[k] = g[k]  BY <3>1, <3>2 DEF AgreeBelow
    <3> QED  BY <3>3 DEF FromChunk, k
  <2> QED  BY <1>0, <2>1, <2>2
<1>4. Recursive(G, Nat, BodyType, rank)  BY <1>1, <1>2, <1>3 DEF Recursive
<1> HIDE DEF rank
<1>5. PICK f \in [Nat -> BodyType] : \A i \in Nat : f[i] = G[<<i, f>>]
  <2> DEFINE A == Nat
             V == BodyType
  <2>1. Recursive(G, A, V, rank)  BY <1>4
  <2> HIDE DEF G, A, V
  <2>2. \E f \in [A -> V] : \A i \in A : f[i] = G[<<i, f>>]
    BY <2>1, RecursiveFunctionExists
  <2> QED  BY <2>2 DEF A, V
<1>6. f = [i \in Nat |-> FromChunk(i, f)]  BY <1>5
<1> HIDE DEF G
<1> DEFINE Eq(from) == from = [i \in Nat |-> FromChunk(i, from)]
           c == CHOOSE from : Eq(from)
<1>7. Eq(c)  BY <1>6
<1>8. Body = c[1]  BY DEF Body, FromChunk, Partial, MayEnd
<1> HIDE DEF c
<1>9. \A i \in Nat : c[i] = FromChunk(i, c)  BY <1>7
<1> DEFINE S == {i \in Nat : c[i] \in BodyType}
<1>10. \A n \in Nat : [data |-> << >>, end |-> n] \in BodyType  BY <1>0 DEF BodyType
<1>11. Nat \subseteq S
  <2>1. ASSUME NEW i \in Nat, \A k \in Nat : rank[k] < rank[i] => k \in S PROVE i \in S
    <3> DEFINE v == ChunkSize(i)
               b == SizeLineEnd(i) + 2
               x == SubSeq(stream, b, b + v - 1)
               k == b + v + 2
    <3>1. i <= N => /\ v \in Nat /\ b \in Nat /\ b >= 2 /\ b >= i + 2 /\ TrailerEnd(b) \in Nat
                    /\ HasAt(b + v, "CR") => x \in Seq(Chars)
                    /\ Partial(b, v) \in Seq(Chars)
      BY ChunkNumbers
    <3>2. c[i] =
            IF i > N \/ ~IsSizeLine(i) THEN Unended(<< >>, MayBeSizeLine(i))
            ELSE IF v = 0 /\ ~decoder.trailer THEN [data |-> << >>, end |-> b - 1]
            ELSE IF v = 0 THEN [data |-> << >>, end |-> TrailerEnd(b)]
            ELSE IF ~HasAt(b + v, "CR") \/ ~HasAt(b + v + 1, "LF") THEN
              Unended(Partial(b, v), MayEnd(b, v))
            ELSE [c[k] EXCEPT !.data = x \o @]
      BY <1>9 DEF FromChunk
    <3> SUFFICES c[i] \in BodyType  OBVIOUS
    <3> HIDE DEF v, b, x, N
    <3>4. CASE i > N \/ ~IsSizeLine(i)
      <4>1. Unended(<< >>, MayBeSizeLine(i)) \in BodyType  BY <1>0, UnendedType
      <4> QED  BY <3>2, <3>4, <4>1
    <3>5. CASE ~(i > N \/ ~IsSizeLine(i))
      <4>1. /\ i <= N /\ v \in Nat /\ b \in Nat /\ b - 1 \in Nat /\ TrailerEnd(b) \in Nat
            /\ HasAt(b + v, "CR") => x \in Seq(Chars)
            /\ Partial(b, v) \in Seq(Chars)
        BY <1>0, <3>1, <3>5
      <4>2. CASE v = 0  BY <1>10, <3>2, <3>5, <4>1, <4>2
      <4>3. CASE v # 0 /\ (~HasAt(b + v, "CR") \/ ~HasAt(b + v + 1, "LF"))
        <5>1. Unended(Partial(b, v), MayEnd(b, v)) \in BodyType  BY <4>1, UnendedType
        <5> QED  BY <3>2, <3>5, <4>3, <5>1
      <4>4. CASE v # 0 /\ ~(~HasAt(b + v, "CR") \/ ~HasAt(b + v + 1, "LF"))
        <5> DEFINE y == c[k]
        <5>1. c[i] = [y EXCEPT !.data = x \o @]  BY <3>2, <3>5, <4>4
        <5>2. k \in Nat /\ k > i /\ x \in Seq(Chars)  BY <3>1, <4>1, <4>4
        <5> HIDE DEF k
        <5>3. rank[k] < rank[i]  BY <1>0, <4>1, <5>2 DEF rank
        <5>4. y \in BodyType  BY <2>1, <5>2, <5>3
        <5> HIDE DEF y
        <5>5. y.data \in Seq(Chars)  BY <5>4 DEF BodyType
        <5> DEFINE z == x \o y.data
        <5>6. z \in Seq(Chars)  BY <5>2, <5>5
        <5>7. c[i] = [y EXCEPT !.data = z]  BY <5>1
        <5> HIDE DEF z
        <5> QED  BY <5>4, <5>6, <5>7 DEF BodyType
      <4> QED  BY <4>2, <4>3, <4>4
    <3> QED  BY <3>4, <3>5
  <2> HIDE DEF S
  <2> QED  BY <1>1, <2>1, RankInduction
<1> QED  BY <1>8, <1>9, <1>11

\* What the end that the grammar says of a body makes of the loop.
EndIs(end) == IF end = 0 THEN Bad ELSE IF end > Len(stream) THEN More ELSE Complete

\* From the beginning of a chunk, the loop and the grammar agree.
LEMMA BodyRun ==
  ASSUME stream \in Seq(Chars), NEW f, RunsOver(f, decoder.trailer), NEW g,
         \A i \in Nat : g[i] \in BodyType /\ g[i] = FromChunk(i, g),
         NEW i \in 1 .. Len(stream) + 1, NEW o \in Seq(Chars), Is(f[i - 1], "size", 0, 0, o)
  PROVE  LET a == f[Len(stream)] IN
         /\ a.result = EndIs(g[i].end)
         /\ a.result # Bad => a.out = o \o g[i].data
         /\ a.result = Complete => a.rest = SubSeq(stream, g[i].end + 1, Len(stream))
<1> DEFINE N == Len(stream)
           A == 1 .. N + 1
           a == f[N]
           Agrees(j, w) == /\ a.result = EndIs(g[j].end)
                           /\ a.result # Bad => a.out = w \o g[j].data
                           /\ a.result = Complete => a.rest = SubSeq(stream, g[j].end + 1, N)
           S == {j \in A : \A w \in Seq(Chars) : Is(f[j - 1], "size", 0, 0, w) => Agrees(j, w)}
           rank == [j \in A |-> N + 1 - j]
           t == decoder.trailer
<1>0. N \in Nat /\ rank \in [A -> Nat] /\ DOMAIN stream = 1 .. N  OBVIOUS
<1>1. ASSUME NEW j \in A, \A k \in A : rank[k] < rank[j] => k \in S PROVE j \in S
  <2> SUFFICES ASSUME NEW w \in Seq(Chars), Is(f[j - 1], "size", 0, 0, w) PROVE Agrees(j, w)
    OBVIOUS
  <2> DEFINE v == ChunkSize(j)
             b == SizeLineEnd(j) + 2
             k == SizeLineEnd(j) + 1
             x == SubSeq(stream, b, b + v - 1)
             m == b + v + 2
  <2>0. j \in Nat /\ j \in 1 .. N + 1  BY <1>0
  <2>1. g[j] =
          IF j > N \/ ~IsSizeLine(j) THEN Unended(<< >>, MayBeSizeLine(j))
          ELSE IF v = 0 /\ ~t THEN [data |-> << >>, end |-> b - 1]
          ELSE IF v = 0 THEN [data |-> << >>, end |-> TrailerEnd(b)]
          ELSE IF ~HasAt(b + v, "CR") \/ ~HasAt(b + v + 1, "LF") THEN
            Unended(Partial(b, v), MayEnd(b, v))
          ELSE [g[m] EXCEPT !.data = x \o @]
    BY <2>0 DEF FromChunk
  <2>2. IF j > N \/ ~IsSizeLine(j) THEN Stops(f, MayBeSizeLine(j), w)
        ELSE /\ v \in Nat /\ k \in 1 .. N /\ j < k
             /\ v # 0 => Is(f[k], "data", v, 0, w)
             /\ v = 0 /\ t => Is(f[k], "head", 0, 0, w)
             /\ v = 0 /\ ~t => f[k].result = Complete /\ f[k].out = w /\ f[k].rest = << >>
    <3>1. j \in 1 .. Len(stream) + 1 /\ RunsOver(f, t)  BY <2>0
    <3>2. Is(f[j - 1], "size", 0, 0, w)  OBVIOUS
    <3> HIDE DEF t
    <3>3. BehindSizeLine(f, t, j, w)  BY <3>1, <3>2, SizeLineRun
    <3> QED  BY <3>3 DEF BehindSizeLine
  <2>3. w \o << >> = w  BY ConcatEmptySeq
  <2>4. ASSUME NEW y, NEW more, g[j] = Unended(y, more), Stops(f, more, w \o y)
        PROVE  Agrees(j, w)
    <3>1. CASE more
      <4>1. g[j].end = N + 1 /\ g[j].data = y  BY <2>4, <3>1 DEF Unended
      <4>2. a.result = More /\ a.out = w \o y  BY <2>4, <3>1 DEF Stops
      <4>3. EndIs(N + 1) = More  BY <1>0 DEF EndIs
      <4> HIDE DEF a
      <4> QED  BY <4>1, <4>2, <4>3 DEF More, Complete
    <3>2. CASE ~more
      <4>1. g[j].end = 0  BY <2>4, <3>2 DEF Unended
      <4>2. a.result = Bad  BY <2>4, <3>2 DEF Stops
      <4>3. EndIs(0) = Bad  BY <1>0 DEF EndIs
      <4> HIDE DEF a
      <4> QED  BY <4>1, <4>2, <4>3 DEF Bad, Complete
    <3> QED  BY <3>1, <3>2
  <2>5. ASSUME NEW p \in 1 .. N, g[j] = [data |-> << >>, end |-> p], f[p].result = Complete,
               f[p].out = w, f[p].rest = << >>
        PROVE  Agrees(j, w)
    <3>1. a.result = Complete /\ a.out = w /\ a.rest = SubSeq(stream, p + 1, N)
      <4>1. f[p].result # More  BY <2>5 DEF Complete, More
      <4> QED  BY <2>5, <4>1, RunEnded
    <3>2. g[j].end = p /\ g[j].data = << >>  BY <2>5
    <3>3. EndIs(p) = Complete
      <4> HIDE DEF N
      <4>1. p # 0 /\ ~(p > N)  BY <1>0
      <4> QED  BY <4>1 DEF EndIs, N
    <3> HIDE DEF a
    <3> QED  BY <2>3, <3>1, <3>2, <3>3
  <2>6. CASE j > N \/ ~IsSizeLine(j)
    <3>1. g[j] = Unended(<< >>, MayBeSizeLine(j))  BY <2>1, <2>6
    <3>2. Stops(f, MayBeSizeLine(j), w \o << >>)  BY <2>2, <2>3, <2>6
    <3> HIDE DEF Agrees
    <3> QED  BY <2>4, <3>1, <3>2
  <2>7. CASE ~(j > N \/ ~IsSizeLine(j))
    <3>0. /\ v \in Nat /\ k \in 1 .. N /\ j < k
          /\ v # 0 => Is(f[k], "data", v, 0, w)
          /\ v = 0 /\ t => Is(f[k], "head", 0, 0, w)
          /\ v = 0 /\ ~t => f[k].result = Complete /\ f[k].out = w /\ f[k].rest = << >>
      BY <2>2, <2>7
    <3>1. b = k + 1 /\ b - 1 = k /\ k \in Nat /\ b \in Nat
      <4>1. SizeLineEnd(j) \in Nat  BY <2>0, FirstAtIs DEF SizeLineEnd
      <4> QED  BY <4>1
    <3> HIDE DEF Agrees, v, k, b, t
    <3>2. CASE v = 0 /\ ~t
      <4>1. g[j] = [data |-> << >>, end |-> k]  BY <2>1, <2>7, <3>1, <3>2
      <4> QED  BY <2>5, <3>0, <3>2, <4>1
    <3>3. CASE v = 0 /\ t
      <4> DEFINE p == TrailerEnd(b)
      <4>1. g[j] = [data |-> << >>, end |-> p]  BY <2>1, <2>7, <3>3
      <4>2. IF p > N THEN p = N + 1 /\ Stops(f, TRUE, w)
            ELSE /\ p \in k + 1 .. N
                 /\ f[p].result = Complete /\ f[p].out = w /\ f[p].rest = << >>
        BY <3>0, <3>1, <3>3, TrailerRun DEF t
      <4> HIDE DEF p
      <4>3. CASE p > N
        <5>1. g[j] = Unended(<< >>, TRUE)  BY <4>1, <4>2, <4>3 DEF Unended
        <5>2. Stops(f, TRUE, w \o << >>)  BY <2>3, <4>2, <4>3
        <5> QED  BY <2>4, <5>1, <5>2
      <4>4. CASE ~(p > N)
        <5>1. p \in 1 .. N  BY <1>0, <3>1, <4>2, <4>4
        <5>2. g[j] = [data |-> << >>, end |-> p]  BY <4>1
        <5> QED  BY <2>5, <4>2, <4>4, <5>1, <5>2
      <4> QED  BY <4>3, <4>4
    <3>4. CASE v # 0
      <4>1. IF HasAt(b + v, "CR") /\ HasAt(b + v + 1, "LF")
            THEN x \in Seq(Chars) /\ Is(f[b + v + 1], "size", 0, 0, w \o x)
            ELSE Stops(f, MayEnd(b, v), w \o Partial(b, v))
        <5>1. v \in Nat \ {0} /\ Is(f[k], "data", v, 0, w)  BY <3>0, <3>4
        <5>2. LET c == k + 1 IN
              IF HasAt(c + v, "CR") /\ HasAt(c + v + 1, "LF")
              THEN /\ SubSeq(stream, c, c + v - 1) \in Seq(Chars)
                   /\ Is(f[c + v + 1], "size", 0, 0, w \o SubSeq(stream, c, c + v - 1))
              ELSE Stops(f, MayEnd(c, v), w \o Partial(c, v))
          BY <3>0, <5>1, DataRun DEF MayEnd, Partial
        <5> QED  BY <3>1, <5>2
      <4>2. CASE ~(HasAt(b + v, "CR") /\ HasAt(b + v + 1, "LF"))
        <5>1. g[j] = Unended(Partial(b, v), MayEnd(b, v))  BY <2>1, <2>7, <3>4, <4>2
        <5>2. Stops(f, MayEnd(b, v), w \o Partial(b, v))  BY <4>1, <4>2
        <5> QED  BY <2>4, <5>1, <5>2
      <4>3. CASE HasAt(b + v, "CR") /\ HasAt(b + v + 1, "LF")
        <5>1. g[j] = [g[m] EXCEPT !.data = x \o @]  BY <2>1, <2>7, <3>4, <4>3
        <5>2. b + v + 1 \in 1 .. N  BY <1>0, <4>3 DEF HasAt
        <5>3. m \in A /\ m - 1 = b + v + 1 /\ m \in Nat /\ m > j
          <6> HIDE DEF N
          <6> QED  BY <1>0, <3>0, <3>1, <5>2
        <5> HIDE DEF m, x
        <5>4. rank[m] < rank[j]  BY <1>0, <5>3
        <5>5. m \in S  BY <1>1, <5>3, <5>4
        <5>6. x \in Seq(Chars) /\ Is(f[m - 1], "size", 0, 0, w \o x)  BY <4>1, <4>3, <5>3
        <5>7. w \o x \in Seq(Chars)  BY <5>6
        <5> DEFINE z == w \o x
        <5> HIDE DEF z
        <5>8. Agrees(m, z)  BY <5>5, <5>6, <5>7 DEF z
        <5> DEFINE y == g[m]
        <5>9. y \in BodyType  BY <5>3
        <5>10. y.data \in Seq(Chars)  BY <5>9 DEF BodyType
        <5>11. g[j].end = y.end /\ g[j].data = x \o y.data
          <6> DEFINE q == x \o y.data
          <6>1. g[j] = [y EXCEPT !.data = q]  BY <5>1
          <6> HIDE DEF q, y
          <6>2. g[j].end = y.end /\ g[j].data = q  BY <5>9, <6>1 DEF BodyType
          <6> QED  BY <6>2 DEF q
        <5> DEFINE u == y.data
        <5>12. u \in Seq(Chars) /\ w \in Seq(Chars) /\ x \in Seq(Chars)  BY <5>6, <5>10
        <5> HIDE DEF u
        <5>15. Joined(Joined(w, x), u) = Joined(w, Joined(x, u))  BY <5>12, JoinedIs
        <5>13. (w \o x) \o u = w \o (x \o u)  BY <5>15 DEF Joined
        <5>14. z \o y.data = w \o g[j].data  BY <5>11, <5>13 DEF z, u
        <5> QED  BY <5>8, <5>11, <5>14 DEF Agrees
      <4> QED  BY <4>2, <4>3
    <3>5. t \in BOOLEAN \/ t \notin BOOLEAN  OBVIOUS
    <3> QED  BY <3>2, <3>3, <3>4
  <2> QED  BY <2>6, <2>7
<1> HIDE DEF S, rank, A
<1>2. A \subseteq S  BY <1>0, <1>1, RankInduction
<1>3. i \in S  BY <1>2 DEF A
<1> QED  BY <1>3 DEF S

\* However a chunked body is cut into pieces, the decoder says that it has ended exactly
\* when its last chunk and its trailer have, that more is needed exactly when its bytes
\* can still become a body, and refuses it otherwise, or when it costs too much; its
\* data is that of the chunks, and what follows it is not touched.
THEOREM BodiesExact == ChunkSpec => []ChunksExact
<1>1. ChunkInv /\ [ChunkNext]_chunkVars => ChunkInv'
  <2>1. ASSUME ChunkInv, UNCHANGED chunkVars PROVE ChunkInv'
    BY <2>1 DEF ChunkInv, LikeOneCall, chunkVars
  <2> QED  BY <2>1, ChunkStep
<1>2. ASSUME ChunkInv PROVE ChunksExact
  <2> DEFINE N == Len(stream)
             D == NewDecoder(decoder.trailer)
             d == Started(D, N)
             a == Loop(d, stream)
  <2>0. decoder \in DecoderType /\ stream \in Seq(Chars) /\ N \in Nat /\ DOMAIN stream = 1 .. N
    BY <1>2 DEF ChunkInv
  <2>1. /\ a \in CallType
        /\ result = IF a.result = More /\ Costly(Len(a.out)) THEN Bad ELSE a.result
        /\ result # Bad => out = a.out /\ rest = a.rest
    BY <1>2, OneCall
  <2>2. D \in DecoderType
    BY <2>0 DEF NewDecoder, DecoderType, States
  <2>3. /\ d \in DecoderType /\ d.trailer = decoder.trailer
        /\ d.state = "size" /\ d.left = 0 /\ d.hex = 0
    BY <2>0, <2>2 DEF Started, NewDecoder, DecoderType
  <2> HIDE DEF d, a
  <2>4. PICK f : RunsOver(f, d.trailer) /\ f[0] = StartOf(d) /\ f[N] = Loop(d, stream)
    BY <2>0, <2>3, RunIs
  <2>5. PICK g : /\ \A i \in Nat : g[i] \in BodyType /\ g[i] = FromChunk(i, g)
                 /\ Body = g[1]
    BY <2>0, BodyUnfolds
  <2>6. Is(f[0], "size", 0, 0, << >>)
    <3>1. f[0] \in CallType  BY <2>0, <2>4 DEF RunsOver
    <3> QED  BY <2>3, <2>4, <3>1 DEF Is, StartOf
  <2>7. /\ f[N].result = EndIs(Body.end)
        /\ f[N].result # Bad => f[N].out = << >> \o Body.data
        /\ f[N].result = Complete => f[N].rest = SubSeq(stream, Body.end + 1, N)
    <3> DEFINE i == 1
               o == << >>
    <3>1. i \in 1 .. Len(stream) + 1 /\ i - 1 = 0 /\ o \in Seq(Chars) /\ i = 1  BY <2>0
    <3>2. Is(f[i - 1], "size", 0, 0, o)  BY <2>6
    <3>3. RunsOver(f, decoder.trailer)  BY <2>3, <2>4
    <3> HIDE DEF i, o
    <3>4. /\ f[N].result = EndIs(g[i].end)
          /\ f[N].result # Bad => f[N].out = o \o g[i].data
          /\ f[N].result = Complete => f[N].rest = SubSeq(stream, g[i].end + 1, Len(stream))
      BY <2>0, <2>5, <3>1, <3>2, <3>3, BodyRun
    <3> QED  BY <2>5, <3>1, <3>4 DEF o
  <2>8. << >> \o Body.data = Body.data /\ Body.end \in Nat
    <3> DEFINE x == Body.data
    <3>1. x \in Seq(Chars) /\ Body.end \in Nat  BY <2>5 DEF BodyType
    <3> HIDE DEF x
    <3>2. << >> \o x = x  BY <3>1, ConcatEmptySeq
    <3> QED  BY <3>1, <3>2 DEF x
  <2>9. f[N] = a  BY <2>4 DEF a
  <2> DEFINE b == Body
  <2>10. /\ a.result = EndIs(b.end)
         /\ a.result # Bad => a.out = b.data
         /\ a.result = Complete => a.rest = SubSeq(stream, b.end + 1, N)
    BY <2>7, <2>8, <2>9
  <2>11. More # Bad /\ More # Complete /\ Bad # Complete  BY DEF More, Bad, Complete
  <2>12. /\ EndIs(b.end) = Complete <=> b.end \in DOMAIN stream
         /\ EndIs(b.end) = More <=> b.end > N
    <3> HIDE DEF b
    <3>1. b.end \in Nat  BY <2>8 DEF b
    <3>2. b.end \in 1 .. N <=> b.end # 0 /\ ~(b.end > N)
      <4> HIDE DEF N
      <4> QED  BY <2>0, <3>1
    <3>3. b.end > N => b.end # 0
      <4> HIDE DEF N
      <4> QED  BY <2>0, <3>1
    <3> QED  BY <2>0, <2>11, <3>2, <3>3 DEF EndIs
  <2> HIDE DEF b
  <2>13. result = Complete <=> b.end \in DOMAIN stream
    BY <2>1, <2>10, <2>11, <2>12
  <2>14. result = More <=> b.end > N /\ ~Costly(Len(b.data))
    BY <2>1, <2>10, <2>11, <2>12
  <2>15. result # Bad => out = b.data
    BY <2>1, <2>10
  <2>16. result = Complete => rest = SubSeq(stream, b.end + 1, N)
    BY <2>1, <2>10, <2>11
  <2> QED  BY <2>13, <2>14, <2>15, <2>16 DEF ChunksExact, b
<1> QED  BY <1>1, <1>2, ChunkBegins, PTL DEF ChunkSpec
=============================================================================
