----------------------------- MODULE ArenaBits -----------------------------
(***************************************************************************)
(* The bitmap of the arena byte by byte: the macros of ds/bitmap.h and the *)
(* masks of ds/bitmap.c, which write a range of bits over the borders of   *)
(* bytes.  PingArena has the set of the blocks in use in their place.      *)
(***************************************************************************)
EXTENDS PingArena

CONSTANT Width         \* bits of a byte

ASSUME WidthAssumption == Width \in Nat \ {0}

VARIABLE bitmap        \* the bits that are set in every byte

bitVars == <<vars, bitmap>>

ByteBits == 0 .. Width - 1
ByteOf(i) == i \div Width
BitOf(i) == i % Width
Bytes == 0 .. ByteOf(Cap + Width - 1) - 1

\* (1 << n) - 1, and the lowest byte of a mask shifted to the left
Ones(n) == 0 .. n - 1
Shifted(mask, k) == {b + k : b \in mask} \intersect ByteBits

\* The bits of byte x that a range covers.  Mutant: in the first byte of several
\* the bits behind the first one are missing.
Mask_First(x, s, e) ==
  CASE ByteOf(s) = ByteOf(e) -> Shifted(Ones(e - s + 1), BitOf(s))
    [] ByteOf(s) # ByteOf(e) /\ x = ByteOf(s) -> {BitOf(s)}
    [] ByteOf(s) # ByteOf(e) /\ x = ByteOf(e) -> Ones(BitOf(e) + 1)
    [] ByteOf(s) # ByteOf(e) /\ x \notin {ByteOf(s), ByteOf(e)} -> ByteBits
Mask(x, s, e) ==
  CASE ByteOf(s) = ByteOf(e) -> Shifted(Ones(e - s + 1), BitOf(s))
    [] ByteOf(s) # ByteOf(e) /\ x = ByteOf(s) -> Shifted(ByteBits, BitOf(s))
    [] ByteOf(s) # ByteOf(e) /\ x = ByteOf(e) -> Ones(BitOf(e) + 1)
    [] ByteOf(s) # ByteOf(e) /\ x \notin {ByteOf(s), ByteOf(e)} -> ByteBits

\* bitmap_set_range and bitmap_unset_range
SetRange(map, s, e) ==
  [x \in Bytes |-> IF x \in ByteOf(s) .. ByteOf(e) THEN map[x] \union Mask(x, s, e) ELSE map[x]]
UnsetRange(map, s, e) ==
  [x \in Bytes |-> IF x \in ByteOf(s) .. ByteOf(e) THEN map[x] \ Mask(x, s, e) ELSE map[x]]

\* BIT_GET
BitGet(map, i) == BitOf(i) \in map[ByteOf(i)]
------------------------------------------------------------------------------
BitsInit == Init /\ bitmap = [x \in Bytes |-> {}]

AllocBlockBits(n) ==
  /\ AllocBlock(n)
  /\ \E s \in Blocks : Chosen(s, n) /\ bitmap' = SetRange(bitmap, s, s + n - 1)

RecycleBits(r) ==
  /\ Recycle(r)
  /\ bitmap' = UnsetRange(bitmap, r.first, r.first + head[r.first] - 1)

\* The block that was found is the one in front of now.
AllocRefBits(size) ==
  /\ AllocRef(size)
  /\ LET b == (now' + Cap - 1) % Cap IN bitmap' = SetRange(bitmap, b, b)

RecycleRefBits(r) ==
  /\ RecycleRef(r)
  /\ bitmap' = IF ref_count'[r.first] = 0 THEN UnsetRange(bitmap, r.first, r.first) ELSE bitmap

CleanBits == Clean /\ bitmap' = [x \in Bytes |-> {}]

BitsNext ==
  \/ \E n \in Counts : AllocBlockBits(n)
  \/ \E size \in Sizes : AllocRefBits(size)
  \/ \E r \in live : RecycleBits(r) \/ RecycleRefBits(r)
  \/ CleanBits

BitsSpec == BitsInit /\ [][BitsNext]_bitVars
------------------------------------------------------------------------------
\* Through runs over the borders of bytes and single blocks inside them, the bits
\* of the bitmap are those of the blocks in use, and none behind the arena.
BitsExact ==
  {i \in 0 .. Width * ByteOf(Cap + Width - 1) - 1 : BitGet(bitmap, i)} = used
=============================================================================
