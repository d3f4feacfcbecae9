-------------------------- MODULE PingArenaProofs --------------------------
(***************************************************************************)
(* What holds of PingArena for every size of the arena, of its blocks and  *)
(* of the counters: its bookkeeping is exact, and it is an Allocator.      *)
(* Then how it searches and marks, for every width of a byte: the loop of  *)
(* arena_alloc_block returns the run that PingArena chooses, and the masks *)
(* of ds/bitmap.c set and clear exactly the bits of the blocks in a range. *)
(***************************************************************************)
EXTENDS ArenaBits, Recursion, FiniteSetTheorems, TLAPS

AInv == TypeOK /\ BitmapExact /\ CountsExact /\ HeadIntact /\ RegionsApart
------------------------------------------------------------------------------
(***************************************************************************)
(* Counters that go round.                                                 *)
(***************************************************************************)
\* An index into the arena, however far it has run.
LEMMA ModRange == ASSUME NEW m \in Nat \ {0}, NEW a \in Nat PROVE a % m \in 0 .. m - 1
OBVIOUS

\* An index that has not come to the end stays as it is.
LEMMA ModSmall == ASSUME NEW m \in Nat \ {0}, NEW a \in 0 .. m - 1 PROVE a % m = a
OBVIOUS

\* ref_count-- of a counter that is not 0.
LEMMA CountDown == ASSUME NEW m \in Nat, NEW a \in 1 .. m PROVE (a + m) % (m + 1) = a - 1
OBVIOUS

\* ref_count++ of a counter below its limit.
LEMMA CountUp == ASSUME NEW m \in Nat, NEW a \in 0 .. m - 1 PROVE (a + 1) % (m + 1) = a + 1
OBVIOUS
------------------------------------------------------------------------------
(***************************************************************************)
(* Regions and the blocks they lie in.                                     *)
(***************************************************************************)
\* The bitmap, block by block.
LEMMA UsedBlock ==
  ASSUME BitmapExact, NEW b
  PROVE  b \in used <=> \E r \in live : b \in Abstract!BlocksOf(r)
BY DEF BitmapExact

LEMMA RegionBlocks ==
  ASSUME NEW r \in Abstract!Region, Abstract!InArena(r)
  PROVE  /\ r.first \in Blocks /\ r.first \in Abstract!BlocksOf(r)
         /\ Abstract!BlocksOf(r) \subseteq Blocks
         /\ r.count = 0 => Abstract!BlocksOf(r) = {r.first}
         /\ r.count > 0 => Abstract!BlocksOf(r) = Run(r.first, r.count)
BY ArenaAssumption DEF Abstract!Region, Abstract!InArena, Abstract!BlocksOf, Blocks, Run

\* The small objects of a block are finitely many.
LEMMA ObjectsFinite ==
  ASSUME TypeOK, NEW b
  PROVE  IsFiniteSet(ObjectsIn(b))
<1>1. ObjectsIn(b) \subseteq live  BY DEF ObjectsIn
<1> QED  BY <1>1, FS_Subset DEF TypeOK

\* A block with a small object in it is no block of a run.
LEMMA ObjectBlock ==
  ASSUME AInv, NEW r \in live, r.count = 0
  PROVE  /\ r.first \in Blocks /\ r.first \in used /\ ~InRun(r.first)
         /\ ref_count[r.first] \in 1 .. Marker
         /\ ref_count[r.first] = Cardinality(ObjectsIn(r.first))
<1>1. r \in Abstract!Region /\ Abstract!InArena(r)
  BY DEF AInv, TypeOK, RegionsApart
<1>2. r.first \in Blocks /\ r.first \in Abstract!BlocksOf(r)
  BY <1>1, RegionBlocks
<1>3. r.first \in used
  BY <1>2, UsedBlock DEF AInv
<1>4. ~InRun(r.first)
  <2> SUFFICES ASSUME NEW t \in live, t.count > 0, r.first \in Abstract!BlocksOf(t)
               PROVE  FALSE
    BY DEF InRun
  <2>1. t # r /\ t.count # 0  BY <1>1 DEF Abstract!Region
  <2>2. Abstract!Apart(t, r)  BY <2>1 DEF AInv, RegionsApart
  <2> QED  BY <1>2, <2>1, <2>2 DEF Abstract!Apart
<1>5. ref_count[r.first] = Cardinality(ObjectsIn(r.first))
  BY <1>2, <1>4 DEF AInv, CountsExact
<1>6. Cardinality(ObjectsIn(r.first)) # 0
  <2>1. r \in ObjectsIn(r.first)  BY DEF ObjectsIn
  <2> QED  BY <2>1, ObjectsFinite, FS_EmptySet DEF AInv
<1>7. ref_count[r.first] \in 0 .. Marker
  BY <1>2 DEF AInv, TypeOK
<1> QED  BY <1>2, <1>3, <1>4, <1>5, <1>6, <1>7, ArenaAssumption
------------------------------------------------------------------------------
(***************************************************************************)
(* Each step keeps the invariant, and is a step of Allocator.              *)
(***************************************************************************)
LEMMA InitInv == Init => AInv
<1> SUFFICES ASSUME Init PROVE AInv  OBVIOUS
<1>1. IsFiniteSet({}) /\ Cardinality({}) = 0  BY FS_EmptySet
<1>2. TypeOK
  BY <1>1, ArenaAssumption DEF Init, TypeOK, Blocks
<1>3. BitmapExact /\ HeadIntact /\ RegionsApart
  BY ArenaAssumption DEF Init, BitmapExact, HeadIntact, RegionsApart, InRun, Blocks
<1>4. CountsExact
  <2>1. \A b : ObjectsIn(b) = {}  BY DEF Init, ObjectsIn
  <2> QED  BY <1>1, <2>1 DEF Init, CountsExact, InRun
<1> QED  BY <1>2, <1>3, <1>4 DEF AInv

\* arena_alloc_block
LEMMA AllocBlockKeeps ==
  ASSUME AInv, NEW n \in Counts, AllocBlock(n)
  PROVE  AInv' /\ Abstract!Alloc
<1>1. PICK s \in Blocks :
        /\ Chosen(s, n)
        /\ used' = used \union Run(s, n)
        /\ ref_count' = [b \in Blocks |-> IF b \in Run(s, n) THEN Marker ELSE ref_count[b]]
        /\ now' = (s + n) % Cap
        /\ head' = [head EXCEPT ![s] = n]
        /\ live' = live \union {RunRegion(s, n)}
        /\ UNCHANGED ref_len
  BY DEF AllocBlock
<1> DEFINE q == RunRegion(s, n)
<1>2. n \in 1 .. Cap /\ s \in Nat /\ s + n <= Cap /\ Cap \in Nat \ {0}
  BY <1>1, ArenaAssumption DEF Chosen, Fits, Seen, Blocks
<1>3. Run(s, n) \subseteq Blocks /\ Run(s, n) \intersect used = {} /\ s \in Run(s, n)
  <2>1. Run(s, n) \subseteq Blocks /\ s \in Run(s, n)
    BY <1>2 DEF Run, Blocks
  <2>2. \A b \in Run(s, n) : b % Cap \notin used
    BY <1>1 DEF Chosen, Fits
  <2>3. \A b \in Run(s, n) : b % Cap = b
    BY <1>2, <2>1, ModSmall DEF Blocks
  <2> QED  BY <2>1, <2>2, <2>3
<1>4. /\ q \in Abstract!Region /\ Abstract!InArena(q) /\ Abstract!BlocksOf(q) = Run(s, n)
      /\ q.count = n /\ q.count > 0 /\ q.first = s
  BY <1>2 DEF RunRegion, Abstract!Region, Abstract!InArena, Abstract!BlocksOf, Run
<1>5. \A t \in live : Abstract!BlocksOf(t) \intersect Run(s, n) = {} /\ t.first \notin Run(s, n)
  <2> SUFFICES ASSUME NEW t \in live
               PROVE  Abstract!BlocksOf(t) \intersect Run(s, n) = {} /\ t.first \notin Run(s, n)
    OBVIOUS
  <2>1. Abstract!BlocksOf(t) \subseteq used  BY DEF AInv, BitmapExact
  <2>2. t.first \in Abstract!BlocksOf(t)
    BY RegionBlocks DEF AInv, TypeOK, RegionsApart
  <2> QED  BY <1>3, <2>1, <2>2
<1>6. q \notin live  BY <1>3, <1>4, <1>5
<1>7. TypeOK'
  <2>1. now' \in Blocks  BY <1>1, <1>2, ModRange DEF Blocks
  <2>2. IsFiniteSet(live')  BY <1>1, FS_AddElement DEF AInv, TypeOK
  <2>3. live' \in SUBSET Abstract!Region  BY <1>1, <1>4 DEF AInv, TypeOK
  <2>4. used' \in SUBSET Blocks  BY <1>1, <1>3 DEF AInv, TypeOK
  <2>5. ref_count' \in [Blocks -> 0 .. Marker]
    BY <1>1, ArenaAssumption DEF AInv, TypeOK
  <2>6. head' \in [Blocks -> Nat \union {UserData}]
    BY <1>1, <1>2 DEF AInv, TypeOK
  <2> QED  BY <1>1, <2>1, <2>2, <2>3, <2>4, <2>5, <2>6 DEF AInv, TypeOK
<1>8. BitmapExact'
  BY <1>1, <1>4 DEF AInv, BitmapExact
<1>9. \A b : InRun(b)' <=> InRun(b) \/ b \in Run(s, n)
  BY <1>1, <1>4 DEF InRun
<1>10. \A b : ObjectsIn(b)' = ObjectsIn(b)
  BY <1>1, <1>4 DEF ObjectsIn
<1>11. CountsExact'
  BY <1>1, <1>9, <1>10 DEF AInv, CountsExact
<1>12. HeadIntact'
  <2> SUFFICES ASSUME NEW t \in live', t.count > 0
               PROVE  head'[t.first] = t.count
    BY DEF HeadIntact
  <2>1. CASE t = q  BY <1>1, <1>4, <2>1 DEF AInv, TypeOK
  <2>2. CASE t \in live
    BY <1>1, <1>3, <1>5, <2>2 DEF AInv, HeadIntact, TypeOK
  <2> QED  BY <1>1, <2>1, <2>2
<1>13. \A t \in live : Abstract!Apart(q, t) /\ Abstract!Apart(t, q)
  BY <1>4, <1>5 DEF Abstract!Apart
<1>14. RegionsApart'
  <2>1. \A r \in live' : Abstract!InArena(r)
    BY <1>1, <1>4 DEF AInv, RegionsApart
  <2>2. \A r, t \in live' : r # t => Abstract!Apart(r, t)
    BY <1>1, <1>13 DEF AInv, RegionsApart
  <2>3. \A r \in live' : r.count = 0 => r.len > 0 /\ r.off + r.len <= ref_len'[r.first]
    BY <1>1, <1>4 DEF AInv, RegionsApart
  <2>4. ASSUME NEW b \in Run(s, n) PROVE ref_len[b] = 0
    <3>1. b \in Blocks /\ b \notin used  BY <1>3
    <3>2. \A r \in live : b \notin Abstract!BlocksOf(r)
      BY <3>1, UsedBlock DEF AInv
    <3>3. ~InRun(b) /\ ObjectsIn(b) = {}
      BY <1>3, <1>5, <3>2 DEF InRun, ObjectsIn
    <3> QED  BY <3>1, <3>3, FS_EmptySet DEF AInv, CountsExact
  <2>5. \A b \in Blocks : InRun(b)' => ref_len'[b] = 0
    BY <1>1, <1>9, <2>4 DEF AInv, RegionsApart
  <2> QED  BY <2>1, <2>2, <2>3, <2>5 DEF RegionsApart
<1>15. Abstract!Alloc
  BY <1>1, <1>4, <1>6, <1>13 DEF Abstract!Alloc
<1> QED  BY <1>7, <1>8, <1>11, <1>12, <1>14, <1>15 DEF AInv

\* arena_recycle: the length it finds is that of the run, so it clears the blocks
\* of the run and no other.
LEMMA RecycleKeeps ==
  ASSUME AInv, NEW r \in live, Recycle(r)
  PROVE  AInv' /\ Abstract!Free
<1>1. /\ r.count > 0 /\ r \in Abstract!Region /\ Abstract!InArena(r)
      /\ head[r.first] = r.count
  BY DEF AInv, TypeOK, RegionsApart, HeadIntact, Recycle
<1> DEFINE B == Abstract!BlocksOf(r)
<1>2. B = Run(r.first, head[r.first]) /\ B \subseteq Blocks /\ r.first \in B
  BY <1>1, RegionBlocks
<1>3. /\ used' = used \ B
      /\ ref_count' = [b \in Blocks |-> IF b \in B THEN 0 ELSE ref_count[b]]
      /\ live' = live \ {r}
      /\ UNCHANGED <<ref_len, now, head>>
  BY <1>2 DEF Recycle, Uncounted
<1>4. \A t \in live' : Abstract!BlocksOf(t) \intersect B = {}
  BY <1>1, <1>3 DEF AInv, RegionsApart, Abstract!Apart
<1>5. TypeOK'
  <2>1. IsFiniteSet(live')  BY <1>3, FS_Subset DEF AInv, TypeOK
  <2> QED  BY <1>3, <2>1, ArenaAssumption DEF AInv, TypeOK
<1>6. BitmapExact'
  BY <1>3, <1>4 DEF AInv, BitmapExact
<1>7. \A b : InRun(b)' <=> InRun(b) /\ b \notin B
  BY <1>1, <1>3, <1>4 DEF InRun
<1>8. \A b : ObjectsIn(b)' = ObjectsIn(b)
  BY <1>1, <1>3 DEF ObjectsIn
<1>9. \A b \in B : ObjectsIn(b) = {} /\ InRun(b)
  <2> SUFFICES ASSUME NEW b \in B, NEW t \in live, t.count = 0, t.first = b
               PROVE  FALSE
    BY <1>1 DEF InRun, ObjectsIn
  <2>1. t \in live'  BY <1>1, <1>3
  <2>2. t.first \in Abstract!BlocksOf(t)
    BY RegionBlocks DEF AInv, TypeOK, RegionsApart
  <2> QED  BY <1>4, <2>1, <2>2
<1>10. CountsExact'
  <2> SUFFICES ASSUME NEW b \in Blocks
               PROVE  /\ InRun(b)' => ref_count'[b] = Marker
                      /\ ~InRun(b)' => /\ ref_count'[b] = Cardinality(ObjectsIn(b)')
                                       /\ ref_count'[b] = 0 => ref_len'[b] = 0
    BY DEF CountsExact
  <2>1. CASE b \in B
    <3>1. ref_count'[b] = 0 /\ ref_len'[b] = 0
      BY <1>3, <1>9, <2>1 DEF AInv, RegionsApart
    <3>2. Cardinality(ObjectsIn(b)') = 0  BY <1>8, <1>9, <2>1, FS_EmptySet
    <3> QED  BY <1>7, <2>1, <3>1, <3>2
  <2>2. CASE b \notin B
    BY <1>3, <1>7, <1>8, <2>2 DEF AInv, CountsExact
  <2> QED  BY <2>1, <2>2
<1>11. HeadIntact' /\ RegionsApart'
  BY <1>3, <1>7 DEF AInv, HeadIntact, RegionsApart
<1>12. Abstract!Free
  BY <1>3 DEF Abstract!Free
<1> QED  BY <1>5, <1>6, <1>10, <1>11, <1>12 DEF AInv

\* arena_alloc_ref_block
LEMMA AllocRefKeeps ==
  ASSUME AInv, NEW size \in Sizes, AllocRef(size)
  PROVE  AInv' /\ Abstract!Alloc
<1>1. PICK b \in Blocks :
        /\ HasRoom(b, size)
        /\ used' = used \union {b}
        /\ ref_len' = [ref_len EXCEPT ![b] = @ + size]
        /\ ref_count' = [ref_count EXCEPT ![b] = (@ + 1) % (Marker + 1)]
        /\ now' = (b + 1) % Cap
        /\ head' = IF ref_len[b] = 0 THEN [head EXCEPT ![b] = UserData] ELSE head
        /\ live' = live \union {RefRegion(b, ref_len[b], size)}
  BY DEF AllocRef
<1> DEFINE q == RefRegion(b, ref_len[b], size)
<1>2. /\ size \in 1 .. BlockBytes /\ Cap \in Nat \ {0} /\ Marker \in Nat \ {0}
      /\ BlockBytes \in Nat /\ b \in Nat /\ ref_len[b] \in Nat
      /\ ref_count[b] \in 0 .. Marker
  BY ArenaAssumption DEF AInv, TypeOK, Blocks
<1>3. b \notin used => ref_count[b] = 0 /\ ref_len[b] = 0 /\ ~InRun(b)
  <2> SUFFICES ASSUME b \notin used
               PROVE  ref_count[b] = 0 /\ ref_len[b] = 0 /\ ~InRun(b)
    OBVIOUS
  <2>1. \A r \in live : b \notin Abstract!BlocksOf(r)  BY UsedBlock DEF AInv
  <2>2. ~InRun(b)  BY <2>1 DEF InRun
  <2>3. ObjectsIn(b) = {}
    BY <2>1, RegionBlocks DEF ObjectsIn, AInv, TypeOK, RegionsApart
  <2> QED  BY <2>2, <2>3, FS_EmptySet DEF AInv, CountsExact
<1>4. ~InRun(b) /\ ref_count[b] # Marker /\ ref_len[b] + size <= BlockBytes
  BY <1>1, <1>2, <1>3 DEF HasRoom, AInv, CountsExact
<1>5. ref_count'[b] = ref_count[b] + 1 /\ ref_count'[b] \in 1 .. Marker
  <2>1. (ref_count[b] + 1) % (Marker + 1) = ref_count[b] + 1
    BY <1>2, <1>4, CountUp
  <2> QED  BY <1>1, <1>2, <1>4, <2>1 DEF AInv, TypeOK
<1>6. /\ q \in Abstract!Region /\ Abstract!InArena(q) /\ Abstract!BlocksOf(q) = {b}
      /\ q.count = 0 /\ q.first = b /\ q.off = ref_len[b] /\ q.len = size
  BY <1>1, <1>2, <1>4
     DEF RefRegion, Abstract!Region, Abstract!InArena, Abstract!BlocksOf, Blocks
<1>7. \A t \in live : t.count > 0 => b \notin Abstract!BlocksOf(t) /\ t.first # b
  BY <1>4, RegionBlocks DEF InRun, AInv, TypeOK, RegionsApart
<1>8. \A t \in live : t.count = 0 /\ t.first = b => t.off + t.len <= q.off /\ t.len > 0
  BY <1>6 DEF AInv, RegionsApart
<1>9. q \notin live
  BY <1>2, <1>6, <1>8
<1>10. \A t \in live : Abstract!Apart(q, t) /\ Abstract!Apart(t, q)
  <2> SUFFICES ASSUME NEW t \in live PROVE Abstract!Apart(q, t) /\ Abstract!Apart(t, q)
    OBVIOUS
  <2>1. t \in Abstract!Region /\ Abstract!InArena(t)
    BY DEF AInv, TypeOK, RegionsApart
  <2>2. CASE t.count > 0
    BY <1>6, <1>7, <2>2 DEF Abstract!Apart
  <2>3. CASE t.count = 0 /\ t.first = b
    BY <1>6, <1>8, <2>3 DEF Abstract!Apart
  <2>4. CASE t.count = 0 /\ t.first # b
    BY <1>6, <2>1, <2>4, RegionBlocks DEF Abstract!Apart
  <2> QED  BY <2>1, <2>2, <2>3, <2>4 DEF Abstract!Region
<1>11. TypeOK'
  <2>1. now' \in Blocks  BY <1>1, <1>2, ModRange DEF Blocks
  <2>2. IsFiniteSet(live')  BY <1>1, FS_AddElement DEF AInv, TypeOK
  <2>3. live' \in SUBSET Abstract!Region  BY <1>1, <1>6 DEF AInv, TypeOK
  <2>4. used' \in SUBSET Blocks  BY <1>1 DEF AInv, TypeOK
  <2>5. ref_count' \in [Blocks -> 0 .. Marker]
    BY <1>1, <1>2, <1>5 DEF AInv, TypeOK
  <2>6. head' \in [Blocks -> Nat \union {UserData}]  BY <1>1 DEF AInv, TypeOK
  <2>7. ref_len' \in [Blocks -> 0 .. BlockBytes]
    BY <1>1, <1>2, <1>4 DEF AInv, TypeOK
  <2> QED  BY <2>1, <2>2, <2>3, <2>4, <2>5, <2>6, <2>7 DEF TypeOK
<1>12. BitmapExact'
  BY <1>1, <1>6 DEF AInv, BitmapExact
<1>13. \A c : InRun(c)' <=> InRun(c)
  BY <1>1, <1>6 DEF InRun
<1>14. /\ ObjectsIn(b)' = ObjectsIn(b) \union {q} /\ q \notin ObjectsIn(b)
       /\ \A c : c # b => ObjectsIn(c)' = ObjectsIn(c)
  BY <1>1, <1>6, <1>9 DEF ObjectsIn
<1>15. CountsExact'
  <2> SUFFICES ASSUME NEW c \in Blocks
               PROVE  /\ InRun(c)' => ref_count'[c] = Marker
                      /\ ~InRun(c)' => /\ ref_count'[c] = Cardinality(ObjectsIn(c)')
                                       /\ ref_count'[c] = 0 => ref_len'[c] = 0
    BY DEF CountsExact
  <2>1. CASE c = b
    <3>1. Cardinality(ObjectsIn(b)') = Cardinality(ObjectsIn(b)) + 1
      <4>1. IsFiniteSet(ObjectsIn(b))  BY ObjectsFinite DEF AInv
      <4>2. Cardinality(ObjectsIn(b) \union {q}) = Cardinality(ObjectsIn(b)) + 1
        <5> HIDE DEF q
        <5> QED  BY <1>14, <4>1, FS_AddElement
      <4> QED  BY <1>14, <4>2
    <3>2. ref_count[b] = Cardinality(ObjectsIn(b))
      BY <1>4 DEF AInv, CountsExact
    <3> QED  BY <1>2, <1>4, <1>5, <1>13, <2>1, <3>1, <3>2
  <2>2. CASE c # b
    BY <1>1, <1>13, <1>14, <2>2 DEF AInv, TypeOK, CountsExact
  <2> QED  BY <2>1, <2>2
<1>16. HeadIntact'
  BY <1>1, <1>6, <1>7 DEF AInv, TypeOK, HeadIntact
<1>17. RegionsApart'
  <2>1. \A r \in live' : Abstract!InArena(r)
    BY <1>1, <1>6 DEF AInv, RegionsApart
  <2>2. \A r, t \in live' : r # t => Abstract!Apart(r, t)
    BY <1>1, <1>10 DEF AInv, RegionsApart
  <2>3. ASSUME NEW r \in live', r.count = 0
        PROVE  r.len > 0 /\ r.off + r.len <= ref_len'[r.first]
    <3>1. ref_len'[b] = ref_len[b] + size  BY <1>1 DEF AInv, TypeOK
    <3>2. CASE r = q  BY <1>2, <1>6, <3>1, <3>2
    <3>3. CASE r \in live /\ r.first = b
      <4>1. r.off \in Nat /\ r.len \in Nat
        BY <3>3 DEF AInv, TypeOK, Abstract!Region
      <4> QED  BY <1>2, <1>6, <1>8, <2>3, <3>1, <3>3, <4>1
    <3>4. CASE r \in live /\ r.first # b
      <4>1. r.first \in Blocks
        BY <3>4, RegionBlocks DEF AInv, TypeOK, RegionsApart
      <4> QED  BY <1>1, <2>3, <3>4, <4>1 DEF AInv, TypeOK, RegionsApart
    <3> QED  BY <1>1, <3>2, <3>3, <3>4
  <2>4. \A c \in Blocks : InRun(c)' => ref_len'[c] = 0
    BY <1>1, <1>4, <1>13 DEF AInv, TypeOK, RegionsApart
  <2> QED  BY <2>1, <2>2, <2>3, <2>4 DEF RegionsApart
<1>18. Abstract!Alloc
  BY <1>1, <1>6, <1>9, <1>10 DEF Abstract!Alloc
<1> QED  BY <1>11, <1>12, <1>15, <1>16, <1>17, <1>18 DEF AInv

\* arena_recycle_ref: the block is free again with its last object.
LEMMA RecycleRefKeeps ==
  ASSUME AInv, NEW r \in live, RecycleRef(r)
  PROVE  AInv' /\ Abstract!Free
<1> DEFINE b == r.first
           n == ref_count[b] - 1
<1>1. r.count = 0 /\ r \in Abstract!Region /\ Abstract!InArena(r)
  BY DEF AInv, TypeOK, RegionsApart, RecycleRef
<1>2. /\ b \in Blocks /\ b \in used /\ ~InRun(b)
      /\ ref_count[b] \in 1 .. Marker /\ ref_count[b] = Cardinality(ObjectsIn(b))
  BY <1>1, ObjectBlock
<1>3. (ref_count[b] + Marker) % (Marker + 1) = n
  BY <1>2, ArenaAssumption, CountDown
<1>4. /\ ref_count' = [ref_count EXCEPT ![b] = n]
      /\ ref_len' = IF n = 0 THEN [ref_len EXCEPT ![b] = 0] ELSE ref_len
      /\ used' = IF n = 0 THEN used \ {b} ELSE used
      /\ live' = live \ {r}
      /\ UNCHANGED <<now, head>>
  BY <1>3 DEF RecycleRef, Rewound
<1>5. /\ ObjectsIn(b)' = ObjectsIn(b) \ {r} /\ r \in ObjectsIn(b)
      /\ \A c : c # b => ObjectsIn(c)' = ObjectsIn(c)
  BY <1>1, <1>4 DEF ObjectsIn
<1>6. Cardinality(ObjectsIn(b)') = n /\ IsFiniteSet(ObjectsIn(b)')
  BY <1>2, <1>5, ObjectsFinite, FS_RemoveElement DEF AInv
<1>7. n = 0 <=> ObjectsIn(b)' = {}
  BY <1>6, FS_EmptySet
<1>8. \A c : InRun(c)' <=> InRun(c)
  BY <1>1, <1>4 DEF InRun
<1>9. Abstract!BlocksOf(r) = {b}
  BY <1>1, RegionBlocks
<1>10. \A t \in live' : b \in Abstract!BlocksOf(t) <=> t \in ObjectsIn(b)'
  <2> SUFFICES ASSUME NEW t \in live'
               PROVE  b \in Abstract!BlocksOf(t) <=> t \in ObjectsIn(b)'
    OBVIOUS
  <2>1. t \in live /\ t \in Abstract!Region /\ Abstract!InArena(t)
    BY <1>4 DEF AInv, TypeOK, RegionsApart
  <2>2. CASE t.count > 0
    BY <1>2, <2>1, <2>2, <1>4 DEF InRun, ObjectsIn
  <2>3. CASE t.count = 0
    BY <2>1, <2>3, RegionBlocks DEF ObjectsIn
  <2> QED  BY <2>1, <2>2, <2>3 DEF Abstract!Region
<1>11. TypeOK'
  <2>1. IsFiniteSet(live')  BY <1>4, FS_Subset DEF AInv, TypeOK
  <2>2. n \in 0 .. Marker /\ 0 \in 0 .. BlockBytes  BY <1>2, ArenaAssumption
  <2>3. ref_count' \in [Blocks -> 0 .. Marker]
    BY <1>4, <2>2 DEF AInv, TypeOK
  <2>4. ref_len' \in [Blocks -> 0 .. BlockBytes]
    BY <1>4, <2>2 DEF AInv, TypeOK
  <2>5. used' \in SUBSET Blocks /\ live' \in SUBSET Abstract!Region
    BY <1>4 DEF AInv, TypeOK
  <2> QED  BY <1>4, <2>1, <2>3, <2>4, <2>5 DEF AInv, TypeOK
<1>12. BitmapExact'
  <2> SUFFICES ASSUME NEW c
               PROVE  c \in used' <=> \E t \in live' : c \in Abstract!BlocksOf(t)
    BY DEF BitmapExact
  <2>1. CASE c = b
    BY <1>2, <1>4, <1>7, <1>10, <2>1 DEF ObjectsIn
  <2>2. CASE c # b
    <3>1. c \in used' <=> c \in used  BY <1>4, <2>2
    <3>2. c \notin Abstract!BlocksOf(r)  BY <1>9, <2>2
    <3> QED  BY <1>4, <3>1, <3>2, UsedBlock DEF AInv
  <2> QED  BY <2>1, <2>2
<1>13. CountsExact'
  <2> SUFFICES ASSUME NEW c \in Blocks
               PROVE  /\ InRun(c)' => ref_count'[c] = Marker
                      /\ ~InRun(c)' => /\ ref_count'[c] = Cardinality(ObjectsIn(c)')
                                       /\ ref_count'[c] = 0 => ref_len'[c] = 0
    BY DEF CountsExact
  <2>1. CASE c = b
    BY <1>2, <1>4, <1>6, <1>8, <2>1 DEF AInv, TypeOK
  <2>2. CASE c # b
    BY <1>4, <1>5, <1>8, <2>2 DEF AInv, TypeOK, CountsExact
  <2> QED  BY <2>1, <2>2
<1>14. HeadIntact'
  BY <1>4 DEF AInv, HeadIntact
<1>15. RegionsApart'
  <2>1. ASSUME NEW t \in live', t.count = 0
        PROVE  t.len > 0 /\ t.off + t.len <= ref_len'[t.first]
    <3>1. t \in live /\ t.len > 0 /\ t.off + t.len <= ref_len[t.first]
      BY <1>4, <2>1 DEF AInv, RegionsApart
    <3>2. n = 0 => t.first # b
      BY <1>7, <2>1 DEF ObjectsIn
    <3>3. t.first \in Blocks
      BY <3>1, RegionBlocks DEF AInv, TypeOK, RegionsApart
    <3> QED  BY <1>4, <3>1, <3>2, <3>3 DEF AInv, TypeOK
  <2>2. \A c \in Blocks : InRun(c)' => ref_len'[c] = 0
    BY <1>4, <1>8 DEF AInv, TypeOK, RegionsApart
  <2> QED  BY <1>4, <2>1, <2>2 DEF AInv, RegionsApart
<1>16. Abstract!Free
  BY <1>4 DEF Abstract!Free
<1> QED  BY <1>11, <1>12, <1>13, <1>14, <1>15, <1>16 DEF AInv

\* arena_clean
LEMMA CleanKeeps ==
  ASSUME AInv, Clean
  PROVE  AInv' /\ Abstract!Clear
<1>1. /\ used' = {} /\ now' = 0 /\ live' = {}
      /\ ref_count' = [b \in Blocks |-> 0] /\ ref_len' = [b \in Blocks |-> 0]
      /\ head' = head
  BY DEF Clean
<1>2. IsFiniteSet({}) /\ Cardinality({}) = 0  BY FS_EmptySet
<1>3. \A b : ObjectsIn(b)' = {}  BY <1>1 DEF ObjectsIn
<1>4. TypeOK'
  BY <1>1, <1>2, ArenaAssumption DEF AInv, TypeOK, Blocks
<1>5. BitmapExact' /\ HeadIntact' /\ RegionsApart' /\ CountsExact'
  BY <1>1, <1>2, <1>3 DEF BitmapExact, HeadIntact, RegionsApart, CountsExact, InRun
<1> QED  BY <1>1, <1>4, <1>5 DEF AInv, Abstract!Clear

LEMMA NextKeeps ==
  ASSUME AInv, [Next]_vars
  PROVE  AInv' /\ [Abstract!Next]_live
<1>1. ASSUME NEW n \in Counts, AllocBlock(n) PROVE AInv' /\ [Abstract!Next]_live
  BY <1>1, AllocBlockKeeps DEF Abstract!Next
<1>2. ASSUME NEW size \in Sizes, AllocRef(size) PROVE AInv' /\ [Abstract!Next]_live
  BY <1>2, AllocRefKeeps DEF Abstract!Next
<1>3. ASSUME NEW r \in live, Recycle(r) PROVE AInv' /\ [Abstract!Next]_live
  BY <1>3, RecycleKeeps DEF Abstract!Next
<1>4. ASSUME NEW r \in live, RecycleRef(r) PROVE AInv' /\ [Abstract!Next]_live
  BY <1>4, RecycleRefKeeps DEF Abstract!Next
<1>5. CASE Clean
  BY <1>5, CleanKeeps DEF Abstract!Next
<1>6. CASE UNCHANGED vars
  BY <1>6 DEF vars, AInv, TypeOK, BitmapExact, CountsExact, HeadIntact, RegionsApart,
              InRun, ObjectsIn
<1> QED  BY <1>1, <1>2, <1>3, <1>4, <1>5, <1>6 DEF Next

LEMMA Invariance == Spec => []AInv
<1>1. Init => AInv  BY InitInv
<1>2. AInv /\ [Next]_vars => AInv'  BY NextKeeps
<1> QED  BY <1>1, <1>2, PTL DEF Spec
------------------------------------------------------------------------------
\* Every field keeps its range: ref_count its width, ref_len the size of a block.
THEOREM ArenaTypeCorrect == Spec => []TypeOK
<1>1. AInv => TypeOK  BY DEF AInv
<1> QED  BY <1>1, Invariance, PTL

\* Exactly the blocks of the regions in use have their bit set, after any
\* mixture of runs and small objects: no block leaks, none is free too early.
THEOREM BitmapSafe == Spec => []BitmapExact
<1>1. AInv => BitmapExact  BY DEF AInv
<1> QED  BY <1>1, Invariance, PTL

\* ref_count is the number of small objects of a block or marks a run, although
\* it goes round.
THEOREM CountsSafe == Spec => []CountsExact
<1>1. AInv => CountsExact  BY DEF AInv
<1> QED  BY <1>1, Invariance, PTL

\* The regions in use lie in the arena and apart from each other.
THEOREM RegionsSafe == Spec => []RegionsApart
<1>1. AInv => RegionsApart  BY DEF AInv
<1> QED  BY <1>1, Invariance, PTL

\* The arena does what its header promises: each region it hands out was nobody's
\* and stays its user's until it is given back or the arena is cleaned.
THEOREM ArenaImplements == Spec => IsAllocator
<1>1. Init => Abstract!Init  BY DEF Init, Abstract!Init
<1>2. AInv /\ [Next]_vars => [Abstract!Next]_live  BY NextKeeps
<1> QED  BY <1>1, <1>2, Invariance, PTL DEF Spec, IsAllocator, Abstract!Spec
------------------------------------------------------------------------------
(***************************************************************************)
(* The loop of arena_alloc_block.                                          *)
(***************************************************************************)
\* The rounds of the loop look at the positions now, now + 1, ...: the block of each.
Wrapped(q) == IF q < Cap THEN q ELSE q - Cap
Position(t) == IF t >= now THEN t ELSE t + Cap

\* A position past the end starts again in front.
LEMMA WrappedMod ==
  ASSUME now \in Blocks, NEW q \in now .. now + Cap - 1
  PROVE  q % Cap = Wrapped(q) /\ Wrapped(q) \in Blocks
<1>0. Cap \in Nat \ {0} /\ now \in 0 .. Cap - 1  BY ArenaAssumption DEF Blocks
<1>1. CASE q < Cap
  BY <1>0, <1>1, ModSmall DEF Wrapped, Blocks
<1>2. CASE q >= Cap
  <2>1. q - Cap \in 0 .. Cap - 1  BY <1>0, <1>2
  <2>2. q % Cap = (q - Cap) % Cap  BY <1>0, <2>1
  <2> QED  BY <1>0, <1>2, <2>1, <2>2, ModSmall DEF Wrapped, Blocks
<1> QED  BY <1>0, <1>1, <1>2

\* Positions in the order of the scan.
LEMMA RankPosition ==
  ASSUME now \in Blocks, NEW t \in Blocks
  PROVE  /\ Position(t) \in now .. now + Cap - 1 /\ Wrapped(Position(t)) = t
         /\ Rank(t) = Position(t) - now
<1>0. Cap \in Nat \ {0} /\ now \in 0 .. Cap - 1 /\ t \in 0 .. Cap - 1
  BY ArenaAssumption DEF Blocks
<1>1. Position(t) \in now .. now + Cap - 1 /\ Wrapped(Position(t)) = t
  BY <1>0 DEF Position, Wrapped
<1>2. CASE t >= now
  <2>1. (t - now + Cap) % Cap = (t - now) % Cap /\ t - now \in 0 .. Cap - 1  BY <1>0, <1>2
  <2> QED  BY <1>0, <1>1, <1>2, <2>1, ModSmall DEF Rank, Position
<1>3. CASE t < now
  <2>1. t - now + Cap \in 0 .. Cap - 1  BY <1>0, <1>3
  <2> QED  BY <1>0, <1>1, <1>3, <2>1, ModSmall, SMTT(30) DEF Rank, Position
<1> QED  BY <1>0, <1>1, <1>2, <1>3

\* The positions from l to before e are free, and the end of the arena is not between.
FreeRun(l, e) == /\ \A q \in l .. e - 1 : Wrapped(q) \notin used
                 /\ e <= Cap \/ l >= Cap

\* A run that fits is a free run of positions before the search has gone round.
LEMMA FitsPositions ==
  ASSUME now \in Blocks, NEW n \in 1 .. Cap, NEW t \in Blocks
  PROVE  Fits(t, n) <=> FreeRun(Position(t), Position(t) + n) /\ Position(t) + n <= now + Cap
<1>0. Cap \in Nat \ {0} /\ now \in 0 .. Cap - 1 /\ t \in 0 .. Cap - 1
  BY ArenaAssumption DEF Blocks
<1> DEFINE l == Position(t)
<1>1. l \in now .. now + Cap - 1 /\ l = IF t >= now THEN t ELSE t + Cap
  BY RankPosition DEF Position
<1>2. Seen(t, n) <=> (l + n <= Cap \/ l >= Cap) /\ l + n <= now + Cap
  BY <1>0, <1>1 DEF Seen
<1>3. ASSUME Seen(t, n)
      PROVE  (\A b \in Run(t, n) : b % Cap \notin used)
               <=> \A q \in l .. l + n - 1 : Wrapped(q) \notin used
  <2>1. \A b \in Run(t, n) : b % Cap = b
    BY <1>0, <1>3, ModSmall DEF Run, Seen
  <2>2. \A b \in Run(t, n) : b + (l - t) \in l .. l + n - 1 /\ Wrapped(b + (l - t)) = b
    BY <1>0, <1>1, <1>3 DEF Run, Seen, Wrapped
  <2>3. \A q \in l .. l + n - 1 : Wrapped(q) \in Run(t, n)
    BY <1>0, <1>1, <1>3 DEF Run, Seen, Wrapped
  <2> HIDE DEF l
  <2> QED  BY <2>1, <2>2, <2>3
<1> HIDE DEF l
<1>4. CASE Seen(t, n)
  <2>1. Fits(t, n) <=> \A q \in l .. l + n - 1 : Wrapped(q) \notin used
    BY <1>3, <1>4 DEF Fits
  <2>2. FreeRun(l, l + n) <=> \A q \in l .. l + n - 1 : Wrapped(q) \notin used
    <3>1. l + n <= Cap \/ l >= Cap  BY <1>2, <1>4
    <3>2. l + n - 1 = (l + n) - 1  BY <1>0, <1>1
    <3> QED  BY <3>1, <3>2 DEF FreeRun
  <2> QED  BY <1>2, <1>4, <2>1, <2>2 DEF l
<1>5. CASE ~ Seen(t, n)
  <2>1. ~ Fits(t, n)  BY <1>5 DEF Fits
  <2>2. ~ (FreeRun(l, l + n) /\ l + n <= now + Cap)  BY <1>2, <1>5 DEF FreeRun
  <2> QED  BY <2>1, <2>2 DEF l
<1> QED  BY <1>4, <1>5

\* What the loop keeps, and one round of it.
Nothing == [run |-> 0, start |-> 0, found |-> {}]
Round(n, i, p) ==
  LET b == (now + i - 1) % Cap
      run == IF b \in used THEN 0 ELSE p.run + 1
      start == IF p.run = 0 THEN b ELSE p.start
  IN  IF p.found # {} THEN p
      ELSE [run |-> IF b = Cap - 1 THEN 0 ELSE run, start |-> start,
            found |-> IF run = n THEN {start} ELSE {}]

\* The loop is what its equation says.
LEMMA ScanUnfolds ==
  ASSUME now \in Blocks, NEW n \in Nat
  PROVE  \E f : /\ f[0] = Nothing /\ \A i \in 1 .. Cap : f[i] = Round(n, i, f[i - 1])
               /\ Scan(n) = f[Cap].found
<1>0. Cap \in Nat \ {0} /\ now \in 0 .. Cap - 1  BY ArenaAssumption DEF Blocks
<1> DEFINE A == 0 .. Cap
           V == [run : Nat, start : Nat, found : SUBSET Nat]
           G == [q \in A \X [A -> V] |->
                  IF q[1] = 0 THEN Nothing ELSE Round(n, q[1], q[2][q[1] - 1])]
           rank == [i \in A |-> i]
<1>1. rank \in [A -> Nat] /\ V # {} /\ Nothing \in V
  <2>1. Nothing \in V  BY DEF Nothing
  <2> QED  BY <1>0, <2>1
<1>2. ASSUME NEW i \in A, i # 0, NEW v \in V PROVE Round(n, i, v) \in V
  <2>1. (now + i - 1) % Cap \in Nat  BY <1>0, <1>2, ModRange
  <2> QED  BY <2>1 DEF Round
<1>3. G \in [A \X [A -> V] -> V]
  <2> SUFFICES ASSUME NEW i \in A, NEW f \in [A -> V]
               PROVE  (IF i = 0 THEN Nothing ELSE Round(n, i, f[i - 1])) \in V
    OBVIOUS
  <2>1. CASE i # 0
    <3>1. f[i - 1] \in V  BY <1>0, <2>1
    <3> QED  BY <1>2, <2>1, <3>1
  <2> QED  BY <1>1, <2>1
<1>4. LooksBelow(G, A, V, rank)
  <2> SUFFICES ASSUME NEW i \in A, NEW f \in [A -> V], NEW g \in [A -> V],
                      AgreeBelow(f, g, A, rank, rank[i]), i # 0
               PROVE  f[i - 1] = g[i - 1]
    BY DEF LooksBelow
  <2>1. i - 1 \in A /\ rank[i - 1] < rank[i]  BY <1>0
  <2> QED  BY <2>1 DEF AgreeBelow
<1>5. Recursive(G, A, V, rank)
  BY <1>1, <1>3, <1>4 DEF Recursive
<1> HIDE DEF rank, G, V, A
<1>6. PICK f \in [A -> V] : \A i \in A : f[i] = G[<<i, f>>]
  BY <1>5, RecursiveFunctionExists
<1> USE DEF A
<1>7. f = [i \in A |-> IF i = 0 THEN Nothing ELSE Round(n, i, f[i - 1])]
  BY <1>6 DEF G
<1> DEFINE Eq(h) == h = [i \in A |-> IF i = 0 THEN Nothing ELSE Round(n, i, h[i - 1])]
           c == CHOOSE h : Eq(h)
<1>8. Eq(c)  BY <1>7
<1>9. Scan(n) = c[Cap].found
  BY DEF Scan, Nothing, Round
<1> HIDE DEF c
<1>10. c[0] = Nothing /\ \A i \in 1 .. Cap : c[i] = Round(n, i, c[i - 1])
  BY <1>0, <1>8
<1> QED  BY <1>9, <1>10

\* What the loop knows when it has looked at the positions before e: with nothing
\* found, the length of the free run that ends here, which no longer one hides, and
\* that every run of n it has passed is broken; else the run of PingArena.
Looked(n, e, p) ==
  /\ p.found = {} =>
       /\ p.run \in 0 .. n - 1 /\ e - p.run >= now
       /\ \A q \in e - p.run .. e - 1 : Wrapped(q) \notin used
       /\ p.run > 0 => /\ p.start = Wrapped(e - p.run)
                       /\ e < Cap \/ e - p.run >= Cap
       /\ \A l \in now .. e :
            /\ \A q \in l .. e - 1 : Wrapped(q) \notin used
            /\ e < Cap \/ l >= Cap
            => e - l <= p.run
       /\ \A t \in Blocks : Fits(t, n) => Position(t) + n > e
  /\ p.found # {} => \E s \in Blocks : p.found = {s} /\ Chosen(s, n)

\* Before its first round the scan has looked at nothing.
LEMMA LookedFirst ==
  ASSUME now \in Blocks, NEW n \in 1 .. Cap
  PROVE  Looked(n, now, Nothing)
<1>0. Cap \in Nat \ {0} /\ now \in 0 .. Cap - 1  BY ArenaAssumption DEF Blocks
<1>1. \A t \in Blocks : Position(t) + n > now
  BY <1>0, RankPosition
<1> QED  BY <1>0, <1>1 DEF Looked, Nothing

\* A round looks at one more position.
LEMMA LookedNext ==
  ASSUME now \in Blocks, NEW n \in 1 .. Cap, NEW i \in 1 .. Cap, NEW p,
         Looked(n, now + i - 1, p)
  PROVE  Looked(n, now + i, Round(n, i, p))
<1>0. Cap \in Nat \ {0} /\ now \in 0 .. Cap - 1  BY ArenaAssumption DEF Blocks
<1>1. CASE p.found # {}
  <2>1. Round(n, i, p) = p  BY <1>1 DEF Round
  <2> QED  BY <1>1, <2>1 DEF Looked
<1>2. CASE p.found = {}
  <2> DEFINE e == now + i - 1
             b == Wrapped(e)
             run == IF b \in used THEN 0 ELSE p.run + 1
             start == IF p.run = 0 THEN b ELSE p.start
             kept == IF b = Cap - 1 THEN 0 ELSE run
             l0 == e + 1 - n
  <2>1. /\ e \in now .. now + Cap - 1 /\ e + 1 = now + i /\ e % Cap = b /\ b \in 0 .. Cap - 1
        /\ b = Cap - 1 <=> e + 1 = Cap
    <3>1. e \in now .. now + Cap - 1 /\ e + 1 = now + i  BY <1>0
    <3>2. e % Cap = b /\ b \in 0 .. Cap - 1  BY <3>1, WrappedMod DEF Blocks
    <3> QED  BY <1>0, <3>1, <3>2 DEF Wrapped
  <2>2. Round(n, i, p) = [run |-> kept, start |-> start,
                          found |-> IF run = n THEN {start} ELSE {}]
    BY <1>2, <2>1 DEF Round
  <2>3. /\ p.run \in 0 .. n - 1 /\ e - p.run >= now
        /\ \A q \in e - p.run .. e - 1 : Wrapped(q) \notin used
        /\ p.run > 0 => /\ p.start = Wrapped(e - p.run)
                        /\ e < Cap \/ e - p.run >= Cap
    BY <1>2 DEF Looked
  <2>4. \A l \in now .. e :
          /\ \A q \in l .. e - 1 : Wrapped(q) \notin used
          /\ e < Cap \/ l >= Cap
          => e - l <= p.run
    BY <1>2 DEF Looked
  <2>5. \A t \in Blocks : Fits(t, n) => Position(t) + n > e
    BY <1>2 DEF Looked
  <2> HIDE DEF e
  <2>6. \A q \in e - p.run .. e : q # e => q \in e - p.run .. e - 1
    BY <1>0, <2>1, <2>3
  \* The run that ends with this block, when it is free.
  <2>7. ASSUME b \notin used
        PROVE  /\ run = p.run + 1 /\ start = Wrapped(e - p.run)
               /\ \A q \in e - p.run .. e : Wrapped(q) \notin used
               /\ e + 1 <= Cap \/ e - p.run >= Cap
    <3>1. e - 0 = e  BY <2>1, <1>0
    <3>2. start = Wrapped(e - p.run)  BY <2>3, <3>1
    <3>3. \A q \in e - p.run .. e : Wrapped(q) \notin used  BY <2>3, <2>6, <2>7
    <3>4. e + 1 <= Cap \/ e - p.run >= Cap  BY <1>0, <2>1, <2>3
    <3> QED  BY <2>7, <3>2, <3>3, <3>4
  <2>8. CASE run = n
    <3>1. b \notin used /\ p.run + 1 = n  BY <2>8
    <3>2. l0 = e - p.run /\ l0 \in now .. now + Cap - 1 /\ l0 + n = e + 1
      BY <1>0, <2>1, <2>3, <3>1
    <3>3. start = Wrapped(l0) /\ start \in Blocks
      BY <2>7, <3>1, <3>2, WrappedMod
    <3>4. Position(start) = l0
      BY <1>0, <3>2, <3>3 DEF Position, Wrapped
    <3>5. FreeRun(l0, l0 + n) /\ l0 + n <= now + Cap
      <4>1. \A q \in l0 .. l0 + n - 1 : q \in e - p.run .. e  BY <1>0, <2>1, <3>2
      <4>2. \A q \in l0 .. (l0 + n) - 1 : Wrapped(q) \notin used
        BY <2>7, <3>1, <3>2, <4>1
      <4>3. l0 + n <= Cap \/ l0 >= Cap  BY <2>7, <3>1, <3>2
      <4>4. l0 + n <= now + Cap  BY <1>0, <2>1, <3>2
      <4> HIDE DEF l0
      <4> QED  BY <4>2, <4>3, <4>4 DEF FreeRun
    <3>6. Fits(start, n)
      BY <3>3, <3>4, <3>5, FitsPositions
    <3>7. \A t \in Blocks : Fits(t, n) => Rank(start) <= Rank(t)
      <4> SUFFICES ASSUME NEW t \in Blocks, Fits(t, n) PROVE Rank(start) <= Rank(t)
        OBVIOUS
      <4>1. Rank(start) = l0 - now  BY <3>3, <3>4, RankPosition
      <4>2. Rank(t) = Position(t) - now /\ Position(t) \in Int  BY <1>0, RankPosition
      <4>3. Position(t) + n > e  BY <2>5
      <4> QED  BY <1>0, <2>1, <4>1, <4>2, <4>3
    <3>8. Chosen(start, n)  BY <3>3, <3>6, <3>7 DEF Chosen
    <3>9. Round(n, i, p).found = {start}  BY <2>2, <2>8
    <3> QED  BY <3>3, <3>8, <3>9 DEF Looked
  <2>9. CASE run # n
    <3>1. Round(n, i, p).found = {} /\ Round(n, i, p).run = kept /\ Round(n, i, p).start = start
      BY <2>2, <2>9
    <3>2. run \in 0 .. n - 1  BY <1>0, <2>3, <2>9
    <3>3. kept = 0 \/ (kept = run /\ b \notin used /\ e + 1 # Cap)
      <4>1. CASE b = Cap - 1  BY <4>1
      <4>2. CASE b # Cap - 1 /\ b \in used  BY <4>2
      <4>3. CASE b # Cap - 1 /\ b \notin used
        <5>1. kept = run  BY <4>3
        <5> QED  BY <2>1, <4>3, <5>1
      <4> QED  BY <4>1, <4>2, <4>3
    <3>4. kept \in 0 .. n - 1  BY <1>0, <3>2, <3>3
    <3>5. kept # 0 => /\ kept = p.run + 1 /\ start = Wrapped(e - p.run)
                      /\ \A q \in e - p.run .. e : Wrapped(q) \notin used
                      /\ e + 1 <= Cap \/ e - p.run >= Cap
                      /\ e + 1 # Cap
      BY <2>7, <3>3
    <3>6. b \in used \/ b = Cap - 1 => kept = 0  OBVIOUS
    <3>7. b \notin used /\ b # Cap - 1 => kept = p.run + 1  OBVIOUS
    <3>8. b \notin used => p.run + 1 # n  BY <2>9
    <3>9. ASSUME NEW l \in now .. e + 1,
                 \A q \in l .. (e + 1) - 1 : Wrapped(q) \notin used,
                 e + 1 < Cap \/ l >= Cap
          PROVE  (e + 1) - l <= kept
      <4>1. CASE l = e + 1  BY <1>0, <2>1, <3>4, <4>1
      <4>2. CASE l # e + 1
        <5>1. l \in now .. e /\ e \in l .. (e + 1) - 1  BY <1>0, <2>1, <4>2
        <5>2. b \notin used  BY <3>9, <5>1
        <5>3. \A q \in l .. e - 1 : q \in l .. (e + 1) - 1  BY <1>0, <2>1
        <5>4. \A q \in l .. e - 1 : Wrapped(q) \notin used  BY <3>9, <5>3
        <5>5. e + 1 # Cap /\ (e < Cap \/ l >= Cap)  BY <1>0, <2>1, <3>9, <5>1
        <5>6. e - l <= p.run  BY <2>4, <5>1, <5>4, <5>5
        <5>7. kept = p.run + 1  BY <2>1, <3>7, <5>2, <5>5
        <5> HIDE DEF kept
        <5> QED  BY <1>0, <2>1, <2>3, <5>6, <5>7
      <4> QED  BY <4>1, <4>2
    <3>10. ASSUME NEW t \in Blocks, Fits(t, n) PROVE Position(t) + n > e + 1
      <4> DEFINE l == Position(t)
      <4>1. l \in now .. now + Cap - 1 /\ FreeRun(l, l + n)
        BY <3>10, RankPosition, FitsPositions
      <4>2. l + n > e  BY <2>5, <3>10
      <4> HIDE DEF l
      <4> SUFFICES ASSUME l + n = e + 1 PROVE FALSE  BY <1>0, <2>1, <4>1, <4>2 DEF l
      <4>3. \A q \in l .. (e + 1) - 1 : Wrapped(q) \notin used  BY <4>1 DEF FreeRun
      <4>4. e + 1 <= Cap \/ l >= Cap  BY <4>1 DEF FreeRun
      <4>5. l \in now .. e /\ e \in l .. (e + 1) - 1 /\ e - l = n - 1
        BY <1>0, <2>1, <4>1
      <4>6. b \notin used  BY <4>3, <4>5
      <4>7. \A q \in l .. e - 1 : q \in l .. (e + 1) - 1  BY <1>0, <2>1, <4>5
      <4>8. e < Cap \/ l >= Cap  BY <1>0, <2>1, <4>4
      <4>9. e - l <= p.run  BY <2>4, <4>3, <4>5, <4>7, <4>8
      <4> QED  BY <1>0, <2>3, <3>8, <4>5, <4>6, <4>9
    <3> HIDE DEF kept, start, b, run
    <3>11. \A q \in (e + 1) - kept .. (e + 1) - 1 : Wrapped(q) \notin used
      <4>1. CASE kept = 0  BY <1>0, <2>1, <4>1
      <4>2. CASE kept # 0
        <5>1. \A q \in (e + 1) - kept .. (e + 1) - 1 : q \in e - p.run .. e
          BY <1>0, <2>1, <2>3, <3>5, <4>2
        <5> QED  BY <3>5, <4>2, <5>1
      <4> QED  BY <4>1, <4>2
    <3>12. (e + 1) - kept >= now
      BY <1>0, <2>1, <2>3, <3>5
    <3>13. kept > 0 => /\ start = Wrapped((e + 1) - kept)
                       /\ e + 1 < Cap \/ (e + 1) - kept >= Cap
      <4> SUFFICES ASSUME kept > 0 PROVE /\ start = Wrapped((e + 1) - kept)
                                         /\ e + 1 < Cap \/ (e + 1) - kept >= Cap
        OBVIOUS
      <4>1. kept # 0  BY <3>4
      <4>2. (e + 1) - kept = e - p.run  BY <1>0, <2>1, <2>3, <3>5, <4>1
      <4> QED  BY <1>0, <2>1, <2>3, <3>5, <4>1, <4>2
    <3> DEFINE r == Round(n, i, p)
    <3>14. r.found = {} /\ r.run = kept /\ r.start = start  BY <3>1
    <3> HIDE DEF r
    <3>15. Looked(n, e + 1, r)
      BY <3>4, <3>9, <3>10, <3>11, <3>12, <3>13, <3>14 DEF Looked
    <3> QED  BY <2>1, <3>15 DEF r
  <2> QED  BY <2>8, <2>9
<1> QED  BY <1>1, <1>2

\* There is one nearest run.
LEMMA ChosenUnique ==
  ASSUME now \in Blocks, NEW n \in Nat, NEW s \in Blocks, NEW t \in Blocks,
         Chosen(s, n), Chosen(t, n)
  PROVE  s = t
<1>1. Rank(t) <= Rank(s) /\ Rank(s) <= Rank(t)  BY DEF Chosen
<1>2. /\ Rank(t) = Position(t) - now /\ Rank(s) = Position(s) - now
      /\ Wrapped(Position(t)) = t /\ Wrapped(Position(s)) = s
  BY RankPosition
<1>3. Position(t) \in Int /\ Position(s) \in Int /\ now \in Int
  BY ArenaAssumption DEF Position, Blocks
<1>4. Position(t) = Position(s)  BY <1>1, <1>2, <1>3
<1> QED  BY <1>2, <1>4

\* The loop returns the run of PingArena, and none when there is none.
LEMMA ScanIsChosen ==
  ASSUME now \in Blocks, NEW n \in 1 .. Cap
  PROVE  Scan(n) = {s \in Blocks : Chosen(s, n)}
<1>0. Cap \in Nat \ {0} /\ now \in 0 .. Cap - 1  BY ArenaAssumption DEF Blocks
<1>1. PICK f : /\ f[0] = Nothing /\ \A i \in 1 .. Cap : f[i] = Round(n, i, f[i - 1])
               /\ Scan(n) = f[Cap].found
  BY ScanUnfolds
<1> DEFINE S == {i \in Nat : i <= Cap => Looked(n, now + i, f[i])}
<1>2. 0 \in S
  <2>1. now + 0 = now  BY <1>0
  <2> QED  BY <1>1, <2>1, LookedFirst
<1>3. ASSUME NEW i \in Nat, i \in S PROVE i + 1 \in S
  <2> SUFFICES ASSUME i + 1 <= Cap PROVE Looked(n, now + (i + 1), f[i + 1])
    OBVIOUS
  <2> DEFINE j == i + 1
  <2>1. j \in 1 .. Cap /\ j - 1 = i /\ now + j - 1 = now + i  BY <1>0
  <2>2. Looked(n, now + j - 1, f[j - 1])  BY <1>0, <1>3, <2>1
  <2>3. f[j] = Round(n, j, f[j - 1])  BY <1>1, <2>1
  <2> HIDE DEF j
  <2>4. Looked(n, now + j, Round(n, j, f[j - 1]))  BY <2>1, <2>2, LookedNext
  <2> QED  BY <2>3, <2>4 DEF j
<1> HIDE DEF S
<1>4. Cap \in S  BY <1>0, <1>2, <1>3, Induction
<1>5. Looked(n, now + Cap, f[Cap])  BY <1>0, <1>4 DEF S
<1>6. CASE f[Cap].found = {}
  <2>1. \A t \in Blocks : Fits(t, n) => Position(t) + n > now + Cap  BY <1>5, <1>6 DEF Looked
  <2>2. \A t \in Blocks : Fits(t, n) => Position(t) + n <= now + Cap  BY FitsPositions
  <2>3. \A t \in Blocks : Position(t) \in Int  BY <1>0 DEF Position, Blocks
  <2>4. \A t \in Blocks : ~ Fits(t, n)  BY <1>0, <2>1, <2>2, <2>3
  <2> QED  BY <1>1, <1>6, <2>4 DEF Chosen
<1>7. CASE f[Cap].found # {}
  <2>1. PICK s \in Blocks : f[Cap].found = {s} /\ Chosen(s, n)  BY <1>5, <1>7 DEF Looked
  <2>2. \A t \in Blocks : Chosen(t, n) => t = s  BY <2>1, ChosenUnique
  <2> QED  BY <1>1, <2>1, <2>2
<1> QED  BY <1>6, <1>7

\* From every state of the bitmap, for an arena of any size and runs of any length,
\* the loop of arena_alloc_block finds the nearest run of free blocks that does not
\* go across the end, and returns NULL only when there is none.
THEOREM ScanSafe == Spec => []ScanFindsChosen
<1>1. TypeOK => ScanFindsChosen
  BY ScanIsChosen, ArenaAssumption DEF TypeOK, ScanFindsChosen
<1> QED  BY <1>1, ArenaTypeCorrect, PTL
------------------------------------------------------------------------------
(***************************************************************************)
(* The bytes of the bitmap.                                                *)
(***************************************************************************)
Bits == 0 .. Width * ByteOf(Cap + Width - 1) - 1

\* A bit, its byte and its place in the byte.
LEMMA BytePlace ==
  ASSUME NEW i \in Nat
  PROVE  /\ ByteOf(i) \in Nat /\ BitOf(i) \in ByteBits
         /\ i = Width * ByteOf(i) + BitOf(i)
BY WidthAssumption DEF ByteOf, BitOf, ByteBits

\* A byte ends before a later one begins.
LEMMA ByteEnds ==
  ASSUME NEW x \in Nat, NEW y \in Nat, x < y
  PROVE  Width * x + Width <= Width * y
<1>1. PICK d \in Nat : y = x + 1 + d  BY 0 <= y - x - 1
<1>2. Width * y = Width * x + Width + Width * d  BY <1>1, WidthAssumption
<1>3. Width * d \in Nat /\ Width * x \in Nat  BY WidthAssumption
<1> QED  BY <1>2, <1>3, WidthAssumption

\* A position has one byte and one bit in it.
LEMMA ByteUnique ==
  ASSUME NEW x \in Nat, NEW k \in ByteBits
  PROVE  /\ Width * x + k \in Nat
         /\ ByteOf(Width * x + k) = x /\ BitOf(Width * x + k) = k
<1> DEFINE i == Width * x + k
<1>0. Width * x \in Nat /\ Width \in Nat \ {0} /\ k \in 0 .. Width - 1
  BY WidthAssumption DEF ByteBits
<1>1. i \in Nat  BY <1>0
<1>2. ByteOf(i) \in Nat /\ BitOf(i) \in 0 .. Width - 1 /\ i = Width * ByteOf(i) + BitOf(i)
  BY <1>1, BytePlace DEF ByteBits
<1>3. Width * ByteOf(i) \in Nat  BY <1>0, <1>2
<1>4. ~ (ByteOf(i) < x)
  <2> SUFFICES ASSUME ByteOf(i) < x PROVE FALSE  OBVIOUS
  <2>1. Width * ByteOf(i) + Width <= Width * x  BY <1>2, ByteEnds
  <2> QED  BY <1>0, <1>2, <1>3, <2>1
<1>5. ~ (x < ByteOf(i))
  <2> SUFFICES ASSUME x < ByteOf(i) PROVE FALSE  OBVIOUS
  <2>1. Width * x + Width <= Width * ByteOf(i)  BY <1>2, ByteEnds
  <2> QED  BY <1>0, <1>2, <1>3, <2>1
<1>6. ByteOf(i) = x  BY <1>2, <1>4, <1>5
<1> DEFINE m == Width * x
<1>7. i = m + k /\ m \in Nat  BY <1>0
<1>8. i = m + BitOf(i)  BY <1>2, <1>6
<1> HIDE DEF i, m
<1>9. BitOf(i) = k  BY <1>0, <1>2, <1>7, <1>8
<1> QED  BY <1>1, <1>6, <1>9 DEF i

\* The bitmap has a byte for every block, and no block is behind the bits.
LEMMA BytesCover ==
  /\ \A i \in Bits : i \in Nat /\ ByteOf(i) \in Bytes
  /\ Blocks \subseteq Bits
<1> DEFINE N == ByteOf(Cap + Width - 1)
<1>0. Cap \in Nat \ {0} /\ Width \in Nat \ {0} /\ Cap + Width - 1 \in Nat
  BY ArenaAssumption, WidthAssumption
<1>1. /\ N \in Nat /\ BitOf(Cap + Width - 1) \in 0 .. Width - 1
      /\ Cap + Width - 1 = Width * N + BitOf(Cap + Width - 1)
  BY <1>0, BytePlace DEF ByteBits
<1>2. Width * N \in Nat  BY <1>0, <1>1
<1> HIDE DEF N
<1>3. Cap <= Width * N  BY <1>0, <1>1, <1>2
<1>4. ASSUME NEW i \in 0 .. Width * N - 1 PROVE ByteOf(i) \in 0 .. N - 1
  <2>1. i \in Nat /\ ByteOf(i) \in Nat /\ BitOf(i) \in 0 .. Width - 1
        /\ i = Width * ByteOf(i) + BitOf(i)
    BY <1>2, BytePlace DEF ByteBits
  <2>2. Width * ByteOf(i) \in Nat  BY <1>0, <2>1
  <2>3. ~ (N < ByteOf(i))
    <3> SUFFICES ASSUME N < ByteOf(i) PROVE FALSE  OBVIOUS
    <3>1. Width * N + Width <= Width * ByteOf(i)  BY <1>1, <2>1, ByteEnds
    <3> QED  BY <1>0, <1>2, <2>1, <2>2, <3>1
  <2>4. N # ByteOf(i)  BY <1>2, <2>1, <2>2
  <2> QED  BY <1>1, <2>1, <2>3, <2>4
<1> QED  BY <1>0, <1>2, <1>3, <1>4 DEF Bits, Bytes, Blocks, N

\* The bits that are set or cleared in a byte of a range are those of the range,
\* in the first byte, in the last one, in one between and in a single one.
LEMMA MaskExact ==
  ASSUME NEW s \in Nat, NEW e \in Nat, s <= e, NEW i \in Nat
  PROVE  i \in s .. e <=> /\ ByteOf(i) \in ByteOf(s) .. ByteOf(e)
                         /\ BitOf(i) \in Mask(ByteOf(i), s, e)
<1> DEFINE x == ByteOf(i)
           k == BitOf(i)
           u == ByteOf(s)
           v == ByteOf(e)
           ks == BitOf(s)
           ke == BitOf(e)
           wx == Width * x
           wu == Width * u
           wv == Width * v
<1>1. /\ x \in Nat /\ u \in Nat /\ v \in Nat /\ Width \in Nat \ {0}
      /\ k \in 0 .. Width - 1 /\ ks \in 0 .. Width - 1 /\ ke \in 0 .. Width - 1
      /\ i = wx + k /\ s = wu + ks /\ e = wv + ke
  BY BytePlace, WidthAssumption DEF ByteBits
<1>2. wx \in Nat /\ wu \in Nat /\ wv \in Nat  BY <1>1
<1>3. /\ x < u => wx + Width <= wu
      /\ u < x => wu + Width <= wx
      /\ x < v => wx + Width <= wv
      /\ v < x => wv + Width <= wx
      /\ v < u => wv + Width <= wu
      /\ u < v => wu + Width <= wv
  BY <1>1, ByteEnds
<1>4. (x = u => wx = wu) /\ (x = v => wx = wv) /\ (u = v => wu = wv)  OBVIOUS
<1>5. k \in Mask(x, s, e) <=> k \in Mask(x, s, e) /\ k \in ByteBits
  BY <1>1 DEF ByteBits
<1> HIDE DEF x, k, u, v, ks, ke, wx, wu, wv
<1>6. u <= v  BY <1>1, <1>2, <1>3
<1>7. CASE x < u
  <2>1. ~ (i \in s .. e)  BY <1>1, <1>2, <1>3, <1>7
  <2> QED  BY <1>1, <1>7, <2>1 DEF x, u, v
<1>8. CASE v < x
  <2>1. ~ (i \in s .. e)  BY <1>1, <1>2, <1>3, <1>8
  <2> QED  BY <1>1, <1>8, <2>1 DEF x, u, v
<1>9. CASE x \in u .. v
  <2>1. CASE u = v
    <3>1. Mask(x, s, e) = Shifted(Ones(e - s + 1), ks)  BY <2>1 DEF Mask, u, v, ks
    <3>2. k \in Mask(x, s, e) <=> k - ks \in 0 .. e - s
      <4>1. \A b : b \in Shifted(Ones(e - s + 1), ks)
                     <=> b \in ByteBits /\ \E a \in 0 .. e - s + 1 - 1 : b = a + ks
        BY DEF Shifted, Ones
      <4>2. k \in ByteBits  BY <1>1 DEF ByteBits
      <4> QED  BY <1>1, <3>1, <4>1, <4>2
    <3>3. i \in s .. e <=> k - ks \in 0 .. e - s  BY <1>1, <1>2, <1>4, <1>9, <2>1
    <3> QED  BY <1>9, <3>2, <3>3 DEF x, k, u, v
  <2>2. CASE u # v /\ x = u
    <3>1. Mask(x, s, e) = Shifted(ByteBits, ks)  BY <2>2 DEF Mask, x, u, v, ks
    <3>2. k \in Mask(x, s, e) <=> k >= ks
      <4>1. \A b : b \in Shifted(ByteBits, ks)
                     <=> b \in ByteBits /\ \E a \in 0 .. Width - 1 : b = a + ks
        BY DEF Shifted, ByteBits
      <4>2. k \in ByteBits  BY <1>1 DEF ByteBits
      <4>3. k >= ks => k - ks \in 0 .. Width - 1 /\ k = (k - ks) + ks  BY <1>1
      <4>4. \A a \in 0 .. Width - 1 : k = a + ks => k >= ks  BY <1>1
      <4> QED  BY <3>1, <4>1, <4>2, <4>3, <4>4
    <3>3. i \in s .. e <=> k >= ks  BY <1>1, <1>2, <1>3, <1>4, <1>6, <2>2
    <3> QED  BY <1>9, <3>2, <3>3 DEF x, k, u, v
  <2>3. CASE u # v /\ x = v
    <3>1. Mask(x, s, e) = Ones(ke + 1)  BY <2>3 DEF Mask, x, u, v, ke
    <3>2. k \in Mask(x, s, e) <=> k <= ke  BY <1>1, <3>1 DEF Ones
    <3>3. i \in s .. e <=> k <= ke  BY <1>1, <1>2, <1>3, <1>4, <1>6, <2>3
    <3> QED  BY <1>9, <3>2, <3>3 DEF x, k, u, v
  <2>4. CASE u # v /\ x # u /\ x # v
    <3>1. Mask(x, s, e) = ByteBits  BY <2>4 DEF Mask, x, u, v
    <3>2. k \in Mask(x, s, e)  BY <1>1, <3>1 DEF ByteBits
    <3>3. i \in s .. e
      <4>1. u < x /\ x < v  BY <1>1, <1>9, <2>4
      <4> QED  BY <1>1, <1>2, <1>3, <4>1
    <3> QED  BY <1>9, <3>2, <3>3 DEF x, k, u, v
  <2> QED  BY <2>1, <2>2, <2>3, <2>4
<1> QED  BY <1>1, <1>7, <1>8, <1>9

BitmapType == bitmap \in [Bytes -> SUBSET ByteBits]

\* bitmap_set_range and bitmap_unset_range, bit by bit.
LEMMA SetRangeExact ==
  ASSUME BitmapType, NEW s \in Nat, NEW e \in Nat, s <= e, NEW i \in Bits
  PROVE  BitGet(SetRange(bitmap, s, e), i) <=> BitGet(bitmap, i) \/ i \in s .. e
<1>1. i \in Nat /\ ByteOf(i) \in Bytes  BY BytesCover
<1>2. i \in s .. e <=> /\ ByteOf(i) \in ByteOf(s) .. ByteOf(e)
                      /\ BitOf(i) \in Mask(ByteOf(i), s, e)
  BY <1>1, MaskExact
<1> QED  BY <1>1, <1>2 DEF BitGet, SetRange

\* Clearing a range of bits.
LEMMA UnsetRangeExact ==
  ASSUME BitmapType, NEW s \in Nat, NEW e \in Nat, s <= e, NEW i \in Bits
  PROVE  BitGet(UnsetRange(bitmap, s, e), i) <=> BitGet(bitmap, i) /\ i \notin s .. e
<1>1. i \in Nat /\ ByteOf(i) \in Bytes  BY BytesCover
<1>2. i \in s .. e <=> /\ ByteOf(i) \in ByteOf(s) .. ByteOf(e)
                      /\ BitOf(i) \in Mask(ByteOf(i), s, e)
  BY <1>1, MaskExact
<1> QED  BY <1>1, <1>2 DEF BitGet, UnsetRange

\* A mask has bits of a byte only.
LEMMA RangeType ==
  ASSUME BitmapType, NEW s \in Nat, NEW e \in Nat
  PROVE  /\ SetRange(bitmap, s, e) \in [Bytes -> SUBSET ByteBits]
         /\ UnsetRange(bitmap, s, e) \in [Bytes -> SUBSET ByteBits]
<1>1. ASSUME NEW x \in Bytes PROVE Mask(x, s, e) \subseteq ByteBits
  <2>1. BitOf(e) \in 0 .. Width - 1 /\ Width \in Nat \ {0}
    BY BytePlace, WidthAssumption DEF ByteBits
  <2>2. Ones(BitOf(e) + 1) \subseteq ByteBits  BY <2>1 DEF Ones, ByteBits
  <2>3. \A mask, k : Shifted(mask, k) \subseteq ByteBits  BY DEF Shifted
  <2> QED  BY <2>2, <2>3 DEF Mask
<1> QED  BY <1>1 DEF BitmapType, SetRange, UnsetRange
------------------------------------------------------------------------------
(***************************************************************************)
(* The bitmap follows the arena.                                           *)
(***************************************************************************)
BitsInv == /\ AInv /\ BitmapType
           /\ \A i \in Bits : BitGet(bitmap, i) <=> i \in used

\* The arena with bytes takes the steps of the arena with blocks.
LEMMA BitsNextIsNext == [BitsNext]_bitVars => [Next]_vars
<1>1. BitsNext => Next
  BY DEF BitsNext, Next, AllocBlockBits, AllocRefBits, RecycleBits, RecycleRefBits, CleanBits
<1> QED  BY <1>1 DEF bitVars

\* The bytes are written beside the arena: they change none of its steps.
THEOREM BitsImplement == BitsSpec => Spec
<1>1. BitsInit => Init  BY DEF BitsInit
<1> QED  BY <1>1, BitsNextIsNext, PTL DEF BitsSpec, Spec

\* The bytes agree with the blocks at the start.
LEMMA InitBits == BitsInit => BitsInv
<1> SUFFICES ASSUME BitsInit PROVE BitsInv  OBVIOUS
<1>1. AInv  BY InitInv DEF BitsInit
<1>2. BitmapType  BY DEF BitsInit, BitmapType
<1>3. \A i \in Bits : ~ BitGet(bitmap, i)  BY BytesCover DEF BitsInit, BitGet
<1> QED  BY <1>1, <1>2, <1>3 DEF BitsInit, Init, BitsInv

\* A step that sets the bits of the blocks it takes.
LEMMA BitsSet ==
  ASSUME BitsInv, AInv', NEW s \in Nat, NEW e \in Nat, s <= e,
         used' = used \union (s .. e), bitmap' = SetRange(bitmap, s, e)
  PROVE  BitsInv'
<1>1. \A i \in Bits : BitGet(bitmap', i) <=> BitGet(bitmap, i) \/ i \in s .. e
  BY SetRangeExact DEF BitsInv
<1>2. BitmapType'  BY RangeType DEF BitsInv, BitmapType
<1>3. \A i \in Bits : BitGet(bitmap', i) <=> i \in used'  BY <1>1 DEF BitsInv
<1> QED  BY <1>2, <1>3 DEF BitsInv, Bits, BitGet

\* A step that clears the bits of the blocks it frees.
LEMMA BitsCleared ==
  ASSUME BitsInv, AInv', NEW s \in Nat, NEW e \in Nat, s <= e,
         used' = used \ (s .. e), bitmap' = UnsetRange(bitmap, s, e)
  PROVE  BitsInv'
<1>1. \A i \in Bits : BitGet(bitmap', i) <=> BitGet(bitmap, i) /\ i \notin s .. e
  BY UnsetRangeExact DEF BitsInv
<1>2. BitmapType'  BY RangeType DEF BitsInv, BitmapType
<1>3. \A i \in Bits : BitGet(bitmap', i) <=> i \in used'  BY <1>1 DEF BitsInv
<1> QED  BY <1>2, <1>3 DEF BitsInv, Bits, BitGet

\* A step that leaves the blocks alone leaves the bytes.
LEMMA BitsUnchanged ==
  ASSUME BitsInv, AInv', used' = used, bitmap' = bitmap
  PROVE  BitsInv'
BY DEF BitsInv, BitmapType, Bits, BitGet

\* Every step keeps the agreement of bytes and blocks.
LEMMA BitsKeep ==
  ASSUME BitsInv, [BitsNext]_bitVars
  PROVE  BitsInv'
<1>0. AInv'  BY BitsNextIsNext, NextKeeps DEF BitsInv
<1>a. Cap \in Nat \ {0} /\ Counts \subseteq 1 .. Cap  BY ArenaAssumption
<1>b. TypeOK  BY DEF BitsInv, AInv
<1>1. ASSUME NEW n \in Counts, AllocBlockBits(n) PROVE BitsInv'
  <2>1. PICK s \in Blocks : Chosen(s, n) /\ used' = used \union Run(s, n)
    BY <1>1 DEF AllocBlockBits, AllocBlock
  <2>2. PICK t \in Blocks : Chosen(t, n) /\ bitmap' = SetRange(bitmap, t, t + n - 1)
    BY <1>1 DEF AllocBlockBits
  <2>3. s = t  BY <1>a, <1>b, <2>1, <2>2, ChosenUnique DEF TypeOK
  <2>4. s \in Nat /\ s + n - 1 \in Nat /\ s <= s + n - 1  BY <1>a DEF Blocks
  <2>5. used' = used \union (s .. s + n - 1)  BY <2>1 DEF Run
  <2> QED  BY <1>0, <2>2, <2>3, <2>4, <2>5, BitsSet
<1>2. ASSUME NEW size \in Sizes, AllocRefBits(size) PROVE BitsInv'
  <2>1. PICK b \in Blocks : used' = used \union {b} /\ now' = (b + 1) % Cap
    BY <1>2 DEF AllocRefBits, AllocRef
  <2>2. (now' + Cap - 1) % Cap = b
    <3>1. b \in 0 .. Cap - 1  BY DEF Blocks
    <3>2. CASE b + 1 < Cap
      <4>1. now' = b + 1  BY <1>a, <2>1, <3>1, <3>2, ModSmall
      <4>2. now' + Cap - 1 = b + Cap /\ (b + Cap) % Cap = b % Cap  BY <1>a, <3>1, <4>1
      <4> QED  BY <1>a, <3>1, <4>2, ModSmall
    <3>3. CASE b + 1 = Cap
      <4>1. now' = 0  BY <1>a, <2>1, <3>3
      <4>2. now' + Cap - 1 = b  BY <1>a, <3>1, <3>3, <4>1
      <4> QED  BY <1>a, <3>1, <4>2, ModSmall
    <3> QED  BY <1>a, <3>1, <3>2, <3>3
  <2>3. bitmap' = SetRange(bitmap, b, b)  BY <1>2, <2>2 DEF AllocRefBits
  <2>4. b \in Nat /\ b <= b /\ {b} = b .. b  BY <1>a DEF Blocks
  <2> QED  BY <1>0, <2>1, <2>3, <2>4, BitsSet
<1>3. ASSUME NEW r \in live, RecycleBits(r) PROVE BitsInv'
  <2> DEFINE s == r.first
             e == r.first + head[r.first] - 1
  <2>1. r.count > 0 /\ used' = used \ Run(s, head[s]) /\ bitmap' = UnsetRange(bitmap, s, e)
    BY <1>3 DEF RecycleBits, Recycle
  <2>2. r \in Abstract!Region /\ Abstract!InArena(r) /\ head[s] = r.count
    BY <1>3, <2>1 DEF BitsInv, AInv, RegionsApart, HeadIntact, TypeOK
  <2>3. s \in Nat /\ r.count \in Nat
    <3>1. s \in Blocks  BY <2>2, RegionBlocks
    <3> QED  BY <1>a, <2>2, <3>1 DEF Blocks, Abstract!Region
  <2>4. e \in Nat /\ s <= e  BY <2>1, <2>2, <2>3
  <2>5. used' = used \ (s .. e)  BY <2>1 DEF Run
  <2> QED  BY <1>0, <2>1, <2>3, <2>4, <2>5, BitsCleared
<1>4. ASSUME NEW r \in live, RecycleRefBits(r) PROVE BitsInv'
  <2> DEFINE b == r.first
             n == (ref_count[b] + Marker) % (Marker + 1)
  <2>1. /\ r.count = 0 /\ ref_count' = [ref_count EXCEPT ![b] = n]
        /\ used' = IF n = 0 THEN used \ {b} ELSE used
        /\ bitmap' = IF ref_count'[b] = 0 THEN UnsetRange(bitmap, b, b) ELSE bitmap
    BY <1>4 DEF RecycleRefBits, RecycleRef
  <2>2. b \in Blocks  BY <2>1, ObjectBlock DEF BitsInv
  <2>3. ref_count'[b] = n  BY <1>b, <2>1, <2>2 DEF TypeOK
  <2>4. b \in Nat /\ b <= b /\ {b} = b .. b  BY <1>a, <2>2 DEF Blocks
  <2> HIDE DEF b, n
  <2>5. CASE n = 0  BY <1>0, <2>1, <2>3, <2>4, <2>5, BitsCleared
  <2>6. CASE n # 0  BY <1>0, <2>1, <2>3, <2>6, BitsUnchanged
  <2> QED  BY <2>5, <2>6
<1>5. CASE CleanBits
  <2>1. used' = {} /\ bitmap' = [x \in Bytes |-> {}]
    BY <1>5 DEF CleanBits, Clean
  <2>2. \A i \in Bits : ~ BitGet(bitmap', i)  BY <2>1, BytesCover DEF BitGet
  <2>3. BitmapType'  BY <2>1 DEF BitmapType
  <2> QED  BY <1>0, <2>1, <2>2, <2>3 DEF BitsInv, Bits, BitGet
<1>6. CASE UNCHANGED bitVars
  BY <1>0, <1>6, BitsUnchanged DEF bitVars, vars
<1> QED  BY <1>1, <1>2, <1>3, <1>4, <1>5, <1>6 DEF BitsNext

\* Whatever the sizes of the arena and of a byte, the bits that are set are those of
\* the blocks in use: a range over the border of bytes sets or clears neither a bit
\* of its neighbours nor one behind the arena, and misses none of its own.
THEOREM BitsSafe == BitsSpec => []BitsExact
<1>1. BitsInv => BitsExact
  BY BytesCover DEF BitsInv, BitsExact, AInv, TypeOK, Bits
<1> QED  BY <1>1, InitBits, BitsKeep, PTL DEF BitsSpec
==============================================================================
