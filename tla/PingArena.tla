----------------------------- MODULE PingArena -----------------------------
(***************************************************************************)
(* ds/ping_arena.c: the memory of all connections.  Buffers are runs of    *)
(* whole blocks found in a bitmap, small objects share a block that counts *)
(* its references.  The users give back what they were given, once, and    *)
(* stay inside it; ConnBuffers shows that connection_recv does not.        *)
(***************************************************************************)
EXTENDS Integers, FiniteSets

CONSTANTS
  Cap,         \* blocks of the arena
  BlockBytes,  \* PING_ARENA_BLOCK_SIZE
  Marker,      \* (uint8_t)(-1), what ref_count is for the blocks of a run
  Counts,      \* bound: lengths of the runs that are asked for
  Sizes        \* bound: sizes of the small objects that are asked for

ASSUME ArenaAssumption ==
  /\ Cap \in Nat \ {0} /\ BlockBytes \in Nat \ {0} /\ Marker \in Nat \ {0}
  /\ Counts \subseteq 1 .. Cap /\ Sizes \subseteq 1 .. BlockBytes

VARIABLES
  used,        \* the blocks whose bit is set in bitmap
  ref_count,   \* of every block
  ref_len,     \* of every block: where the next small object goes
  now,         \* the block where the next search begins
  head,        \* empty[0] of every block: length of the run that begins there
  live         \* regions the users have: history of what was returned

vars == <<used, ref_count, ref_len, now, head, live>>

Blocks == 0 .. Cap - 1
UserData == -1                 \* a head that is not the length of a run

Init ==
  /\ used = {} /\ now = 0 /\ live = {}
  /\ ref_count = [b \in Blocks |-> 0]
  /\ ref_len = [b \in Blocks |-> 0]
  /\ head \in [Blocks -> {UserData}]
------------------------------------------------------------------------------
(***************************************************************************)
(* Runs of blocks.                                                         *)
(***************************************************************************)
Run(s, n) == s .. s + n - 1
RunRegion(s, n) == [first |-> s, count |-> n, off |-> 0, len |-> 0]

\* Blocks are tried from now on, round the end of the arena.
Rank(b) == (b - now + Cap) % Cap

\* A search that starts at now does not see a run across now, and one across
\* the end of the arena is none.  Mutant: the count of free blocks goes on when
\* the search comes to the end.
Seen_AcrossEnd(s, n) == TRUE
Seen(s, n) == s + n <= Cap /\ (s >= now \/ s + n <= now)

Fits(s, n) == Seen(s, n) /\ \A b \in Run(s, n) : b % Cap \notin used

\* The place where arena_alloc_block puts a run of n blocks.
Chosen(s, n) ==
  /\ s \in Blocks /\ Fits(s, n)
  /\ \A t \in Blocks : Fits(t, n) => Rank(s) <= Rank(t)

\* arena_alloc_block
AllocBlock(n) ==
  \E s \in Blocks :
    /\ Chosen(s, n)
    /\ used' = used \union Run(s, n)
    /\ ref_count' = [b \in Blocks |-> IF b \in Run(s, n) THEN Marker ELSE ref_count[b]]
    /\ now' = (s + n) % Cap
    /\ head' = [head EXCEPT ![s] = n]
    /\ live' = live \union {RunRegion(s, n)}
    /\ UNCHANGED ref_len

\* arena_recycle finds the length of the run in front of what it is given.
\* Mutant: the counts of the run are left as they are.
Uncounted_Not(s) == ref_count
Uncounted(s) == [b \in Blocks |-> IF b \in Run(s, head[s]) THEN 0 ELSE ref_count[b]]

Recycle(r) ==
  /\ r \in live /\ r.count > 0
  /\ used' = used \ Run(r.first, head[r.first])
  /\ ref_count' = Uncounted(r.first)
  /\ live' = live \ {r}
  /\ UNCHANGED <<ref_len, now, head>>
------------------------------------------------------------------------------
(***************************************************************************)
(* Small objects, one behind the other in a block.                         *)
(***************************************************************************)
RefRegion(b, off, len) == [first |-> b, count |-> 0, off |-> off, len |-> len]

\* A free block, or one of small objects with room.  Mutant: a run is not told
\* from small objects.
HasRoom_AnyUse(b, size) == b \notin used \/ ref_len[b] + size < BlockBytes
HasRoom(b, size) ==
  \/ b \notin used
  \/ ref_count[b] # Marker /\ ref_len[b] + size < BlockBytes

\* arena_alloc_ref_block.  ref_count has the width of Marker.
AllocRef(size) ==
  \E b \in Blocks :
    /\ HasRoom(b, size)
    /\ \A c \in Blocks : HasRoom(c, size) => Rank(b) <= Rank(c)
    /\ used' = used \union {b}
    /\ ref_len' = [ref_len EXCEPT ![b] = @ + size]
    /\ ref_count' = [ref_count EXCEPT ![b] = (@ + 1) % (Marker + 1)]
    /\ now' = (b + 1) % Cap
    /\ head' = IF ref_len[b] = 0 THEN [head EXCEPT ![b] = UserData] ELSE head
    /\ live' = live \union {RefRegion(b, ref_len[b], size)}

\* The block starts from the beginning when nothing in it is referenced any
\* more.  Mutant: it starts from the beginning at once.
Rewound_AtOnce(b, n) == TRUE
Rewound(b, n) == n = 0

\* arena_recycle_ref
RecycleRef(r) ==
  /\ r \in live /\ r.count = 0
  /\ LET b == r.first
         n == (ref_count[b] + Marker) % (Marker + 1)
     IN  /\ ref_count' = [ref_count EXCEPT ![b] = n]
         /\ ref_len' = IF Rewound(b, n) THEN [ref_len EXCEPT ![b] = 0] ELSE ref_len
         /\ used' = IF n = 0 THEN used \ {b} ELSE used
  /\ live' = live \ {r}
  /\ UNCHANGED <<now, head>>

\* arena_clean
Clean ==
  /\ used' = {} /\ now' = 0 /\ live' = {}
  /\ ref_count' = [b \in Blocks |-> 0]
  /\ ref_len' = [b \in Blocks |-> 0]
  /\ UNCHANGED head

Next ==
  \/ \E n \in Counts : AllocBlock(n)
  \/ \E size \in Sizes : AllocRef(size)
  \/ \E r \in live : Recycle(r) \/ RecycleRef(r)
  \/ Clean

Spec == Init /\ [][Next]_vars
------------------------------------------------------------------------------
(***************************************************************************)
(* Properties.                                                             *)
(***************************************************************************)
Abstract == INSTANCE Allocator

TypeOK ==
  /\ used \in SUBSET Blocks /\ now \in Blocks
  /\ ref_count \in [Blocks -> 0 .. Marker]
  /\ ref_len \in [Blocks -> 0 .. BlockBytes]
  /\ head \in [Blocks -> Nat \union {UserData}]
  /\ live \in SUBSET Abstract!Region /\ IsFiniteSet(live)

\* What is handed out stays inside the arena and apart from everything that is
\* in use, runs and small objects alike.
IsAllocator == Abstract!Spec

\* No block is lost and none is given back too early: exactly the blocks of the
\* regions in use have their bit set.
BitmapExact == used = UNION {Abstract!BlocksOf(r) : r \in live}

InRun(b) == \E r \in live : r.count > 0 /\ b \in Abstract!BlocksOf(r)
ObjectsIn(b) == {r \in live : r.count = 0 /\ r.first = b}

\* The blocks of a run hold the marker, any other block counts the small objects
\* in it, and a free block starts from nothing.  (A count may reach the marker
\* too.  The block then looks like one of a run and gets no further object.)
CountsExact ==
  \A b \in Blocks :
    /\ InRun(b) => ref_count[b] = Marker
    /\ ~InRun(b) => /\ ref_count[b] = Cardinality(ObjectsIn(b))
                    /\ ref_count[b] = 0 => ref_len[b] = 0

\* The length arena_recycle will read in front of a run is the one that
\* arena_alloc_block put there.  No call of the arena writes over it; a user can.
HeadIntact == \A r \in live : r.count > 0 => head[r.first] = r.count

\* What makes bitmap, counts and lengths provable together, and with them the
\* refinement: regions lie apart inside the arena, a small object ends before
\* ref_len of its block, and a run leaves the ref_len of its blocks at 0.
RegionsApart ==
  /\ \A r \in live : Abstract!InArena(r)
  /\ \A r, t \in live : r # t => Abstract!Apart(r, t)
  /\ \A r \in live : r.count = 0 => r.len > 0 /\ r.off + r.len <= ref_len[r.first]
  /\ \A b \in Blocks : InRun(b) => ref_len[b] = 0

\* The loop of arena_alloc_block after i rounds, and the run it returns.
Scan(n) ==
  LET loop[i \in 0 .. Cap] ==
        IF i = 0 THEN [run |-> 0, start |-> 0, found |-> {}]
        ELSE LET p == loop[i - 1]
                 b == (now + i - 1) % Cap
                 run == IF b \in used THEN 0 ELSE p.run + 1
                 start == IF p.run = 0 THEN b ELSE p.start
             IN  IF p.found # {} THEN p
                 ELSE [run |-> IF b = Cap - 1 THEN 0 ELSE run, start |-> start,
                       found |-> IF run = n THEN {start} ELSE {}]
  IN  loop[Cap].found

\* The loop finds what Chosen says of it, from every state of the bitmap.
ScanFindsChosen == \A n \in Counts : Scan(n) = {s \in Blocks : Chosen(s, n)}
=============================================================================
