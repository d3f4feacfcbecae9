----------------------------- MODULE Allocator -----------------------------
(***************************************************************************)
(* What ds/ping_arena.h promises its users: every region it hands out is   *)
(* theirs alone until they give it back.                                   *)
(***************************************************************************)
EXTENDS Integers

CONSTANTS
  Cap,                 \* blocks of the arena
  BlockBytes           \* bytes of a block

VARIABLE live          \* regions handed out and not given back

\* A region is count blocks from block first on, or, when count is 0, the len
\* bytes behind byte off of block first.
Region == [first : Nat, count : Nat, off : Nat, len : Nat]

BlocksOf(r) == r.first .. (IF r.count = 0 THEN r.first ELSE r.first + r.count - 1)

Apart(r, t) ==
  \/ BlocksOf(r) \intersect BlocksOf(t) = {}
  \/ /\ r.count = 0 /\ t.count = 0
     /\ r.off + r.len <= t.off \/ t.off + t.len <= r.off

InArena(r) ==
  /\ r.count = 0 => r.off + r.len <= BlockBytes
  /\ BlocksOf(r) \subseteq 0 .. Cap - 1

Init == live = {}

Alloc ==
  \E r \in live' \ live :
    /\ live' = live \union {r}
    /\ r \in Region /\ InArena(r)
    /\ \A t \in live : Apart(r, t)

Free == \E r \in live : live' = live \ {r}

\* arena_clean takes everything back at once.
Clear == live' = {}

Next == Alloc \/ Free \/ Clear

Spec == Init /\ [][Next]_live
=============================================================================
