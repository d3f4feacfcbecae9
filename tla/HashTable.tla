----------------------------- MODULE HashTable -----------------------------
(***************************************************************************)
(* ds/hash_table.c: open addressing with quadratic probing, tombstones and *)
(* a rebuild of the same size when there are too many of those.            *)
(***************************************************************************)
EXTENDS Primes

CONSTANTS
  Capacity,    \* the number of elements hash_create was asked for
  Keys, Vals,  \* bound: what is stored; keys are hash values
  MaxCount,    \* bound: alive_count, which only a rebuild ever lowers
  Wrap         \* 2^32, where the square in hash_delete begins again

\* hash_create searches the table of primes from -1 to its size, which only ends
\* in the table when there is an entry.
ASSUME HashAssumption ==
  /\ Table # << >> /\ Capacity \in Nat \ {0} /\ SizeFor(Table, Capacity) # NoSize
  /\ Keys \subseteq Nat /\ MaxCount \in Nat
  \* The square of a step does not overflow: tables of less than 65536 entries.
  /\ Wrap \in Nat
  /\ (SizeFor(Table, Capacity) - 1) * (SizeFor(Table, Capacity) - 1) < Wrap

\* What hash_create takes from the table of primes.
Entries == SizeFor(Table, Capacity)

HashSlots == 0 .. Entries - 1
NoKey == -1
NoVal == "none"

EmptyEntry == [status |-> "empty", key |-> NoKey, val |-> NoVal]
Alive(k, v) == [status |-> "alive", key |-> k, val |-> v]

VARIABLES
  h,           \* table, delete_count and alive_count
  taken        \* history: of every key that was inserted and not deleted the
               \* values that hash_insert returned TRUE for, in order, each once

hashVars == <<h, taken>>

NewTable == [table |-> [p \in HashSlots |-> EmptyEntry], deleted |-> 0, alive |-> 0]

Probe(k, i) == (k + i * i) % Entries

Lowest(S) == CHOOSE i \in S : \A j \in S : i <= j

\* The first step of the probing that ends it: an empty entry, or the key
\* itself; Entries when none does.  Mutant: a tombstone ends it too.
EndOf_Tombstone(t, k) ==
  Lowest({i \in HashSlots : t[Probe(k, i)].status # "alive" \/ t[Probe(k, i)].key = k}
         \union {Entries})
EndOf(t, k) ==
  Lowest({i \in HashSlots : \/ t[Probe(k, i)].status = "empty"
                            \/ t[Probe(k, i)].status = "alive" /\ t[Probe(k, i)].key = k}
         \union {Entries})

\* The same loop in hash_delete, where i is 32 bits wide and so is its square.
DeleteProbe(k, i) == (k + ((i * i) % Wrap)) % Entries
DeleteEnd(t, k) ==
  Lowest({i \in HashSlots :
            \/ t[DeleteProbe(k, i)].status = "empty"
            \/ t[DeleteProbe(k, i)].status = "alive" /\ t[DeleteProbe(k, i)].key = k}
         \union {Entries})

Found(t, k) == EndOf(t, k) # Entries /\ t[Probe(k, EndOf(t, k))].status = "alive"

\* hash_query
Query(t, k) == IF Found(t, k) THEN t[Probe(k, EndOf(t, k))].val ELSE NoVal

\* Tombstones that are met before the probing ends.  Mutant: none is reused.
Tombstones_None(t, k) == {}
Tombstones(t, k) ==
  {i \in HashSlots : i < EndOf(t, k) /\ t[Probe(k, i)].status = "delete"}

\* An entry is written over a tombstone.
Reused(g) == [g EXCEPT !.deleted = @ - 1]

Put(g, i, k, v) ==
  [g EXCEPT !.table[Probe(k, i)] = Alive(k, v), !.alive = @ + 1]

\* _hash_insert_self after hash_check: the table, and what it returns.  For a key
\* that is there already nothing is stored: FALSE if it has that value, and TRUE if
\* it has another one.
InsertSelf(g, k, v) ==
  LET e == EndOf(g.table, k)
      D == Tombstones(g.table, k)
  IN  CASE Found(g.table, k) -> [table |-> g, ok |-> Query(g.table, k) # v]
        [] ~Found(g.table, k) /\ D # {} ->
             [table |-> Put(Reused(g), Lowest(D), k, v), ok |-> TRUE]
        [] ~Found(g.table, k) /\ D = {} ->
             IF e = Entries THEN [table |-> g, ok |-> FALSE]
             ELSE [table |-> Put(g, e, k, v), ok |-> TRUE]

\* The entries of t that are alive, inserted in a new table one by one.
Rebuilt(t) ==
  LET after[p \in 0 .. Entries] ==
        IF p = 0 THEN NewTable
        ELSE IF t[p - 1].status = "alive"
             THEN InsertSelf(after[p - 1], t[p - 1].key, t[p - 1].val).table
             ELSE after[p - 1]
  IN  after[Entries]

\* hash_check.  calloc and malloc may fail, then the table stays as it is.
Checked(g) ==
  IF (g.alive + g.deleted) * 4 <= Entries * 3 \/ g.deleted * 3 <= g.alive
  THEN {g} ELSE {g, Rebuilt(g.table)}

HashInit == h = NewTable /\ taken = [k \in {} |-> << >>]

\* What has been taken of k when v was.
Noted(log, k, v) ==
  IF k \notin DOMAIN log THEN <<v>>
  ELSE IF \E n \in DOMAIN log[k] : log[k][n] = v THEN log[k]
  ELSE Append(log[k], v)

\* hash_insert.  The user stores no more keys than it has said.
HashInsert(k, v) ==
  /\ k \in DOMAIN taken \/ Cardinality(DOMAIN taken) < Capacity
  /\ h.alive < MaxCount
  /\ \E g \in Checked(h) :
       /\ h' = InsertSelf(g, k, v).table
       /\ taken' = IF ~InsertSelf(g, k, v).ok THEN taken
                   ELSE [x \in DOMAIN taken \union {k} |->
                           IF x = k THEN Noted(taken, k, v) ELSE taken[x]]

\* hash_delete, which leaves alive_count as it is.
HashDelete(k) ==
  /\ \E g \in Checked(h) :
       LET e == DeleteEnd(g.table, k)
           p == DeleteProbe(k, e)
       IN  h' = IF e # Entries /\ g.table[p].status = "alive"
                THEN [g EXCEPT !.table[p].status = "delete", !.deleted = @ + 1]
                ELSE g
  /\ taken' = [x \in DOMAIN taken \ {k} |-> taken[x]]

HashNext == \E k \in Keys : HashDelete(k) \/ \E v \in Vals : HashInsert(k, v)

HashSpec == HashInit /\ [][HashNext]_hashVars
------------------------------------------------------------------------------
\* Through tombstones, their reuse and rebuilds a key that was inserted is found
\* until it is deleted, no entry is lost and none comes back.  What is found is the
\* FIRST value: when the key comes again with another one, hash_insert returns TRUE
\* and stores it nowhere (hash_table.c:37-41), although hash_table.h:2 says that equal
\* keys can be stored and hash_table.c:25 that the value is copied in.
QueryExact ==
  \A k \in Keys : Query(h.table, k) = IF k \in DOMAIN taken THEN Head(taken[k]) ELSE NoVal

\* Although quadratic probing reaches only half of the entries, there is room
\* for a new key as long as the user stays within the number it has asked for.
RoomForNew ==
  Cardinality(DOMAIN taken) < Capacity =>
    \A k \in Keys \ DOMAIN taken : \A v \in Vals : \A g \in Checked(h) :
      InsertSelf(g, k, v).ok
=============================================================================
