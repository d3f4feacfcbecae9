------------------------------ MODULE IdLinks ------------------------------
(***************************************************************************)
(* The links of ds/id_list.c, a free list of numbers.  The nodes are an    *)
(* array indexed by the numbers and hold the links of ds/linklist.c; prev  *)
(* is left out, no operation of an id list reads it.                       *)
(***************************************************************************)
EXTENDS Integers, FiniteSets

CONSTANT Size          \* capacity of the list

ASSUME SizeAssumption == Size \in Nat /\ Size >= 2

Ids == 0 .. Size - 1
Null == -1
Wild == -2             \* an address that no node has
\* id_list_create, which never writes the next of the last node: n is what
\* malloc left there.
IdCreate(n) ==
  [begin |-> 0, end |-> 0,
   next |-> [i \in Ids |-> IF i = Size - 1 THEN n ELSE i + 1], count |-> 0]
Leftover == {Null, Wild}

\* list_insert_front_imple
IdInsertFront(l, n) ==
  IF l.begin = Null /\ l.end = Null
  THEN [l EXCEPT !.begin = n, !.end = n, !.next[n] = Null]
  ELSE [l EXCEPT !.begin = n, !.next[n] = l.begin]

\* id_list_add
Add(l, n) == [IdInsertFront(l, n) EXCEPT !.count = @ - 1]

\* id_list_get writes to the node behind the first one: with Wild it crashes.
CanGet(l) == l.begin # Null /\ l.next[l.begin] # Wild

\* The list after id_list_get, which returns l.begin.  Mutant: the first node is
\* read and stays the first.
Got_Keeps(l) == [l EXCEPT !.count = @ + 1]
Got(l) ==
  LET h == l.begin IN
  [l EXCEPT !.begin = l.next[h], !.next[h] = Null, !.count = @ + 1,
            !.end = IF l.next[h] = Null THEN Null ELSE @]

\* The node reached after k links, Null once the list has ended.
Chain(l) ==
  LET at[k \in 0 .. Size] ==
        IF k = 0 THEN l.begin
        ELSE IF at[k - 1] \in Ids THEN l.next[at[k - 1]] ELSE at[k - 1]
  IN  at
=============================================================================
