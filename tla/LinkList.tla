------------------------------ MODULE LinkList ------------------------------
(***************************************************************************)
(* ds/linklist.c: doubly linked lists of nodes that their owner allocates. *)
(* The functions look for a node by walking along next; prev is written    *)
(* everywhere and read only to take a node out.  Id lists use a part of it *)
(* (IdLinks); here are all the operations, on several lists.               *)
(***************************************************************************)
EXTENDS Integers, Sequences, FiniteSets

CONSTANTS Nodes, Lists     \* bound: the nodes and the lists of the user

\* The address of a node is neither NULL nor what was never written.
ASSUME NodesAssumption == IsFiniteSet(Nodes) /\ Nodes \intersect {0, -1} = {}

VARIABLES
  m,           \* begin and end of every list, next and prev of every node
  ret,         \* what the last call returned, TRUE where it returns nothing
  content      \* the nodes of every list in the order that was asked for: history

listVars == <<m, ret, content>>

Nil == 0               \* NULL
Garbage == -1          \* what malloc leaves, or free

ListInit ==
  /\ m = [begin |-> [l \in Lists |-> Garbage], end |-> [l \in Lists |-> Garbage],
          next |-> [n \in Nodes |-> Garbage], prev |-> [n \in Nodes |-> Garbage]]
  /\ ret = TRUE /\ content = [l \in Lists |-> << >>]

Created(l) == m.begin[l] # Garbage
IsEmpty(l) == m.begin[l] = Nil
------------------------------------------------------------------------------
(***************************************************************************)
(* Walking, inserting and deleting, as functions of the memory.            *)
(***************************************************************************)
\* The loop over i = i->next comes to n.
Finds(s, l, n) ==
  LET at[k \in 0 .. Cardinality(Nodes)] ==
        IF k = 0 THEN s.begin[l]
        ELSE IF at[k - 1] \in Nodes THEN s.next[at[k - 1]] ELSE at[k - 1]
  IN  \E k \in 0 .. Cardinality(Nodes) : at[k] = n

\* list_insert_front_imple
Front(s, l, n) ==
  IF s.begin[l] = Nil /\ s.end[l] = Nil
  THEN [s EXCEPT !.begin[l] = n, !.end[l] = n, !.prev[n] = Nil, !.next[n] = Nil]
  ELSE [s EXCEPT !.begin[l] = n, !.next[n] = s.begin[l], !.prev[s.begin[l]] = n,
                 !.prev[n] = Nil]

\* list_insert_back_imple
Back(s, l, n) ==
  IF s.begin[l] = Nil /\ s.end[l] = Nil
  THEN [s EXCEPT !.begin[l] = n, !.end[l] = n, !.prev[n] = Nil, !.next[n] = Nil]
  ELSE [s EXCEPT !.end[l] = n, !.next[s.end[l]] = n, !.prev[n] = s.end[l], !.next[n] = Nil]

\* list_insert_after_imple when i has been found.  Mutant: the node behind still
\* points back at i.
After_OneWay(s, l, n, i) ==
  IF i = s.end[l] THEN Back(s, l, n)
  ELSE [s EXCEPT !.next[n] = s.next[i], !.prev[n] = i, !.next[i] = n]
After(s, l, n, i) ==
  IF i = s.end[l] THEN Back(s, l, n)
  ELSE [s EXCEPT !.next[n] = s.next[i], !.prev[n] = i, !.prev[s.next[i]] = n, !.next[i] = n]

\* list_insert_before_imple when i has been found
Before(s, l, n, i) ==
  IF i = s.begin[l] THEN Front(s, l, n)
  ELSE [s EXCEPT !.next[n] = i, !.prev[n] = s.prev[i], !.next[s.prev[i]] = n, !.prev[i] = n]

Last(s, l) == s.begin[l] = s.end[l]
Cleared(s, n) == [s EXCEPT !.next[n] = Nil, !.prev[n] = Nil]
Emptied(s, l) == [Cleared(s, s.begin[l]) EXCEPT !.begin[l] = Nil, !.end[l] = Nil]

\* list_delete_front and list_delete_back of a list that is not empty.
WithoutFront(s, l) ==
  IF Last(s, l) THEN Emptied(s, l)
  ELSE LET b == s.begin[l] IN
       Cleared([s EXCEPT !.begin[l] = s.next[b], !.prev[s.next[b]] = Nil], b)

WithoutBack(s, l) ==
  IF Last(s, l) THEN Emptied(s, l)
  ELSE LET e == s.end[l] IN
       Cleared([s EXCEPT !.next[s.prev[e]] = Nil, !.end[l] = s.prev[e]], e)

Unlinked(s, n) ==
  Cleared([s EXCEPT !.next[s.prev[n]] = s.next[n], !.prev[s.next[n]] = s.prev[n]], n)

\* list_delete_imple when n is in the list
Deleted(s, l, n) ==
  CASE n = s.begin[l] -> WithoutFront(s, l)
    [] n # s.begin[l] /\ n = s.end[l] -> WithoutBack(s, l)
    [] n # s.begin[l] /\ n # s.end[l] -> Unlinked(s, n)

\* What link_node_delete_imple writes into another node or the list.
Behind(s, n, v) == IF s.next[n] = Nil THEN s.prev ELSE [s.prev EXCEPT ![s.next[n]] = v]
InFront(s, n, v) == IF s.prev[n] = Nil THEN s.next ELSE [s.next EXCEPT ![s.prev[n]] = v]

\* link_node_delete_imple
NodeDeleted(s, l, n) ==
  Cleared([s EXCEPT !.begin[l] = IF @ = n THEN s.next[n] ELSE @,
                    !.end[l] = IF @ = n THEN s.prev[n] ELSE @,
                    !.prev = Behind(s, n, s.prev[n]), !.next = InFront(s, n, s.next[n])], n)
------------------------------------------------------------------------------
(***************************************************************************)
(* The calls.  The user inserts a node that is in no list, and hands       *)
(* link_node_delete a node of that list.                                   *)
(***************************************************************************)
Elems(s) == {s[k] : k \in DOMAIN s}
InList(l, n) == n \in Elems(content[l])
Unused(n) == \A l \in Lists : ~InList(l, n)
Place(l, i) == CHOOSE k \in DOMAIN content[l] : content[l][k] = i

\* What is asked for: n behind the first k nodes; the list without n.
Inserted(l, k, n) ==
  [content EXCEPT ![l] = SubSeq(@, 1, k) \o <<n>> \o SubSeq(@, k + 1, Len(@))]
Without(l, n) ==
  [content EXCEPT ![l] = SubSeq(@, 1, Place(l, n) - 1) \o SubSeq(@, Place(l, n) + 1, Len(@))]

\* link_list_init, on memory that holds no list.
ListCreate(l) ==
  /\ ~Created(l)
  /\ m' = [m EXCEPT !.begin[l] = Nil, !.end[l] = Nil]
  /\ ret' = TRUE /\ UNCHANGED content

InsertFront(l, n) ==
  /\ Created(l) /\ Unused(n)
  /\ m' = Front(m, l, n) /\ ret' = TRUE
  /\ content' = Inserted(l, 0, n)

InsertBack(l, n) ==
  /\ Created(l) /\ Unused(n)
  /\ m' = Back(m, l, n) /\ ret' = TRUE
  /\ content' = Inserted(l, Len(content[l]), n)

\* i may be a node of another list, or of none.
InsertAfter(l, n, i) ==
  /\ Created(l) /\ Unused(n) /\ i # n
  /\ m' = IF ~IsEmpty(l) /\ Finds(m, l, i) THEN After(m, l, n, i) ELSE m
  /\ ret' = (~IsEmpty(l) /\ Finds(m, l, i))
  /\ content' = IF InList(l, i) THEN Inserted(l, Place(l, i), n) ELSE content

\* Mutant: TRUE is returned behind the loop.
InsertBefore_True(l, n, i) ==
  /\ Created(l) /\ Unused(n) /\ i # n
  /\ m' = IF ~IsEmpty(l) /\ Finds(m, l, i) THEN Before(m, l, n, i) ELSE m
  /\ ret' = ~IsEmpty(l)
  /\ content' = IF InList(l, i) THEN Inserted(l, Place(l, i) - 1, n) ELSE content

InsertBefore(l, n, i) ==
  /\ Created(l) /\ Unused(n) /\ i # n
  /\ m' = IF ~IsEmpty(l) /\ Finds(m, l, i) THEN Before(m, l, n, i) ELSE m
  /\ ret' = (~IsEmpty(l) /\ Finds(m, l, i))
  /\ content' = IF InList(l, i) THEN Inserted(l, Place(l, i) - 1, n) ELSE content

\* list_delete_front and list_delete_back
DeleteFront(l) ==
  /\ Created(l)
  /\ m' = IF IsEmpty(l) THEN m ELSE WithoutFront(m, l)
  /\ ret' = ~IsEmpty(l)
  /\ content' = IF content[l] = << >> THEN content ELSE [content EXCEPT ![l] = Tail(@)]

DeleteBack(l) ==
  /\ Created(l)
  /\ m' = IF IsEmpty(l) THEN m ELSE WithoutBack(m, l)
  /\ ret' = ~IsEmpty(l)
  /\ content' = IF content[l] = << >> THEN content
                ELSE [content EXCEPT ![l] = SubSeq(@, 1, Len(@) - 1)]

ListDelete(l, n) ==
  /\ Created(l)
  /\ m' = IF ~IsEmpty(l) /\ Finds(m, l, n) THEN Deleted(m, l, n) ELSE m
  /\ ret' = (~IsEmpty(l) /\ Finds(m, l, n))
  /\ content' = IF InList(l, n) THEN Without(l, n) ELSE content

\* link_node_delete
NodeDelete(l, n) ==
  /\ Created(l) /\ InList(l, n)
  /\ m' = NodeDeleted(m, l, n)
  /\ ret' = TRUE
  /\ content' = Without(l, n)

\* link_list_free gives back the nodes it walks over, and the list.
ListFree(l) ==
  /\ Created(l)
  /\ LET F == IF IsEmpty(l) THEN {} ELSE {n \in Nodes : Finds(m, l, n)} IN
       m' = [begin |-> [m.begin EXCEPT ![l] = Garbage], end |-> [m.end EXCEPT ![l] = Garbage],
             next |-> [n \in Nodes |-> IF n \in F THEN Garbage ELSE m.next[n]],
             prev |-> [n \in Nodes |-> IF n \in F THEN Garbage ELSE m.prev[n]]]
  /\ ret' = TRUE
  /\ content' = [content EXCEPT ![l] = << >>]

ListNext ==
  \E l \in Lists :
    \/ ListCreate(l) \/ DeleteFront(l) \/ DeleteBack(l) \/ ListFree(l)
    \/ \E n \in Nodes :
         \/ InsertFront(l, n) \/ InsertBack(l, n) \/ ListDelete(l, n) \/ NodeDelete(l, n)
         \/ \E i \in Nodes : InsertAfter(l, n, i) \/ InsertBefore(l, n, i)

ListSpec == ListInit /\ [][ListNext]_listVars
------------------------------------------------------------------------------
(***************************************************************************)
(* Properties.                                                             *)
(***************************************************************************)
\* Forwards and backwards every list has exactly the nodes that were put in it,
\* in the order that was asked for, whatever operations were mixed; no link
\* leads to memory that was never written or has been given back, and a node that
\* has been taken out of a list holds no link any more.
ListsExact ==
  /\ \A l \in Lists : Created(l) =>
       LET s == content[l] IN
         /\ m.begin[l] = IF s = << >> THEN Nil ELSE s[1]
         /\ m.end[l] = IF s = << >> THEN Nil ELSE s[Len(s)]
         /\ \A k \in DOMAIN s :
              /\ m.next[s[k]] = IF k = Len(s) THEN Nil ELSE s[k + 1]
              /\ m.prev[s[k]] = IF k = 1 THEN Nil ELSE s[k - 1]
  /\ \A n \in Nodes : Unused(n) =>
       m.next[n] \in {Nil, Garbage} /\ m.prev[n] = m.next[n]

\* A call that cannot find its node says so and has touched nothing, in this list
\* or in another; a call that says TRUE has done its work.
RetExact == [][ret' <=> m' # m]_listVars
=============================================================================
