------------------------------- MODULE IdPool -------------------------------
(***************************************************************************)
(* What ds/id_list.h promises: a pool of numbers, each either free or given *)
(* out, and none given out twice before it is back.                        *)
(***************************************************************************)
EXTENDS Integers

CONSTANT Size          \* the numbers are 0 .. Size - 1

VARIABLES
  free,                \* numbers that can be given out
  out                  \* numbers given out and not yet put back

Ids == 0 .. Size - 1

Init == free = Ids /\ out = {}

Take == \E i \in free : free' = free \ {i} /\ out' = out \union {i}

Put == \E i \in out : free' = free \union {i} /\ out' = out \ {i}

Next == Take \/ Put

Spec == Init /\ [][Next]_<<free, out>>
=============================================================================
