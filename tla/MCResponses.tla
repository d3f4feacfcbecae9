---- MODULE MCResponses ----
(* Instances of Responses for TLC. *)
EXTENDS Responses, TLC

CONSTANT Long

\* Files of one byte and a longer one: a descriptor that is given out again may
\* lead to a file of another length.
MCLength == [f \in Files |-> IF f = Long THEN 3 ELSE 1]

\* No definition tells one connection, or one of the short files, from another.
MCSymmetry == Permutations(Conns) \union Permutations(Files \ {Long})
====
