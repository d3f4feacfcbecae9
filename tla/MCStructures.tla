---------------------------- MODULE MCStructures ----------------------------
(***************************************************************************)
(* Instances of the containers, and of the clock, for TLC.  They share     *)
(* nothing: part says which one is in use, and the others stay as they     *)
(* were created.                                                           *)
(***************************************************************************)
EXTENDS SlotPool, HashTable, LinkList, Clock, ArenaBits

VARIABLE part

PartsInit ==
  /\ part \in {"ids", "primes", "hash", "lists", "clock", "arena"}
  /\ PoolInit /\ PrimesInit /\ HashInit /\ ListInit /\ ClockInit /\ BitsInit
  /\ part # "ids" => tcp = IdCreate(Null) /\ timer = IdCreate(Null)
  /\ part # "clock" => clock = 0

PartsNext ==
  /\ UNCHANGED part
  /\ \/ /\ part = "ids" /\ PoolNext
        /\ UNCHANGED <<primeVars, hashVars, listVars, clockVars, bitVars>>
     \/ /\ part = "primes" /\ PrimesNext
        /\ UNCHANGED <<poolVars, hashVars, listVars, clockVars, bitVars>>
     \/ /\ part = "hash" /\ HashNext
        /\ UNCHANGED <<poolVars, primeVars, listVars, clockVars, bitVars>>
     \/ /\ part = "lists" /\ ListNext
        /\ UNCHANGED <<poolVars, primeVars, hashVars, clockVars, bitVars>>
     \/ /\ part = "clock" /\ ClockNext
        /\ UNCHANGED <<poolVars, primeVars, hashVars, listVars, bitVars>>
     \/ /\ part = "arena" /\ BitsNext
        /\ UNCHANGED <<poolVars, primeVars, hashVars, listVars, clockVars>>

PartsVars == <<poolVars, primeVars, hashVars, listVars, clockVars, bitVars, part>>
PartsSpec == PartsInit /\ [][PartsNext]_PartsVars
=============================================================================
