----------------------------- MODULE BoundedMap -----------------------------
(***************************************************************************)
(* What LPNUIODictionary promises while its callers leave the key strings  *)
(* alone: a map with room for Capacity keys.  A store under a new key is   *)
(* dropped, without an error, when there is no room; nothing is removed.   *)
(***************************************************************************)
EXTENDS Integers, FiniteSets

CONSTANTS Keys, Values, Absent, Capacity

VARIABLES
  map,    \* the value of every key, or Absent
  last    \* the key and the value of the last store

mvars == <<map, last>>

Domain == {k \in Keys : map[k] # Absent}

MInit == map = [k \in Keys |-> Absent] /\ last = <<>>

Store(k, v) ==
  /\ last' = <<k, v>>
  /\ IF k \in Domain \/ Cardinality(Domain) < Capacity
     THEN map' = [map EXCEPT ![k] = v]
     ELSE UNCHANGED map

MNext == \E k \in Keys, v \in Values : Store(k, v)

MSpec == MInit /\ [][MNext]_mvars
=============================================================================
