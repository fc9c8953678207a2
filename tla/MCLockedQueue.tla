--------------------------- MODULE MCLockedQueue ----------------------------
(* Capacities with several divisors, a word small enough for the size to   *)
(* wrap twice, and threads enough for one to wait behind a race.           *)
EXTENDS LockedQueue

MCCapacities == {4, 6}
=============================================================================
