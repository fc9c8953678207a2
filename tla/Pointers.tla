------------------------------ MODULE Pointers ------------------------------
(***************************************************************************)
(* The null pointer, one for all components that a module puts side by     *)
(* side.                                                                   *)
(***************************************************************************)
CONSTANT NULL
=============================================================================
