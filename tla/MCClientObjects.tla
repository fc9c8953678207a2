-------------------------- MODULE MCClientObjects ---------------------------
(* Four addresses: a pipeline with a buffer and a texture, two objects of  *)
(* two blocks, or a chain from a library to a compute pipeline.            *)
EXTENDS ClientObjects, TLC

AddressSymmetry == Permutations(Addresses)
=============================================================================
