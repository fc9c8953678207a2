------------------------------- MODULE MCDyld -------------------------------
(* A small Dyld: the addresses of images are interchangeable.              *)
EXTENDS Dyld, TLC

ImageSymmetry == Permutations(Images)
=============================================================================
