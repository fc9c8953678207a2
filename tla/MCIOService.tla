---------------------------- MODULE MCIOService -----------------------------
(* Four services for a careful client: lists of up to three, and lists     *)
(* several levels deep.  Other clients have three of them: the list of one *)
(* is spoilt while those of two others are not.                            *)
EXTENDS IOService, TLC

ServiceSymmetry ==
  {f @@ g : f \in Permutations(Spares), g \in Permutations(Services \ Spares)}
=============================================================================
