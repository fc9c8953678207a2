--------------------------- MODULE MCKextRuntime ----------------------------
(***************************************************************************)
(* A small KextRuntime: three slots for four buffers, so that a removal    *)
(* shifts two entries and a fourth kext finds the table full; one library  *)
(* of each kind, two of them with the same name.                           *)
(***************************************************************************)
EXTENDS KextRuntime, TLC

MCPaths  == {"plain", "guard", "audio"}
MCNames  == {"one", "two"}
MCNameOf == [p \in MCPaths |-> IF p = "plain" THEN "two" ELSE "one"]
MCMainOf == [p \in MCPaths |-> CASE p = "plain" -> "none"
                                 [] p = "guard" -> "start"
                                 [] p = "audio" -> "both"]
InfoSymmetry == Permutations(Infos)
=============================================================================
