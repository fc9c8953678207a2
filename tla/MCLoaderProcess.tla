-------------------------- MODULE MCLoaderProcess ---------------------------
(* Two kexts and two images over two libraries: each library can be held   *)
(* by either loader, by both, and twice by the same one.                   *)
EXTENDS LoaderProcess, TLC

MCPaths  == {"plain", "audio"}
MCNames  == MCPaths
MCNameOf == [p \in MCPaths |-> p]
MCMainOf == [p \in MCPaths |-> IF p = "plain" THEN "none" ELSE "both"]
HolderSymmetry == Permutations(Infos) \union Permutations(Images)
=============================================================================
