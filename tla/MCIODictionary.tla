--------------------------- MODULE MCIODictionary ---------------------------
(* Two entries for three buffers and three strings: stores find an entry,  *)
(* a free slot, or neither.                                                *)
EXTENDS IODictionary

CONSTANT v1
MCValues == {NULL, v1}
=============================================================================
