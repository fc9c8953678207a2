--------------------------- MODULE ClientObjects ----------------------------
(***************************************************************************)
(* A client of the Metal layer and of IOKit in one process: the objects of *)
(* both libraries come from one heap, and an address that one has freed    *)
(* may be given to the other.                                              *)
(***************************************************************************)
EXTENDS MetalObjects, IOKitObjects

Init == HeapInit /\ MetalInit /\ IOKitInit

Next ==
  \/ MetalNext /\ UNCHANGED iokitvars
  \/ IOKitNext /\ UNCHANGED metalvars

Spec == Init /\ [][Next]_<<heapvars, metalvars, iokitvars>>

-----------------------------------------------------------------------------
(* The memory that getters hand out to the client: the contents of a Metal *)
(* buffer, the buffer of a descriptor, the commands of a pool.             *)
HandedOut(h) ==
  IF kind[h] = "buffer" THEN LPnuMetalBufferGetContents(h)
  ELSE IF kind[h] = "pool" THEN LPNUIOCommandPoolAllocate(h)
  ELSE LPNUIOBufferMemoryDescriptorGetBuffer(h)
Getting == OfKind("buffer") \union OfKind("pool") \union OfKind("buffer descriptor")

(* A client that writes to memory it was handed out writes to no object's  *)
(* structure, to no freed block and to nothing handed out by another       *)
(* object, queue or dictionary, while the object it asked lives.  (Two     *)
(* commands of one pool are the same memory.)                              *)
ContentsApart ==
  \A g \in Getting :
    /\ HandedOut(g) \in heap \ Objects
    /\ \A h \in Getting : HandedOut(g) = HandedOut(h) => g = h
    /\ \A h \in OfKind("data queue") \union OfKind("dictionary") :
         HandedOut(g) \notin owned[h]
=============================================================================
