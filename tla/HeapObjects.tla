---------------------------- MODULE HeapObjects -----------------------------
(***************************************************************************)
(* The heap that the objects of lpnu/metal/lpnu_metal.c and                *)
(* lpnu/iokit/lpnu_iokit.c share.  A handle is the address of a structure  *)
(* from calloc.  Some objects own further blocks, which their structure    *)
(* points to: creation allocates the structure first and gives it back     *)
(* when another allocation fails (a dictionary does without the block that *)
(* failed); destruction frees them all.  An address that was freed may     *)
(* come back as anything.                                                  *)
(*                                                                         *)
(* Out of memory for a structure, and a call given a null argument, change *)
(* nothing and are stuttering steps.                                       *)
(***************************************************************************)
EXTENDS Integers, Sequences, FiniteSets, Pointers

CONSTANT
  Addresses   \* of heap blocks

ASSUME AddressesAssumption == NULL \notin Addresses

VARIABLES
  heap,       \* the blocks that are allocated
  kind,       \* what the structure at an address is, or "none"
  owned       \* the further blocks of an object

heapvars == <<heap, kind, owned>>

HeapInit ==
  /\ heap = {}
  /\ kind = [h \in Addresses |-> "none"]
  /\ owned = [h \in Addresses |-> {}]

OfKind(k) == {h \in Addresses : kind[h] = k}
Objects   == Addresses \ OfKind("none")

-----------------------------------------------------------------------------
(* What creation and destruction do to the heap.                           *)

New(h, k) ==
  /\ h \in Addresses \ heap
  /\ heap' = heap \union {h}
  /\ kind' = [kind EXCEPT ![h] = k]
  /\ UNCHANGED owned

NewOwning(h, blocks, k) ==
  /\ h \in Addresses \ heap
  /\ blocks \subseteq (Addresses \ heap) \ {h}
  /\ heap' = heap \union {h} \union blocks
  /\ kind' = [kind EXCEPT ![h] = k]
  /\ owned' = [owned EXCEPT ![h] = blocks]

(* The structure is allocated, the second block is not: free it again.     *)
SecondFails(h) ==
  /\ h \in Addresses \ heap
  /\ heap' = (heap \union {h}) \ {h}
  /\ UNCHANGED <<kind, owned>>

(* A fault of SecondFails: the structure is not given back.                  *)
SecondLeaks(h) ==
  /\ h \in Addresses \ heap
  /\ heap' = heap \union {h}
  /\ UNCHANGED <<kind, owned>>

Free(h, k) ==
  /\ kind[h] = k
  /\ heap' = heap \ {h}
  /\ kind' = [kind EXCEPT ![h] = "none"]
  /\ UNCHANGED owned

FreeOwning(h, k) ==
  /\ kind[h] = k
  /\ heap' = heap \ ({h} \union owned[h])
  /\ kind' = [kind EXCEPT ![h] = "none"]
  /\ owned' = [owned EXCEPT ![h] = {}]

(* The block a getter answers with, for an object that owns one.           *)
Contents(h) == CHOOSE d \in owned[h] : TRUE

-----------------------------------------------------------------------------
(* Properties.                                                             *)

(* Every allocated block is the structure of one object or a further block *)
(* of one object, and every object's blocks are allocated: no failure path *)
(* and no destruction leaks a block, frees one that another object was     *)
(* given meanwhile, or leaves two objects with one block.                  *)
BlocksOwned ==
  /\ heap = Objects \union UNION {owned[h] : h \in Objects}
  /\ \A h \in Objects : owned[h] \intersect Objects = {}
  /\ \A g, h \in Objects : owned[g] \intersect owned[h] # {} => g = h
=============================================================================
