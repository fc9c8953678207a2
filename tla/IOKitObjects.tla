---------------------------- MODULE IOKitObjects ----------------------------
(***************************************************************************)
(* The single objects of lpnu/iokit/lpnu_iokit.c: descriptors, user        *)
(* clients, locks, pools, queues and nodes that are allocated, read and    *)
(* freed (IOLock, IODataQueue, IODictionary and IOService model the        *)
(* components with a behaviour of their own).  A registry entry keeps      *)
(* values in a row, without their keys, and counts them.  A node of a      *)
(* device tree is the root or a child; nothing links them.                 *)
(***************************************************************************)
EXTENDS HeapObjects

CONSTANTS
  Values,     \* property values
  Allocs,     \* length of the allocs array of a registry entry (8 in the code)
  MaxStored   \* bound on the calls of SetProperty on one entry

ASSUME AllocsAssumption == Allocs \in Nat \ {0} /\ MaxStored \in Nat

VARIABLES
  allocs,     \* of every registry entry: allocs[0 .. allocCount - 1]
  stored      \* all values given to SetProperty since the entry was created
              \* (history)

iokitvars == <<allocs, stored>>

Leftover == <<"garbage">>   \* where there is no entry

IOKitInit ==
  /\ allocs = [h \in Addresses |-> Leftover]
  /\ stored = [h \in Addresses |-> <<>>]

-----------------------------------------------------------------------------
(* Objects of one block.                                                   *)

LPNUIOLockCreate(h)               == New(h, "lock") /\ UNCHANGED iokitvars
LPNUIOLockDestroy(h)              == Free(h, "lock") /\ UNCHANGED iokitvars
LPNUIOSimpleLockCreate(h)         == New(h, "simple lock") /\ UNCHANGED iokitvars
LPNUIOSimpleLockDestroy(h)        == Free(h, "simple lock") /\ UNCHANGED iokitvars
LPNUIOMemoryDescriptorCreate(h)   == New(h, "descriptor") /\ UNCHANGED iokitvars
LPNUIOMemoryDescriptorDestroy(h)  == Free(h, "descriptor") /\ UNCHANGED iokitvars
LPNUIOUserClientCreate(h)         == New(h, "user client") /\ UNCHANGED iokitvars
LPNUIOUserClientDestroy(h)        == Free(h, "user client") /\ UNCHANGED iokitvars
LPNUIOSharedLockCreate(h)         == New(h, "shared lock") /\ UNCHANGED iokitvars
LPNUIOSharedLockDestroy(h)        == Free(h, "shared lock") /\ UNCHANGED iokitvars
LPNUIODeviceMemoryCreate(h)       == New(h, "device memory") /\ UNCHANGED iokitvars
LPNUIODeviceMemoryDestroy(h)      == Free(h, "device memory") /\ UNCHANGED iokitvars
LPNUIODeviceTreeCreate(h)         == New(h, "tree node") /\ UNCHANGED iokitvars
LPNUIODeviceTreeAddChild(h)       == New(h, "tree node") /\ UNCHANGED iokitvars
LPNUIODeviceTreeDestroy(h)        == Free(h, "tree node") /\ UNCHANGED iokitvars
LPNUIOWorkLoopCreate(h)           == New(h, "work loop") /\ UNCHANGED iokitvars
LPNUIOWorkLoopDestroy(h)          == Free(h, "work loop") /\ UNCHANGED iokitvars
LPNUIOConditionLockCreate(h)      == New(h, "condition lock") /\ UNCHANGED iokitvars
LPNUIOConditionLockDestroy(h)     == Free(h, "condition lock") /\ UNCHANGED iokitvars
LPNUIOCommandQueueCreate(h)       == New(h, "command queue") /\ UNCHANGED iokitvars
LPNUIOCommandQueueDestroy(h)      == Free(h, "command queue") /\ UNCHANGED iokitvars
LPNUIOSharedDataQueueCreate(h)    == New(h, "shared queue") /\ UNCHANGED iokitvars
LPNUIOSharedDataQueueDestroy(h)   == Free(h, "shared queue") /\ UNCHANGED iokitvars

-----------------------------------------------------------------------------
(* Objects of several blocks.                                              *)

LPNUIOBufferMemoryDescriptorCreate(h, d) ==
  NewOwning(h, {d}, "buffer descriptor") /\ UNCHANGED iokitvars
BufferFails(h) == SecondFails(h) /\ UNCHANGED iokitvars
LPNUIOBufferMemoryDescriptorDestroy(h) ==
  FreeOwning(h, "buffer descriptor") /\ UNCHANGED iokitvars

LPNUIOBufferMemoryDescriptorGetBuffer(h) == Contents(h)

LPNUIOCommandPoolCreate(h, d) == NewOwning(h, {d}, "pool") /\ UNCHANGED iokitvars
CommandsFail(h)               == SecondFails(h) /\ UNCHANGED iokitvars
LPNUIOCommandPoolDestroy(h)   == FreeOwning(h, "pool") /\ UNCHANGED iokitvars

(* A fault of Allocate: it answers with the pool.                          *)
Fault_PoolAllocate_AnswersPool(h) == h

(* Every command is the start of the block; Release keeps no account.      *)
LPNUIOCommandPoolAllocate(h) == Contents(h)

LPNUIODataQueueCreate(h, d) == NewOwning(h, {d}, "data queue") /\ UNCHANGED iokitvars
QueueDataFails(h)           == SecondFails(h) /\ UNCHANGED iokitvars
LPNUIODataQueueDestroy(h)   == FreeOwning(h, "data queue") /\ UNCHANGED iokitvars

(* A dictionary has two arrays; nothing checks that they were allocated.   *)
LPNUIODictionaryCreate(h, arrays) ==
  /\ Cardinality(arrays) <= 2
  /\ NewOwning(h, arrays, "dictionary")
  /\ UNCHANGED iokitvars
LPNUIODictionaryDestroy(h) == FreeOwning(h, "dictionary") /\ UNCHANGED iokitvars

-----------------------------------------------------------------------------
(* Registry entries.                                                       *)

LPNUIORegistryEntryCreate(h) ==
  /\ New(h, "registry entry")
  /\ allocs' = [allocs EXCEPT ![h] = <<>>]
  /\ stored' = [stored EXCEPT ![h] = <<>>]

LPNUIORegistryEntryDestroy(h) ==
  /\ Free(h, "registry entry")
  /\ allocs' = [allocs EXCEPT ![h] = Leftover]
  /\ stored' = [stored EXCEPT ![h] = <<>>]

SetProperty(h, v, room) ==
  /\ kind[h] = "registry entry"
  /\ Len(stored[h]) < MaxStored
  /\ allocs' = IF room THEN [allocs EXCEPT ![h] = Append(@, v)] ELSE allocs
  /\ stored' = [stored EXCEPT ![h] = Append(@, v)]
  /\ UNCHANGED heapvars

(* A fault of SetProperty: the bound is one too large.                     *)
Fault_SetProperty_OnePast(h, v) == SetProperty(h, v, Len(allocs[h]) <= Allocs)

(* A value that finds no room is dropped, and reported as stored.          *)
LPNUIORegistryEntrySetProperty(h, v) == SetProperty(h, v, Len(allocs[h]) < Allocs)

IOKitNext ==
  \/ \E h \in Addresses :
       \/ LPNUIOLockCreate(h) \/ LPNUIOLockDestroy(h)
       \/ LPNUIOSimpleLockCreate(h) \/ LPNUIOSimpleLockDestroy(h)
       \/ LPNUIOMemoryDescriptorCreate(h) \/ LPNUIOMemoryDescriptorDestroy(h)
       \/ LPNUIOUserClientCreate(h) \/ LPNUIOUserClientDestroy(h)
       \/ LPNUIOSharedLockCreate(h) \/ LPNUIOSharedLockDestroy(h)
       \/ LPNUIODeviceMemoryCreate(h) \/ LPNUIODeviceMemoryDestroy(h)
       \/ LPNUIODeviceTreeCreate(h) \/ LPNUIODeviceTreeAddChild(h)
       \/ LPNUIODeviceTreeDestroy(h)
       \/ LPNUIOWorkLoopCreate(h) \/ LPNUIOWorkLoopDestroy(h)
       \/ LPNUIOConditionLockCreate(h) \/ LPNUIOConditionLockDestroy(h)
       \/ LPNUIOCommandQueueCreate(h) \/ LPNUIOCommandQueueDestroy(h)
       \/ LPNUIOSharedDataQueueCreate(h) \/ LPNUIOSharedDataQueueDestroy(h)
       \/ BufferFails(h) \/ LPNUIOBufferMemoryDescriptorDestroy(h)
       \/ CommandsFail(h) \/ LPNUIOCommandPoolDestroy(h)
       \/ QueueDataFails(h) \/ LPNUIODataQueueDestroy(h)
       \/ LPNUIODictionaryDestroy(h)
       \/ LPNUIORegistryEntryCreate(h) \/ LPNUIORegistryEntryDestroy(h)
  \/ \E h, d \in Addresses :
       \/ LPNUIOBufferMemoryDescriptorCreate(h, d)
       \/ LPNUIOCommandPoolCreate(h, d) \/ LPNUIODataQueueCreate(h, d)
  \/ \E h \in Addresses, arrays \in SUBSET Addresses : LPNUIODictionaryCreate(h, arrays)
  \/ \E h \in Addresses, v \in Values : LPNUIORegistryEntrySetProperty(h, v)

-----------------------------------------------------------------------------
(* Properties.                                                             *)

(* A registry entry holds the first Allocs values it was given since its   *)
(* creation, in order: a store beyond the limit changes none of them and   *)
(* not the count that follows the array, and an entry at the address of a  *)
(* freed one starts empty.                                                 *)
EntryHoldsFirst ==
  \A h \in OfKind("registry entry") :
    allocs[h] = SubSeq(stored[h], 1, IF Len(stored[h]) < Allocs
                                     THEN Len(stored[h]) ELSE Allocs)
=============================================================================
