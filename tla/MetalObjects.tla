---------------------------- MODULE MetalObjects ----------------------------
(***************************************************************************)
(* The objects of lpnu/metal/lpnu_metal.c.  A render pipeline holds two    *)
(* arrays of Slots pointers, one after the other in memory, that clients   *)
(* fill with buffers and textures.  Nothing counts these references: a     *)
(* client destroys a buffer or a texture when it has bound something else  *)
(* in its place.  Libraries and functions have no destroy function.        *)
(*                                                                         *)
(* The device a creation is given is only compared with null (MetalDevice  *)
(* models devices).  Whether a command buffer is committed is written and  *)
(* never read.                                                             *)
(***************************************************************************)
EXTENDS HeapObjects

CONSTANTS
  Slots       \* length of each array of a render pipeline (8 in the code)

ASSUME SlotsAssumption == Slots \in Nat \ {0}

VARIABLES
  memory,     \* of every render pipeline: the buffers, the textures, and
              \* the word after the structure
  asked       \* what clients have asked to be bound (history)

metalvars == <<memory, asked>>

Words   == 0 .. 2 * Slots
Empty   == [w \in Words |-> NULL]
Garbage == [w \in Words |-> "garbage"]   \* where there is no pipeline

MetalInit ==
  /\ memory = [h \in Addresses |-> Garbage]
  /\ asked = [h \in Addresses |-> Empty]

-----------------------------------------------------------------------------
(* Creation and destruction.                                               *)

Bound(h) == \E p \in OfKind("render"), w \in Words : asked[p][w] = h

LPnuMetalBufferCreate(h, d) == NewOwning(h, {d}, "buffer") /\ UNCHANGED metalvars

(* A fault of buffer creation. *)
Fault_BufferDataFails_KeepsStructure(h) == SecondLeaks(h) /\ UNCHANGED metalvars

BufferDataFails(h) == SecondFails(h) /\ UNCHANGED metalvars

(* What a client reads and writes through, for as long as the buffer lives. *)
LPnuMetalBufferGetContents(h) == Contents(h)

LPnuMetalBufferDestroy(h) ==
  ~Bound(h) /\ FreeOwning(h, "buffer") /\ UNCHANGED metalvars

LPnuMetalTextureCreate(h) == New(h, "texture") /\ UNCHANGED metalvars
LPnuMetalTextureDestroy(h) ==
  ~Bound(h) /\ Free(h, "texture") /\ UNCHANGED metalvars

LPnuMetalSamplerCreate(h)       == New(h, "sampler") /\ UNCHANGED metalvars
LPnuMetalSamplerDestroy(h)      == Free(h, "sampler") /\ UNCHANGED metalvars
LPnuMetalCommandQueueCreate(h)  == New(h, "queue") /\ UNCHANGED metalvars
LPnuMetalCommandQueueDestroy(h) == Free(h, "queue") /\ UNCHANGED metalvars

LPnuMetalCommandBufferCreate(h) ==
  OfKind("queue") # {} /\ New(h, "command") /\ UNCHANGED metalvars
LPnuMetalCommandBufferDestroy(h) == Free(h, "command") /\ UNCHANGED metalvars

LPnuMetalLibraryCreateFromSource(h) == New(h, "library") /\ UNCHANGED metalvars
LPnuMetalLibraryGetFunction(h) ==
  OfKind("library") # {} /\ New(h, "function") /\ UNCHANGED metalvars

(* calloc: nothing is bound, whatever was at the address before.           *)
LPnuMetalRenderPipelineCreate(h) ==
  /\ New(h, "render")
  /\ memory' = [memory EXCEPT ![h] = Empty]
  /\ asked' = [asked EXCEPT ![h] = Empty]
LPnuMetalRenderPipelineDestroy(h) ==
  /\ Free(h, "render")
  /\ memory' = [memory EXCEPT ![h] = Garbage]
  /\ asked' = [asked EXCEPT ![h] = Empty]

LPnuMetalComputePipelineCreate(h) ==
  OfKind("function") # {} /\ New(h, "compute") /\ UNCHANGED metalvars
LPnuMetalComputePipelineDestroy(h) == Free(h, "compute") /\ UNCHANGED metalvars

-----------------------------------------------------------------------------
(* Binding.                                                                *)

Store(p, w, h) == memory' = [memory EXCEPT ![p][w] = h]
Ask(p, first, i, h) ==
  asked' = IF i < Slots THEN [asked EXCEPT ![p][first + i] = h] ELSE asked

(* A fault of binding: the bound of the index is one too large.            *)
Fault_SetBuffer_OnePast(p, i, b) ==
  /\ kind[p] = "render"
  /\ IF i <= Slots THEN Store(p, i, b) ELSE UNCHANGED memory
  /\ Ask(p, 0, i, b)
  /\ UNCHANGED heapvars

(* An index out of range is ignored. *)
LPnuMetalRenderPipelineSetBuffer(p, i, b) ==
  /\ kind[p] = "render"
  /\ IF i < Slots THEN Store(p, i, b) ELSE UNCHANGED memory
  /\ Ask(p, 0, i, b)
  /\ UNCHANGED heapvars

LPnuMetalRenderPipelineSetTexture(p, i, x) ==
  /\ kind[p] = "render"
  /\ IF i < Slots THEN Store(p, Slots + i, x) ELSE UNCHANGED memory
  /\ Ask(p, Slots, i, x)
  /\ UNCHANGED heapvars

MetalNext ==
  \/ \E h, d \in Addresses : LPnuMetalBufferCreate(h, d)
  \/ \E h \in Addresses :
       \/ BufferDataFails(h) \/ LPnuMetalBufferDestroy(h)
       \/ LPnuMetalTextureCreate(h) \/ LPnuMetalTextureDestroy(h)
       \/ LPnuMetalSamplerCreate(h) \/ LPnuMetalSamplerDestroy(h)
       \/ LPnuMetalCommandQueueCreate(h) \/ LPnuMetalCommandQueueDestroy(h)
       \/ LPnuMetalCommandBufferCreate(h) \/ LPnuMetalCommandBufferDestroy(h)
       \/ LPnuMetalLibraryCreateFromSource(h) \/ LPnuMetalLibraryGetFunction(h)
       \/ LPnuMetalRenderPipelineCreate(h) \/ LPnuMetalRenderPipelineDestroy(h)
       \/ LPnuMetalComputePipelineCreate(h) \/ LPnuMetalComputePipelineDestroy(h)
  \/ \E p \in Addresses, i \in 0 .. Slots, b \in OfKind("buffer") \union {NULL} :
       LPnuMetalRenderPipelineSetBuffer(p, i, b)
  \/ \E p \in Addresses, i \in 0 .. Slots, x \in OfKind("texture") \union {NULL} :
       LPnuMetalRenderPipelineSetTexture(p, i, x)

-----------------------------------------------------------------------------
(* Properties.                                                             *)

(* The memory of a render pipeline is what was last asked for, word by     *)
(* word, and all of it exists: an index at the limit reaches neither the   *)
(* other array nor the word after the structure, and a new pipeline starts *)
(* empty at an address another one had.                                    *)
PipelineHoldsAsked ==
  \A p \in OfKind("render") :
    /\ memory[p] = asked[p]
    /\ \A w \in 0 .. Slots - 1 : memory[p][w] \in OfKind("buffer") \union {NULL}
    /\ \A w \in Slots .. 2 * Slots - 1 : memory[p][w] \in OfKind("texture") \union {NULL}
    /\ memory[p][2 * Slots] = NULL
=============================================================================
