---------------------------- MODULE KextRuntime -----------------------------
(***************************************************************************)
(* The user-space KEXT loader, lpnu/kext/lpnu_kext_runtime.c: an enable    *)
(* switch, a table of at most MaxKexts LPnuKextInfo pointers, and loading  *)
(* and unloading through dlopen and dlclose.                               *)
(*                                                                         *)
(* LPnuKextLoad calls the start entry point of the library it has opened   *)
(* and LPnuKextUnload calls its stop entry point.  These run foreign code, *)
(* which may call back into the loader, so a call is split at the callback *)
(* and `calls' is the stack of callbacks now executing.  Nothing else      *)
(* interleaves: the loader has no locks and is used by one thread.  The    *)
(* constructors and destructors that dlopen and dlclose may run are taken  *)
(* not to call the loader.                                                 *)
(*                                                                         *)
(* A call rejected with -1 (a null argument), -2 (disabled), -3 (stat) or  *)
(* -4 (dlopen) returns before it writes anything: it is a stuttering step. *)
(*                                                                         *)
(* `phase' follows each info buffer through its life.  It states what the  *)
(* loader relies on its clients to do: load into a buffer that is not in   *)
(* use, unload a buffer whose load succeeded, once.                        *)
(***************************************************************************)
EXTENDS Integers, Sequences, FiniteSets, PtrTable

CONSTANTS
  Infos,      \* the LPnuKextInfo buffers of the clients
  Paths,      \* the libraries on disk; dlopen gives each one handle
  NULL,       \* the null pointer
  MaxKexts,   \* slots of g_loaded_kexts (256 in the code)
  MaxDepth,   \* bound on nested callbacks
  Names,      \* the KEXT names: a path without directories and ".kext"
  NameOf,     \* the name the loader derives from a path
  MainOf      \* what the library at a path exports, see Mains

(* "none": no kext_main, or one without a start entry; "start": a start    *)
(* entry only; "both": a start and a stop entry.                           *)
Mains == {"none", "start", "both"}

ASSUME InfosAssumption == IsFiniteSet(Infos) /\ NULL \notin Infos
ASSUME PathsAssumption == NULL \notin Paths
ASSUME SlotsAssumption == MaxKexts \in Nat /\ MaxDepth \in Nat
ASSUME NameOfAssumption == NameOf \in [Paths -> Names]
ASSUME MainOfAssumption == MainOf \in [Paths -> Mains]

VARIABLES
  runtime,    \* g_kext_runtime_enabled
  table,      \* g_loaded_kexts
  count,      \* g_kext_count
  module,     \* info->module of every buffer
  stop,       \* info->stop of every buffer: is there a stop entry
  dlRefs,     \* the reference count dlopen keeps for every path
  calls,      \* callbacks now executing, innermost last
  phase       \* where every buffer is in its life

vars == <<runtime, table, count, module, stop, dlRefs, calls, phase>>

Slots  == 0 .. MaxKexts - 1
Phases == {"idle", "starting", "running", "stopping"}
Frames == [op : {"start", "stop"}, info : Infos]

TypeOK ==
  /\ runtime \in {0, 1}
  /\ table \in [Slots -> Infos \union {NULL}]
  /\ count \in 0 .. MaxKexts
  /\ module \in [Infos -> Paths \union {NULL}]
  /\ stop \in [Infos -> BOOLEAN]
  /\ dlRefs \in [Paths -> Int]
  /\ calls \in Seq(Frames)
  /\ phase \in [Infos -> Phases]

Init ==
  /\ runtime = 0
  /\ table = [k \in Slots |-> NULL]
  /\ count = 0
  /\ module = [i \in Infos |-> NULL]
  /\ stop = [i \in Infos |-> FALSE]
  /\ dlRefs = [p \in Paths |-> 0]
  /\ calls = <<>>
  /\ phase = [i \in Infos |-> "idle"]

-----------------------------------------------------------------------------
(* What the operations are made of.                                        *)

(* dlclose refuses a handle that is not open. *)
DlOpen(p)  == dlRefs' = [dlRefs EXCEPT ![p] = @ + 1]
DlClose(p) == dlRefs' = [dlRefs EXCEPT ![p] = IF @ > 0 THEN @ - 1 ELSE @]

Executing(op, i) == calls # <<>> /\ calls[Len(calls)] = [op |-> op, info |-> i]
Push(op, i) == calls' = Append(calls, [op |-> op, info |-> i])
Pop == calls' = SubSeq(calls, 1, Len(calls) - 1)

(* A fault of Register: a bound of one slot too few.                       *)
Fault_Register_SlotShort(i) ==
  /\ table' = IF count < MaxKexts - 1 THEN Put(table, count, i) ELSE table
  /\ count' = IF count < MaxKexts - 1 THEN count + 1 ELSE count

(* The end of a successful load; with a full table the kext runs untracked. *)
Register(i) ==
  /\ table' = IF count < MaxKexts THEN Put(table, count, i) ELSE table
  /\ count' = IF count < MaxKexts THEN count + 1 ELSE count

(* Faults of Unregister: the search stops one entry short, the last entry  *)
(* fills the gap instead of the shift, the count goes down also when the   *)
(* search found nothing.                                                   *)
Fault_Unregister_MissesLast(i) ==
  /\ table' = Removed(table, count - 1, i)
  /\ count' = IF i \in Entries(table, count - 1) THEN count - 1 ELSE count
Fault_Unregister_LastFillsGap(i) ==
  /\ table' = IF i \in Entries(table, count)
              THEN Put(table, FirstAt(table, count, i), table[count - 1])
              ELSE table
  /\ count' = CountAfter(table, count, i)

Fault_Unregister_CountsAnyway(i) ==
  /\ table' = Removed(table, count, i)
  /\ count' = IF count > 0 THEN count - 1 ELSE count

(* The removal loop of LPnuKextUnload.                                     *)
Unregister(i) ==
  /\ table' = Removed(table, count, i)
  /\ count' = CountAfter(table, count, i)

-----------------------------------------------------------------------------
(* The operations.                                                         *)

LPnuKextSetRuntime(enabled) ==
  /\ runtime' = enabled
  /\ UNCHANGED <<table, count, module, stop, dlRefs, calls, phase>>

(* What LPnuKextLoad does before it can call start: the switch is checked, *)
(* the library opened, the buffer cleared and filled in.                   *)
OpenInto(p, i) ==
  /\ runtime = 1
  /\ DlOpen(p)
  /\ module' = [module EXCEPT ![i] = p]
  /\ stop' = [stop EXCEPT ![i] = FALSE]

(* A load of a library without a start entry: no callback, done in a step. *)
LoadWithoutStart(p, i) ==
  /\ phase[i] = "idle"
  /\ MainOf[p] = "none"
  /\ OpenInto(p, i)
  /\ Register(i)
  /\ phase' = [phase EXCEPT ![i] = "running"]
  /\ UNCHANGED <<runtime, calls>>

(* A load of a library with a start entry, up to the call of start.        *)
LoadCallsStart(p, i) ==
  /\ phase[i] = "idle"
  /\ MainOf[p] # "none"
  /\ Len(calls) < MaxDepth
  /\ OpenInto(p, i)
  /\ Push("start", i)
  /\ phase' = [phase EXCEPT ![i] = "starting"]
  /\ UNCHANGED <<runtime, table, count>>

(* start returned 0: the entries are recorded and the kext is registered.  *)
StartSucceeds(i) ==
  /\ Executing("start", i)
  /\ Pop
  /\ stop' = [stop EXCEPT ![i] = MainOf[module[i]] = "both"]
  /\ Register(i)
  /\ phase' = [phase EXCEPT ![i] = "running"]
  /\ UNCHANGED <<runtime, module, dlRefs>>

(* A fault of StartFails: the error path forgets dlclose.                  *)
Fault_StartFails_KeepsOpen(i) ==
  /\ Executing("start", i)
  /\ Pop
  /\ phase' = [phase EXCEPT ![i] = "idle"]
  /\ UNCHANGED <<runtime, table, count, module, stop, dlRefs>>

(* start returned an error: -5, the library is closed.  The buffer keeps   *)
(* its module pointer.                                                     *)
StartFails(i) ==
  /\ Executing("start", i)
  /\ Pop
  /\ DlClose(module[i])
  /\ phase' = [phase EXCEPT ![i] = "idle"]
  /\ UNCHANGED <<runtime, table, count, module, stop>>

(* The tail of LPnuKextUnload, after the stop entry. *)
CloseAndUnregister(i) ==
  /\ DlClose(module[i])
  /\ Unregister(i)
  /\ phase' = [phase EXCEPT ![i] = "idle"]

UnloadWithoutStop(i) ==
  /\ phase[i] = "running"
  /\ ~stop[i]
  /\ CloseAndUnregister(i)
  /\ UNCHANGED <<runtime, module, stop, calls>>

(* A fault of UnloadCallsStop: dlclose comes before the call of stop.      *)
Fault_UnloadCallsStop_ClosesFirst(i) ==
  /\ phase[i] = "running"
  /\ stop[i]
  /\ Len(calls) < MaxDepth
  /\ DlClose(module[i])
  /\ Push("stop", i)
  /\ phase' = [phase EXCEPT ![i] = "stopping"]
  /\ UNCHANGED <<runtime, table, count, module, stop>>

UnloadCallsStop(i) ==
  /\ phase[i] = "running"
  /\ stop[i]
  /\ Len(calls) < MaxDepth
  /\ Push("stop", i)
  /\ phase' = [phase EXCEPT ![i] = "stopping"]
  /\ UNCHANGED <<runtime, table, count, module, stop, dlRefs>>

(* stop returned; its result is not looked at. *)
StopReturns(i) ==
  /\ Executing("stop", i)
  /\ Pop
  /\ CloseAndUnregister(i)
  /\ UNCHANGED <<runtime, module, stop>>

(* A fault of Named: the loop looks at the slot after the last entry.      *)
Fault_Named_OnePast(n) ==
  {k \in Slots : k <= count /\ table[k] # NULL /\ NameOf[module[table[k]]] = n}

(* Read-only operations, as the values they hand out.  GetInfo copies the  *)
(* first entry of the name it is given, or finds none: NULL, its -2.       *)
Named(n) ==
  {k \in 0 .. count - 1 : table[k] # NULL /\ NameOf[module[table[k]]] = n}
LPnuKextGetInfo(n) ==
  IF Named(n) = {} THEN NULL
  ELSE table[CHOOSE k \in Named(n) : \A j \in Named(n) : k <= j]
LPnuKextList == [k \in 0 .. count - 1 |-> table[k]]

Next ==
  \/ \E e \in {0, 1} : LPnuKextSetRuntime(e)
  \/ \E p \in Paths, i \in Infos : LoadWithoutStart(p, i)
  \/ \E p \in Paths, i \in Infos : LoadCallsStart(p, i)
  \/ \E i \in Infos : StartSucceeds(i)
  \/ \E i \in Infos : StartFails(i)
  \/ \E i \in Infos : UnloadWithoutStop(i)
  \/ \E i \in Infos : UnloadCallsStop(i)
  \/ \E i \in Infos : StopReturns(i)

Spec == Init /\ [][Next]_vars

-----------------------------------------------------------------------------
(* Properties.                                                             *)

Live == {i \in Infos : phase[i] # "idle"}
HoldersOf(p) == {i \in Live : module[i] = p}

(* Every successful dlopen is matched by exactly one dlclose: the count    *)
(* dlopen keeps for a library is the number of buffers that hold it,       *)
(* through failed starts, nested loads of the same library and unloads     *)
(* from inside callbacks.                                                  *)
RefsBalanced == \A p \in Paths : dlRefs[p] = Cardinality(HoldersOf(p))

(* The table lists each kext once and only kexts whose start has returned  *)
(* 0 and whose library is not yet closed, also while a stop entry changes  *)
(* the table under an unload in progress.                                  *)
TrackedAreLive ==
  /\ NoDuplicates(table, count)
  /\ \A k \in DOMAIN LPnuKextList :
       /\ LPnuKextList[k] \in Infos
       /\ phase[LPnuKextList[k]] \in {"running", "stopping"}

(* The code of every callback on the stack is mapped: no nested call of    *)
(* the loader closes the last reference to a library that is executing.    *)
CallbackCodeMapped ==
  \A c \in 1 .. Len(calls) :
    /\ module[calls[c].info] \in Paths
    /\ dlRefs[module[calls[c].info]] > 0

(* LPnuKextGetInfo hands out a kext of the asked name whose library is     *)
(* mapped, and misses none that the table lists.                           *)
LookupMapped ==
  \A n \in Names :
    LET i == LPnuKextGetInfo(n) IN
      IF i = NULL
      THEN \A k \in 0 .. count - 1 : NameOf[module[table[k]]] # n
      ELSE /\ i \in Infos
           /\ module[i] \in Paths
           /\ NameOf[module[i]] = n
           /\ dlRefs[module[i]] > 0

(* Removals keep the order of the entries that stay, so that a lookup by   *)
(* a name two kexts share keeps answering with the one loaded first.       *)
KeepsOrder ==
  \A i, j \in Entries(table, count) \intersect Entries(table', count') :
    Before(table, count, i, j) => Before(table', count', i, j)
LoadOrderKept == [][KeepsOrder]_vars

(* The loader implements the registry of sets: the shifting table is a set *)
(* of bounded size, a kext is left out of it only when it is full, and it  *)
(* leaves it in the very step that closes its library.                     *)
Registry == INSTANCE KextRegistry WITH
  Kexts     <- Infos,
  Capacity  <- MaxKexts,
  enabled   <- runtime = 1,
  opening   <- {i \in Infos : phase[i] = "starting"},
  tracked   <- Entries(table, count),
  untracked <- {i \in Infos : phase[i] \in {"running", "stopping"}}
                 \ Entries(table, count)
ImplementsRegistry == Registry!RSpec
=============================================================================
