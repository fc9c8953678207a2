--------------------------- MODULE LoaderProcess ----------------------------
(***************************************************************************)
(* One process that uses both user-space loaders.  lpnu_kext_runtime.c and *)
(* lpnu_dyld.c share no variable of their own, but both go through the C   *)
(* library's dlopen and dlclose, which keep one reference count per        *)
(* library.  A start or stop entry of a kext may call either loader, so a  *)
(* step of Dyld may fall between the two halves of a load or an unload.    *)
(*                                                                         *)
(* KextRuntime has clients that keep to the life of a buffer.  Here one of *)
(* them breaks the rules, at most once and in one of three ways the loader *)
(* does not notice: `misuse' says which.                                   *)
(***************************************************************************)
EXTENDS Integers, Sequences, FiniteSets

CONSTANTS Infos, Paths, NULL, MaxKexts, MaxDepth, Names, NameOf, MainOf,
          Images, MaxImages, Clients

ASSUME HoldersAssumption ==
  /\ IsFiniteSet(Infos) /\ IsFiniteSet(Images)
  /\ NULL \notin Infos \union Images \union Paths
ASSUME LimitsAssumption == {MaxKexts, MaxDepth, MaxImages} \subseteq Nat

VARIABLES runtime, table, count, module, stop, calls, phase,
          images, imageCount, handle, client, peak, added,
          dlRefs,   \* shared: the reference count of every library
          misuse    \* "none", "stale", "over" or "copy"

Kext == INSTANCE KextRuntime
Dyld == INSTANCE Dyld

kextOwn == <<runtime, table, count, module, stop, calls, phase>>
dyldOwn == <<images, imageCount, handle, client, peak, added>>

Init == Kext!Init /\ Dyld!Init /\ misuse = "none"

Misuse(kind) == misuse = "none" /\ misuse' = kind

(* LPnuKextUnload of a buffer that is not loaded: after a failed start or  *)
(* a second time.  Its handle is still there.  (With a stop entry it would *)
(* call into a library it does not hold; not modelled.)                    *)
UnloadStale(i) ==
  /\ Misuse("stale")
  /\ phase[i] = "idle" /\ module[i] # NULL /\ ~stop[i]
  /\ Kext!DlClose(module[i])
  /\ Kext!Unregister(i)
  /\ UNCHANGED <<runtime, module, stop, calls, phase>>

(* LPnuKextLoad into a running buffer: its handle is overwritten.          *)
LoadOver(p, i) ==
  /\ Misuse("over")
  /\ phase[i] = "running"
  /\ Kext!OpenInto(p, i)
  /\ \/ /\ MainOf[p] = "none"
        /\ Kext!Register(i)
        /\ UNCHANGED <<calls, phase>>
     \/ /\ MainOf[p] # "none"
        /\ Len(calls) < MaxDepth
        /\ Kext!Push("start", i)
        /\ phase' = [phase EXCEPT ![i] = "starting"]
        /\ UNCHANGED <<table, count>>
  /\ UNCHANGED runtime

(* LPnuKextUnload of an entry of LPnuKextList: a copy of a tracked info,   *)
(* which the search of the table does not find.  The copy is taken at the  *)
(* moment of the call, while its kext runs.                                *)
CopyOf(i) == [op |-> "copy stop", info |-> i, path |-> module[i]]

UnloadCopy(i) ==
  /\ Misuse("copy")
  /\ i \in {Kext!LPnuKextList[k] : k \in DOMAIN Kext!LPnuKextList}
  /\ \/ ~stop[i] /\ Kext!DlClose(module[i]) /\ UNCHANGED calls
     \/ /\ stop[i] /\ Len(calls) < MaxDepth
        /\ calls' = Append(calls, CopyOf(i))
        /\ UNCHANGED dlRefs
  /\ UNCHANGED <<runtime, table, count, module, stop, phase>>

CopyStopReturns ==
  /\ calls # <<>> /\ calls[Len(calls)].op = "copy stop"
  /\ Kext!DlClose(calls[Len(calls)].path)
  /\ Kext!Pop
  /\ UNCHANGED <<runtime, table, count, module, stop, phase, misuse>>

Careless ==
  \/ \E i \in Infos : UnloadStale(i) \/ UnloadCopy(i)
  \/ \E p \in Paths, i \in Infos : LoadOver(p, i)
  \/ CopyStopReturns

Next ==
  \/ Kext!Next /\ UNCHANGED <<dyldOwn, misuse>>
  \/ Dyld!Next /\ UNCHANGED <<kextOwn, misuse>>
  \/ Careless /\ UNCHANGED dyldOwn

Spec == Init /\ [][Next]_<<kextOwn, dyldOwn, dlRefs, misuse>>

-----------------------------------------------------------------------------
(* The count of a library is the number of buffers and images that hold    *)
(* it: neither loader ever gives back a reference of the other.  A careless *)
(* call costs one library one reference, whatever follows: a load over a   *)
(* running kext leaves one too many, the others one too few.               *)
Drift(p) ==
  dlRefs[p] - (Cardinality(Kext!HoldersOf(p)) + Cardinality(Dyld!ImagesOf(p)))
SharedRefsBalanced ==
  /\ \A p \in Paths :
       Drift(p) \in CASE misuse = "none" -> {0}
                      [] misuse = "over" -> {0, 1}
                      [] misuse \in {"stale", "copy"} -> {-1, 0}
  /\ \A p, q \in Paths : Drift(p) # 0 /\ Drift(q) # 0 => p = q

(* Code reachable from either loader is mapped: the callback now running,  *)
(* and every image whose symbols LPNUdyld_get_symbol looks up, even if the *)
(* other loader has just closed the same library, and even if a kext was   *)
(* loaded over another.                                                    *)
ReachableCodeMapped ==
  misuse \in {"none", "over"} =>
    /\ Kext!CallbackCodeMapped
    /\ \A m \in Dyld!Allocated : dlRefs[Dyld!LPNUdyld_get_symbol(m)] > 0

(* What a careless call leaves in g_loaded_kexts.  The search by pointer   *)
(* protects the table from an unload of a stale buffer or of a copy: with  *)
(* room for all, it lists the running kexts, each once.  A load over a     *)
(* listed kext leaves at most one slot that names a kext twice or one that *)
(* is not loaded, and later loads and unloads do not add to that.          *)
FirstOfLive(k) ==
  /\ phase[table[k]] # "idle"
  /\ \A j \in 0 .. k - 1 : table[j] # table[k]
Listed == {table[k] : k \in 0 .. count - 1}
TableSurvivesMisuse ==
  /\ Cardinality({k \in 0 .. count - 1 : ~FirstOfLive(k)})
       <= IF misuse = "over" THEN 1 ELSE 0
  /\ misuse # "over" /\ Cardinality(Infos) <= MaxKexts
       => Listed = {i \in Infos : phase[i] \in {"running", "stopping"}}
=============================================================================
