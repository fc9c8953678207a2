------------------------- MODULE KextRuntimeProofs --------------------------
(***************************************************************************)
(* Theorems about KextRuntime, for every number of buffers, libraries,     *)
(* slots and nested callbacks.                                             *)
(*                                                                         *)
(* RefsBalanced alone is not inductive: a callback that returns closes     *)
(* the library of the buffer in its frame, which is right only if that     *)
(* buffer still holds it.  KInv adds that the stack of callbacks and the   *)
(* phases of the buffers agree and that every live buffer holds a library. *)
(***************************************************************************)
EXTENDS KextRuntime, PtrTableProofs

(* Every frame belongs to one buffer, which waits in the phase of the call. *)
FramesAgree ==
  /\ \A c \in 1 .. Len(calls) :
       phase[calls[c].info]
         = IF calls[c].op = "start" THEN "starting" ELSE "stopping"
  /\ \A c, d \in 1 .. Len(calls) : calls[c].info = calls[d].info => c = d

(* The table lists live kexts, each once. *)
TableAgrees ==
  /\ NoDuplicates(table, count)
  /\ \A x \in Entries(table, count) :
       x \in Infos /\ phase[x] \in {"running", "stopping"}

LiveHold == \A i \in Live : module[i] \in Paths

KInv == TypeOK /\ FramesAgree /\ TableAgrees /\ LiveHold /\ RefsBalanced

-----------------------------------------------------------------------------
(* Reference counts: what a step does to the holders of every library.     *)

LEMMA HoldersFinite ==
  \A p : IsFiniteSet(HoldersOf(p)) /\ Cardinality(HoldersOf(p)) \in Nat
<1> SUFFICES ASSUME NEW p
             PROVE  IsFiniteSet(HoldersOf(p)) /\ Cardinality(HoldersOf(p)) \in Nat
  OBVIOUS
<1>1. HoldersOf(p) \in SUBSET Infos
  BY DEF HoldersOf, Live
<1> QED
  BY <1>1, InfosAssumption, FS_Subset, FS_CardinalityType

(* Opening a library into an idle buffer adds one holder.                  *)
LEMMA HolderAdded ==
  ASSUME TypeOK, RefsBalanced, NEW p \in Paths, NEW i \in Infos,
         NEW s \in Phases \ {"idle"}, phase[i] = "idle", DlOpen(p),
         phase' = [phase EXCEPT ![i] = s], module' = [module EXCEPT ![i] = p]
  PROVE  RefsBalanced'
<1> SUFFICES ASSUME NEW q \in Paths
             PROVE  dlRefs'[q] = Cardinality(HoldersOf(q)')
  BY DEF RefsBalanced
<1>1. HoldersOf(q)' = IF q = p THEN HoldersOf(q) \union {i} ELSE HoldersOf(q)
  BY DEF HoldersOf, Live, TypeOK, Phases
<1>2. i \notin HoldersOf(q)
  BY DEF HoldersOf, Live
<1>3. dlRefs'[q] = IF q = p THEN dlRefs[q] + 1 ELSE dlRefs[q]
  BY DEF DlOpen, TypeOK
<1>4. Cardinality(HoldersOf(q) \union {i}) = Cardinality(HoldersOf(q)) + 1
  BY <1>2, HoldersFinite, FS_AddElement
<1> QED
  BY <1>1, <1>3, <1>4 DEF RefsBalanced

(* Closing the library of a live buffer and giving the buffer up takes one. *)
LEMMA HolderRemoved ==
  ASSUME TypeOK, RefsBalanced, LiveHold, NEW i \in Live, DlClose(module[i]),
         phase' = [phase EXCEPT ![i] = "idle"], module' = module
  PROVE  RefsBalanced'
<1> SUFFICES ASSUME NEW q \in Paths
             PROVE  dlRefs'[q] = Cardinality(HoldersOf(q)')
  BY DEF RefsBalanced
<1>1. HoldersOf(q)'
        = IF q = module[i] THEN HoldersOf(q) \ {i} ELSE HoldersOf(q)
  BY DEF HoldersOf, Live, TypeOK
<1>2. q = module[i] => i \in HoldersOf(q)
  BY DEF HoldersOf
<1>3. q = module[i]
        => Cardinality(HoldersOf(q) \ {i}) = Cardinality(HoldersOf(q)) - 1
  BY <1>2, HoldersFinite, FS_RemoveElement
<1>4. q = module[i] => dlRefs[q] > 0
  <2>1. IsFiniteSet(HoldersOf(q) \ {i})
    BY HoldersFinite, FS_RemoveElement
  <2>2. Cardinality(HoldersOf(q) \ {i}) \in Nat
    BY <2>1, FS_CardinalityType
  <2> QED
    BY <1>3, <2>2 DEF RefsBalanced, TypeOK
<1>5. dlRefs'[q] = IF q = module[i] THEN dlRefs[q] - 1 ELSE dlRefs[q]
  BY <1>4 DEF DlClose, TypeOK, LiveHold
<1> QED
  BY <1>1, <1>3, <1>5 DEF RefsBalanced

(* A live buffer that stays live keeps its library.                        *)
LEMMA HolderKept ==
  ASSUME TypeOK, RefsBalanced, NEW i \in Live, NEW s \in Phases \ {"idle"},
         phase' = [phase EXCEPT ![i] = s], module' = module, dlRefs' = dlRefs
  PROVE  RefsBalanced'
<1>1. \A q \in Paths : HoldersOf(q)' = HoldersOf(q)
  BY DEF HoldersOf, Live, TypeOK, Phases
<1> QED
  BY <1>1 DEF RefsBalanced

-----------------------------------------------------------------------------
(* The table: what registration and removal do to it.                      *)

LEMMA TypedTable ==
  ASSUME TypeOK
  PROVE  /\ IsTable(table, count)
         /\ DOMAIN table = Slots
         /\ count < MaxKexts => count \in Slots
BY SlotsAssumption DEF TypeOK, IsTable, Slots

LEMMA RegisterTable ==
  ASSUME TypeOK, NEW i \in Infos, Register(i)
  PROVE  /\ table' \in [Slots -> Infos \union {NULL}]
         /\ count' \in 0 .. MaxKexts
         /\ Entries(table', count')
              = IF count < MaxKexts THEN Entries(table, count) \union {i}
                                    ELSE Entries(table, count)
         /\ NoDuplicates(table, count) /\ i \notin Entries(table, count)
              => NoDuplicates(table', count')
<1>1. CASE count < MaxKexts
  <2>1. table' = Put(table, count, i) /\ count' = count + 1
    BY <1>1 DEF Register
  <2>2. count' \in 0 .. MaxKexts
    BY <1>1, <2>1, SlotsAssumption DEF TypeOK
  <2>3. table' \in [Slots -> Infos \union {NULL}]
    BY <2>1 DEF TypeOK, Put
  <2> QED
    BY <1>1, <2>1, <2>2, <2>3, TypedTable, PutAdds
<1>2. CASE ~(count < MaxKexts)
  BY <1>2 DEF Register, TypeOK
<1> QED
  BY <1>1, <1>2

LEMMA UnregisterTable ==
  ASSUME TypeOK, NEW i \in Infos, Unregister(i)
  PROVE  /\ table' \in [Slots -> Infos \union {NULL}]
         /\ count' \in 0 .. MaxKexts
         /\ NoDuplicates(table, count)
              => /\ Entries(table', count') = Entries(table, count) \ {i}
                 /\ NoDuplicates(table', count')
<1>1. table' = Removed(table, count, i) /\ count' = CountAfter(table, count, i)
  BY DEF Unregister
<1>2. IsTable(table, count)
  BY TypedTable
<1>3. table' \in [Slots -> Infos \union {NULL}] /\ count' \in 0 .. count
  <2> DEFINE S == Infos \union {NULL}
  <2>1. table \in [Slots -> S]
    BY DEF TypeOK
  <2>2. Slots \subseteq Int /\ 0 .. count - 1 \subseteq Slots /\ count \in Nat
    BY SlotsAssumption DEF Slots, TypeOK
  <2> HIDE DEF S
  <2>3. Removed(table, count, i) \in [Slots -> S]
    BY <2>1, <2>2, RemovedType, Zenon
  <2>4. CountAfter(table, count, i) \in 0 .. count
    BY <2>1, <2>2, RemovedType, Zenon
  <2> QED
    BY <1>1, <2>3, <2>4 DEF S
<1>4. count' \in 0 .. MaxKexts
  BY <1>3, SlotsAssumption DEF TypeOK
<1> QED
  BY <1>1, <1>2, <1>3, <1>4, RemovedEntries

-----------------------------------------------------------------------------
(* The stack of callbacks.                                                 *)

CallPhase(op) == IF op = "start" THEN "starting" ELSE "stopping"

LEMMA PushFrames ==
  ASSUME TypeOK, FramesAgree, NEW i \in Infos, NEW op \in {"start", "stop"},
         phase[i] \in {"idle", "running"}, Push(op, i),
         phase' = [phase EXCEPT ![i] = CallPhase(op)]
  PROVE  calls' \in Seq(Frames) /\ FramesAgree'
<1> DEFINE f == [op |-> op, info |-> i]
           n == Len(calls)
<1>1. f \in Frames /\ calls \in Seq(Frames) /\ n \in Nat
  BY DEF Frames, TypeOK
<1>2. /\ calls' \in Seq(Frames)
      /\ Len(calls') = n + 1
      /\ calls'[n + 1] = f
      /\ \A c \in 1 .. n : calls'[c] = calls[c]
  BY <1>1 DEF Push
<1>3. \A c \in 1 .. n : calls[c].info \in Infos /\ calls[c].info # i
  <2> SUFFICES ASSUME NEW c \in 1 .. n
               PROVE  calls[c].info \in Infos /\ calls[c].info # i
    OBVIOUS
  <2>1. calls[c] \in Frames
    BY <1>1
  <2> QED
    BY <2>1 DEF FramesAgree, Frames
<1>4. phase'[i] = CallPhase(op) /\ \A j \in Infos : j # i => phase'[j] = phase[j]
  BY DEF TypeOK
<1>5. 1 .. Len(calls') = (1 .. n) \union {n + 1}
  BY <1>1, <1>2
<1>6. \A c \in 1 .. Len(calls') :
        phase'[calls'[c].info] = CallPhase(calls'[c].op)
  BY <1>2, <1>3, <1>4, <1>5 DEF FramesAgree, CallPhase
<1>7. \A c, d \in 1 .. Len(calls') : calls'[c].info = calls'[d].info => c = d
  BY <1>2, <1>3, <1>5 DEF FramesAgree
<1> QED
  BY <1>2, <1>6, <1>7 DEF FramesAgree, CallPhase

LEMMA PopFrames ==
  ASSUME TypeOK, FramesAgree, NEW i \in Infos, NEW op \in {"start", "stop"},
         Executing(op, i), Pop, NEW s \in Phases,
         phase' = [phase EXCEPT ![i] = s]
  PROVE  /\ calls' \in Seq(Frames)
         /\ FramesAgree'
         /\ phase[i] = CallPhase(op)
<1> DEFINE n == Len(calls)
<1>1. calls \in Seq(Frames) /\ n \in Nat \ {0}
  BY DEF TypeOK, Executing
<1>2. /\ calls' \in Seq(Frames)
      /\ Len(calls') = n - 1
      /\ \A c \in 1 .. n - 1 : calls'[c] = calls[c]
  BY <1>1, WithoutLast DEF Pop, Executing
<1>3. calls[n].info = i /\ phase[i] = CallPhase(op)
  BY <1>1 DEF Executing, FramesAgree, CallPhase
<1>4. \A c \in 1 .. n - 1 : calls[c].info \in Infos /\ calls[c].info # i
  <2> SUFFICES ASSUME NEW c \in 1 .. n - 1
               PROVE  calls[c].info \in Infos /\ calls[c].info # i
    OBVIOUS
  <2>1. calls[c] \in Frames /\ c # n /\ c \in 1 .. n /\ n \in 1 .. n
    BY <1>1
  <2> QED
    BY <2>1, <1>3 DEF FramesAgree, Frames
<1>5. \A j \in Infos : j # i => phase'[j] = phase[j]
  BY DEF TypeOK
<1> QED
  BY <1>1, <1>2, <1>3, <1>4, <1>5 DEF FramesAgree

LEMMA OtherFrames ==
  ASSUME TypeOK, FramesAgree, NEW i \in Infos, NEW s \in Phases,
         phase[i] \in {"idle", "running"}, calls' = calls,
         phase' = [phase EXCEPT ![i] = s]
  PROVE  FramesAgree'
<1>1. \A c \in 1 .. Len(calls) : calls[c].info \in Infos /\ calls[c].info # i
  <2> SUFFICES ASSUME NEW c \in 1 .. Len(calls)
               PROVE  calls[c].info \in Infos /\ calls[c].info # i
    OBVIOUS
  <2>1. calls[c] \in Frames
    BY DEF TypeOK
  <2> QED
    BY <2>1 DEF FramesAgree, Frames
<1> QED
  BY <1>1 DEF FramesAgree, TypeOK

-----------------------------------------------------------------------------
(* The inductive invariant.                                                *)

LEMMA KInvInit == Init => KInv
<1> SUFFICES ASSUME Init
             PROVE  KInv
  OBVIOUS
<1>1. TypeOK
  BY SlotsAssumption DEF Init, TypeOK, Slots, Phases
<1>2. FramesAgree /\ TableAgrees /\ LiveHold
  BY DEF Init, FramesAgree, TableAgrees, NoDuplicates, Entries, LiveHold, Live
<1>3. RefsBalanced
  <2>1. \A p \in Paths : HoldersOf(p) = {}
    BY DEF Init, HoldersOf, Live
  <2> QED
    BY <2>1, FS_EmptySet DEF Init, RefsBalanced
<1> QED
  BY <1>1, <1>2, <1>3 DEF KInv

LEMMA KInvStep == KInv /\ [Next]_vars => KInv'
<1> SUFFICES ASSUME KInv, [Next]_vars
             PROVE  KInv'
  OBVIOUS
<1> USE DEF KInv
<1>1. ASSUME NEW e \in {0, 1}, LPnuKextSetRuntime(e)
      PROVE  KInv'
  BY <1>1 DEF LPnuKextSetRuntime, TypeOK, FramesAgree, TableAgrees, LiveHold,
              Live, RefsBalanced, HoldersOf
<1>2. ASSUME NEW p \in Paths, NEW i \in Infos, LoadWithoutStart(p, i)
      PROVE  KInv'
  <2> USE <1>2 DEF LoadWithoutStart, OpenInto
  <2>1. i \notin Entries(table, count)
    BY DEF TableAgrees
  <2>2. TypeOK'
    BY RegisterTable DEF TypeOK, DlOpen, Phases
  <2>3. FramesAgree'
    BY OtherFrames DEF Phases
  <2>4. TableAgrees'
    BY <2>1, RegisterTable DEF TableAgrees, TypeOK
  <2>5. LiveHold'
    BY DEF LiveHold, Live, TypeOK
  <2>6. RefsBalanced'
    BY HolderAdded DEF Phases
  <2> QED
    BY <2>2, <2>3, <2>4, <2>5, <2>6
<1>3. ASSUME NEW p \in Paths, NEW i \in Infos, LoadCallsStart(p, i)
      PROVE  KInv'
  <2> USE <1>3 DEF LoadCallsStart, OpenInto
  <2>1. calls' \in Seq(Frames) /\ FramesAgree'
    BY PushFrames DEF CallPhase
  <2>2. TypeOK'
    BY <2>1 DEF TypeOK, DlOpen, Phases
  <2>3. TableAgrees'
    BY DEF TableAgrees, TypeOK
  <2>4. LiveHold'
    BY DEF LiveHold, Live, TypeOK
  <2>5. RefsBalanced'
    BY HolderAdded DEF Phases
  <2> QED
    BY <2>1, <2>2, <2>3, <2>4, <2>5
<1>4. ASSUME NEW i \in Infos, StartSucceeds(i)
      PROVE  KInv'
  <2> USE <1>4 DEF StartSucceeds
  <2>1. calls' \in Seq(Frames) /\ FramesAgree' /\ phase[i] = "starting"
    BY PopFrames DEF CallPhase, Phases
  <2>2. i \notin Entries(table, count)
    BY <2>1 DEF TableAgrees
  <2>3. TypeOK'
    <3>1. stop' \in [Infos -> BOOLEAN]
      <4>1. (MainOf[module[i]] = "both") \in BOOLEAN
        OBVIOUS
      <4>2. stop' = [stop EXCEPT ![i] = MainOf[module[i]] = "both"]
        OBVIOUS
      <4> QED
        BY <4>1, <4>2, Zenon DEF TypeOK
    <3>2. phase' \in [Infos -> Phases]
      BY DEF TypeOK, Phases
    <3> QED
      BY <2>1, <3>1, <3>2, RegisterTable DEF TypeOK
  <2>4. TableAgrees'
    BY <2>2, RegisterTable DEF TableAgrees, TypeOK
  <2>5. LiveHold'
    BY <2>1 DEF LiveHold, Live, TypeOK
  <2>6. RefsBalanced'
    BY <2>1, HolderKept DEF Phases, Live
  <2> QED
    BY <2>1, <2>3, <2>4, <2>5, <2>6
<1>5. ASSUME NEW i \in Infos, StartFails(i)
      PROVE  KInv'
  <2> USE <1>5 DEF StartFails
  <2>1. calls' \in Seq(Frames) /\ FramesAgree' /\ phase[i] = "starting"
    BY PopFrames DEF CallPhase, Phases
  <2>2. i \in Live
    BY <2>1 DEF Live
  <2>3. TypeOK'
    <3>1. dlRefs' \in [Paths -> Int]
      BY <2>2 DEF TypeOK, DlClose, LiveHold
    <3>2. phase' \in [Infos -> Phases]
      BY DEF TypeOK, Phases
    <3> QED
      BY <2>1, <3>1, <3>2 DEF TypeOK
  <2>4. TableAgrees'
    BY <2>1 DEF TableAgrees, TypeOK
  <2>5. LiveHold'
    BY DEF LiveHold, Live, TypeOK
  <2>6. RefsBalanced'
    BY <2>2, HolderRemoved
  <2> QED
    BY <2>1, <2>3, <2>4, <2>5, <2>6
<1>6. ASSUME NEW i \in Infos, UnloadWithoutStop(i)
      PROVE  KInv'
  <2> USE <1>6 DEF UnloadWithoutStop, CloseAndUnregister
  <2>1. i \in Live
    BY DEF Live
  <2>2. TypeOK'
    <3>1. dlRefs' \in [Paths -> Int]
      BY <2>1 DEF TypeOK, DlClose, LiveHold
    <3>2. phase' \in [Infos -> Phases]
      BY DEF TypeOK, Phases
    <3> QED
      BY <3>1, <3>2, UnregisterTable DEF TypeOK
  <2>3. FramesAgree'
    BY OtherFrames DEF Phases
  <2>4. TableAgrees'
    BY UnregisterTable DEF TableAgrees, TypeOK
  <2>5. LiveHold'
    BY DEF LiveHold, Live, TypeOK
  <2>6. RefsBalanced'
    BY <2>1, HolderRemoved
  <2> QED
    BY <2>2, <2>3, <2>4, <2>5, <2>6
<1>7. ASSUME NEW i \in Infos, UnloadCallsStop(i)
      PROVE  KInv'
  <2> USE <1>7 DEF UnloadCallsStop
  <2>1. calls' \in Seq(Frames) /\ FramesAgree'
    BY PushFrames DEF CallPhase
  <2>2. TypeOK'
    BY <2>1 DEF TypeOK, Phases
  <2>3. TableAgrees'
    BY DEF TableAgrees, TypeOK
  <2>4. LiveHold'
    BY DEF LiveHold, Live, TypeOK
  <2>5. RefsBalanced'
    BY HolderKept DEF Phases, Live
  <2> QED
    BY <2>1, <2>2, <2>3, <2>4, <2>5
<1>8. ASSUME NEW i \in Infos, StopReturns(i)
      PROVE  KInv'
  <2> USE <1>8 DEF StopReturns, CloseAndUnregister
  <2>1. calls' \in Seq(Frames) /\ FramesAgree' /\ phase[i] = "stopping"
    BY PopFrames DEF CallPhase, Phases
  <2>2. i \in Live
    BY <2>1 DEF Live
  <2>3. TypeOK'
    <3>1. dlRefs' \in [Paths -> Int]
      BY <2>2 DEF TypeOK, DlClose, LiveHold
    <3>2. phase' \in [Infos -> Phases]
      BY DEF TypeOK, Phases
    <3> QED
      BY <2>1, <3>1, <3>2, UnregisterTable DEF TypeOK
  <2>4. TableAgrees'
    BY UnregisterTable DEF TableAgrees, TypeOK
  <2>5. LiveHold'
    BY DEF LiveHold, Live, TypeOK
  <2>6. RefsBalanced'
    BY <2>2, HolderRemoved
  <2> QED
    BY <2>1, <2>3, <2>4, <2>5, <2>6
<1>9. CASE UNCHANGED vars
  BY <1>9 DEF vars, TypeOK, FramesAgree, TableAgrees, LiveHold, Live,
              RefsBalanced, HoldersOf
<1> QED
  BY <1>1, <1>2, <1>3, <1>4, <1>5, <1>6, <1>7, <1>8, <1>9 DEF Next

THEOREM KextInvariant == Spec => []KInv
<1> QED
  BY KInvInit, KInvStep, PTL DEF Spec

-----------------------------------------------------------------------------
(* What follows from it.                                                   *)

(* The loader's variables keep their types: in particular the count stays  *)
(* within the table and no slot outside it is written.                     *)
THEOREM KextTypeCorrect == Spec => []TypeOK
<1>1. KInv => TypeOK
  BY DEF KInv
<1> QED
  BY <1>1, KextInvariant, PTL

(* dlopen and dlclose balance for every library.                           *)
THEOREM KextRefsBalanced == Spec => []RefsBalanced
<1>1. KInv => RefsBalanced
  BY DEF KInv
<1> QED
  BY <1>1, KextInvariant, PTL

(* The table lists live kexts, each once.                                  *)
THEOREM KextTrackedAreLive == Spec => []TrackedAreLive
<1>1. KInv => TrackedAreLive
  BY SlotsAssumption DEF KInv, TableAgrees, TrackedAreLive, LPnuKextList, Entries, TypeOK
<1> QED
  BY <1>1, KextInvariant, PTL

(* A library that some live buffer holds is mapped.                        *)
LEMMA HeldIsMapped ==
  ASSUME KInv, NEW i \in Live
  PROVE  module[i] \in Paths /\ dlRefs[module[i]] > 0
<1> DEFINE p == module[i]
<1>1. p \in Paths
  BY DEF KInv, LiveHold
<1>2. dlRefs[p] = Cardinality(HoldersOf(p))
  BY <1>1 DEF KInv, RefsBalanced
<1>3. HoldersOf(p) # {}
  BY DEF HoldersOf
<1>4. Cardinality(HoldersOf(p)) # 0
  BY <1>3, HoldersFinite, FS_EmptySet
<1> QED
  BY <1>1, <1>2, <1>4, HoldersFinite

(* No nested call of the loader unmaps code that a callback is executing.  *)
THEOREM KextCallbackCodeMapped == Spec => []CallbackCodeMapped
<1>1. KInv => CallbackCodeMapped
  <2> SUFFICES ASSUME KInv, NEW c \in 1 .. Len(calls)
               PROVE  /\ module[calls[c].info] \in Paths
                      /\ dlRefs[module[calls[c].info]] > 0
    BY DEF CallbackCodeMapped
  <2>1. calls[c] \in Frames
    BY DEF KInv, TypeOK
  <2>2. calls[c].info \in Live
    BY <2>1 DEF Frames, KInv, FramesAgree, Live
  <2> QED
    BY <2>2, HeldIsMapped
<1> QED
  BY <1>1, KextInvariant, PTL

(* A lookup by name answers with a mapped kext of that name, and answers   *)
(* NULL only if the table lists none.                                      *)
THEOREM KextLookupMapped == Spec => []LookupMapped
<1>1. KInv => LookupMapped
  <2> SUFFICES ASSUME KInv, NEW n \in Names
               PROVE  LET i == LPnuKextGetInfo(n) IN
                        IF i = NULL
                        THEN \A k \in 0 .. count - 1 : NameOf[module[table[k]]] # n
                        ELSE /\ i \in Infos
                             /\ module[i] \in Paths
                             /\ NameOf[module[i]] = n
                             /\ dlRefs[module[i]] > 0
    BY DEF LookupMapped
  <2>1. CASE Named(n) = {}
    <3>1. \A k \in 0 .. count - 1 : table[k] # NULL
      BY InfosAssumption DEF KInv, TableAgrees, Entries
    <3> QED
      BY <2>1, <3>1 DEF LPnuKextGetInfo, Named
  <2>2. CASE Named(n) # {}
    <3> DEFINE f == CHOOSE k \in Named(n) : \A j \in Named(n) : k <= j
    <3>1. Named(n) \in SUBSET Nat
      BY SlotsAssumption DEF Named, KInv, TypeOK
    <3>2. f \in Named(n)
      BY <2>2, <3>1, LeastNatural
    <3>3. LPnuKextGetInfo(n) = table[f]
      BY <2>2 DEF LPnuKextGetInfo
    <3> HIDE DEF f
    <3>4. table[f] \in Entries(table, count) /\ NameOf[module[table[f]]] = n
      BY <3>2 DEF Named, Entries
    <3>5. table[f] \in Live
      BY <3>4 DEF KInv, TableAgrees, Live
    <3>6. table[f] # NULL
      BY <3>5, InfosAssumption DEF Live
    <3> QED
      BY <3>3, <3>4, <3>5, <3>6, HeldIsMapped DEF Live
  <2> QED
    BY <2>1, <2>2
<1> QED
  BY <1>1, KextInvariant, PTL

-----------------------------------------------------------------------------
(* Order and refinement: what single steps do, from the invariant.         *)

LEMMA RegisterKeepsOrder ==
  ASSUME TypeOK, NEW i \in Infos, Register(i), NEW x, NEW y,
         Before(table, count, x, y)
  PROVE  Before(table', count', x, y)
<1>1. CASE count < MaxKexts
  BY <1>1, TypedTable, PutKeepsOrder DEF Register
<1>2. CASE ~(count < MaxKexts)
  BY <1>2 DEF Register
<1> QED
  BY <1>1, <1>2

LEMMA UnregisterKeepsOrder ==
  ASSUME KInv, NEW i \in Infos, Unregister(i), NEW x, NEW y,
         x \in Entries(table', count'), y \in Entries(table', count'),
         Before(table, count, x, y)
  PROVE  Before(table', count', x, y)
<1>1. x # i /\ y # i
  BY UnregisterTable DEF KInv, TableAgrees
<1> QED
  BY <1>1, TypedTable, RemovedKeepsOrder DEF Unregister, KInv

(* The order of loading is kept by every removal.                          *)
THEOREM KextLoadOrderKept == Spec => LoadOrderKept
<1>1. KInv /\ [Next]_vars => [KeepsOrder]_vars
  <2> SUFFICES ASSUME KInv, Next,
                      NEW x, NEW y, x \in Entries(table', count'),
                      y \in Entries(table', count'), Before(table, count, x, y)
               PROVE  Before(table', count', x, y)
    BY DEF KeepsOrder
  <2> TypeOK
    BY DEF KInv
  <2>1. CASE UNCHANGED <<table, count>>
    BY <2>1
  <2>2. ASSUME NEW i \in Infos, Register(i)
        PROVE  Before(table', count', x, y)
    BY <2>2, RegisterKeepsOrder
  <2>3. ASSUME NEW i \in Infos, Unregister(i)
        PROVE  Before(table', count', x, y)
    BY <2>3, UnregisterKeepsOrder
  <2> QED
    BY <2>1, <2>2, <2>3
       DEF Next, LPnuKextSetRuntime, LoadWithoutStart, LoadCallsStart,
           StartSucceeds, StartFails, UnloadWithoutStop, UnloadCallsStop,
           StopReturns, CloseAndUnregister
<1> QED
  BY <1>1, KextInvariant, PTL DEF Spec, LoadOrderKept

LEMMA TrackedCardinality ==
  ASSUME KInv
  PROVE  Cardinality(Entries(table, count)) = count
BY TypedTable, EntriesCardinality DEF KInv, TableAgrees

Opening == {i \in Infos : phase[i] = "starting"}
Settled == {i \in Infos : phase[i] \in {"running", "stopping"}}

(* What a step of the loader means for the registry, by the kext it        *)
(* settles or gives up.                                                    *)
LEMMA SettleIsAdmit ==
  ASSUME KInv, NEW i \in Infos, Register(i), i \notin Settled,
         phase' = [phase EXCEPT ![i] = "running"], runtime' = runtime
  PROVE  Registry!Admit(i) /\ Opening' = Opening \ {i}
<1> DEFINE E == Entries(table, count)
<1>1. TypeOK /\ E \subseteq Settled
  BY DEF KInv, TableAgrees, Settled
<1>2. Settled' = Settled \union {i} /\ Opening' = Opening \ {i}
  BY <1>1 DEF Settled, Opening, TypeOK
<1>3. Entries(table', count') = IF count < MaxKexts THEN E \union {i} ELSE E
  BY <1>1, RegisterTable
<1>4. Registry!Cardinality(E) = count
  <2>1. Registry!Cardinality(E) = Cardinality(E)
    BY DEF Registry!Cardinality, Cardinality
  <2> QED
    BY <2>1, TrackedCardinality
<1>5. (Settled \ E)' = IF count < MaxKexts THEN Settled \ E
                                           ELSE (Settled \ E) \union {i}
  BY <1>1, <1>2, <1>3
<1> QED
  BY <1>2, <1>3, <1>4, <1>5 DEF Registry!Admit, Settled, Opening

LEMMA UnloadIsGiveUp ==
  ASSUME KInv, NEW i \in Settled, Unregister(i),
         phase' = [phase EXCEPT ![i] = "idle"], runtime' = runtime
  PROVE  Registry!GiveUp(i)
<1> DEFINE E == Entries(table, count)
<1>1. TypeOK /\ E \subseteq Settled /\ NoDuplicates(table, count) /\ i \in Infos
  BY DEF KInv, TableAgrees, Settled
<1>2. Settled' = Settled \ {i} /\ Opening' = Opening \ {i}
  BY <1>1 DEF Settled, Opening, TypeOK
<1>3. Entries(table', count') = E \ {i}
  BY <1>1, UnregisterTable
<1>4. (Settled \ E)' = (Settled \ E) \ {i}
  BY <1>1, <1>2, <1>3
<1>5. i \in E \union (Settled \ E)
  OBVIOUS
<1> QED
  BY <1>2, <1>3, <1>4, <1>5 DEF Registry!GiveUp, Registry!Live, Settled, Opening

LEMMA RegistryInit == Init => Registry!RInit
<1> SUFFICES ASSUME Init
             PROVE  Registry!RInit
  OBVIOUS
<1>1. Entries(table, count) = {} /\ Opening = {} /\ Settled = {}
  BY DEF Init, Entries, Opening, Settled
<1>2. (runtime = 1) = FALSE
  BY DEF Init
<1> QED
  BY <1>1, <1>2 DEF Registry!RInit, Opening, Settled

LEMMA RegistryStep == KInv /\ [Next]_vars => [Registry!RNext]_(Registry!rvars)
<1> SUFFICES ASSUME KInv, [Next]_vars
             PROVE  Registry!RNext \/ UNCHANGED Registry!rvars
  OBVIOUS
<1> DEFINE E == Entries(table, count)
<1>0. TypeOK /\ E \subseteq Settled /\ Settled \subseteq Infos
  BY DEF KInv, TableAgrees, Settled
<1>1. ASSUME NEW e \in {0, 1}, LPnuKextSetRuntime(e)
      PROVE  Registry!Switch
  BY <1>1 DEF LPnuKextSetRuntime, Registry!Switch
<1>2. ASSUME NEW p \in Paths, NEW i \in Infos, LoadWithoutStart(p, i)
      PROVE  Registry!OpenSettled(i)
  <2> USE <1>2 DEF LoadWithoutStart, OpenInto
  <2>1. i \notin Settled /\ i \notin Opening /\ i \notin E
    BY <1>0 DEF Settled, Opening
  <2>2. Registry!Admit(i) /\ Opening' = Opening \ {i}
    BY <2>1, SettleIsAdmit
  <2> QED
    BY <2>1, <2>2
       DEF Registry!OpenSettled, Registry!Live, Settled, Opening
<1>3. ASSUME NEW p \in Paths, NEW i \in Infos, LoadCallsStart(p, i)
      PROVE  Registry!Open(i)
  <2> USE <1>3 DEF LoadCallsStart, OpenInto
  <2>1. i \notin Settled /\ i \notin Opening /\ i \notin E
    BY <1>0 DEF Settled, Opening
  <2>2. Settled' = Settled /\ Opening' = Opening \union {i}
    BY <1>0 DEF Settled, Opening, TypeOK
  <2> QED
    BY <2>1, <2>2 DEF Registry!Open, Registry!Live, Settled, Opening
<1>4. ASSUME NEW i \in Infos, StartSucceeds(i)
      PROVE  Registry!Settle(i)
  <2> USE <1>4 DEF StartSucceeds
  <2>1. phase[i] = "starting"
    BY PopFrames DEF CallPhase, Phases, KInv
  <2>2. i \notin Settled /\ i \in Opening
    BY <2>1 DEF Settled, Opening
  <2>3. Registry!Admit(i) /\ Opening' = Opening \ {i}
    BY <2>2, SettleIsAdmit
  <2> QED
    BY <2>2, <2>3 DEF Registry!Settle, Opening
<1>5. ASSUME NEW i \in Infos, StartFails(i)
      PROVE  Registry!GiveUp(i)
  <2> USE <1>5 DEF StartFails
  <2>1. phase[i] = "starting"
    BY PopFrames DEF CallPhase, Phases, KInv
  <2>2. i \notin Settled /\ i \in Opening /\ i \notin E
    BY <1>0, <2>1 DEF Settled, Opening
  <2>3. Settled' = Settled /\ Opening' = Opening \ {i}
    BY <1>0, <2>1 DEF Settled, Opening, TypeOK
  <2> QED
    BY <2>2, <2>3 DEF Registry!GiveUp, Registry!Live, Settled, Opening
<1>6. ASSUME NEW i \in Infos, UnloadWithoutStop(i)
      PROVE  Registry!GiveUp(i)
  <2> USE <1>6 DEF UnloadWithoutStop, CloseAndUnregister
  <2> QED
    BY UnloadIsGiveUp DEF Settled
<1>7. ASSUME NEW i \in Infos, UnloadCallsStop(i)
      PROVE  UNCHANGED Registry!rvars
  <2> USE <1>7 DEF UnloadCallsStop
  <2>1. Settled' = Settled /\ Opening' = Opening
    BY <1>0 DEF Settled, Opening, TypeOK
  <2> QED
    BY <2>1 DEF Registry!rvars, Settled, Opening
<1>8. ASSUME NEW i \in Infos, StopReturns(i)
      PROVE  Registry!GiveUp(i)
  <2> USE <1>8 DEF StopReturns, CloseAndUnregister
  <2>1. phase[i] = "stopping"
    BY PopFrames DEF CallPhase, Phases, KInv
  <2> QED
    BY <2>1, UnloadIsGiveUp DEF Settled
<1>9. CASE UNCHANGED vars
  BY <1>9 DEF vars, Registry!rvars
<1> QED
  BY <1>1, <1>2, <1>3, <1>4, <1>5, <1>6, <1>7, <1>8, <1>9
     DEF Next, Registry!RNext

(* The loader implements the registry: every step of the shifting table    *)
(* and the stack of callbacks is a step of the registry of sets, or none.  *)
THEOREM KextImplementsRegistry == Spec => ImplementsRegistry
<1> QED
  BY KextInvariant, RegistryInit, RegistryStep, PTL
     DEF Spec, ImplementsRegistry, Registry!RSpec
=============================================================================
