------------------------ MODULE LoaderProcessProofs -------------------------
(***************************************************************************)
(* Theorems about the process with both loaders, for any sets of buffers,  *)
(* images and libraries, any size of the tables and any nesting.           *)
(*                                                                         *)
(* The invariant adds three things to what is to be shown.  The stack of   *)
(* callbacks agrees with the phases, except for the frame of an unload     *)
(* through a copy.  While that frame is there every library is in balance. *)
(* And the table is described buffer by buffer: all of them are listed     *)
(* properly, except for the one a kext was loaded over, which is listed at *)
(* most twice, and at most once unless its load has succeeded.             *)
(***************************************************************************)
EXTENDS LoaderProcess, PtrTableProofs

CopyFrames == [op : {"copy stop"}, info : Infos, path : Paths]
IsCopy(c) == calls[c] \in CopyFrames

LoaderTypeOK ==
  /\ runtime \in {0, 1}
  /\ table \in [Kext!Slots -> Infos \union {NULL}]
  /\ count \in 0 .. MaxKexts
  /\ module \in [Infos -> Paths \union {NULL}]
  /\ stop \in [Infos -> BOOLEAN]
  /\ dlRefs \in [Paths -> Nat]
  /\ calls \in Seq(Kext!Frames \union CopyFrames)
  /\ phase \in [Infos -> Kext!Phases]
  /\ handle \in [Images -> Paths \union {NULL}]
  /\ misuse \in {"none", "stale", "over", "copy"}

(* Every frame but a copy's belongs to one buffer, which waits for it.     *)
CallPhase(op) == IF op = "start" THEN "starting" ELSE "stopping"
StackAgrees ==
  /\ \A c \in 1 .. Len(calls) :
       ~IsCopy(c) => phase[calls[c].info] = CallPhase(calls[c].op)
  /\ \A c, d \in 1 .. Len(calls) :
       ~IsCopy(c) /\ ~IsCopy(d) /\ calls[c].info = calls[d].info => c = d

Balanced == \A p \in Paths : Drift(p) = 0
OneCopy ==
  /\ \A c \in 1 .. Len(calls) : IsCopy(c) => misuse = "copy" /\ Balanced
  /\ \A c, d \in 1 .. Len(calls) : IsCopy(c) /\ IsCopy(d) => c = d

LiveHold == \A i \in Kext!Live : module[i] \in Paths

(* How a buffer is listed: properly, or after a load over it.              *)
Settled == {i \in Infos : phase[i] \in {"running", "stopping"}}
ListedProperly(x) ==
  /\ AtMostOnce(table, count, x)
  /\ x \in Entries(table, count) => x \in Settled
ListedOver(x) ==
  /\ AtMostTwice(table, count, x)
  /\ x \notin Settled => AtMostOnce(table, count, x)

TableAgrees ==
  /\ Entries(table, count) \subseteq Infos
  /\ misuse # "over" => \A x \in Infos : ListedProperly(x)
  /\ misuse = "over" =>
       \E v \in Infos : ListedOver(v) /\ \A x \in Infos \ {v} : ListedProperly(x)
  /\ misuse # "over" /\ Cardinality(Infos) <= MaxKexts
       => Settled \subseteq Entries(table, count)

LPInv == /\ LoaderTypeOK /\ StackAgrees /\ OneCopy /\ LiveHold
         /\ SharedRefsBalanced /\ TableAgrees

-----------------------------------------------------------------------------
(* References: what a step does to the balance of every library.           *)

LEMMA HoldersFinite ==
  ASSUME NEW p
  PROVE  /\ IsFiniteSet(Kext!HoldersOf(p)) /\ Cardinality(Kext!HoldersOf(p)) \in Nat
         /\ IsFiniteSet(Dyld!ImagesOf(p)) /\ Cardinality(Dyld!ImagesOf(p)) \in Nat
<1>1. Kext!HoldersOf(p) \in SUBSET Infos /\ Dyld!ImagesOf(p) \in SUBSET Images
  BY DEF Kext!HoldersOf, Kext!Live, Dyld!ImagesOf
<1> QED
  BY <1>1, HoldersAssumption, FS_Subset, FS_CardinalityType

(* Removing a member of a finite set of holders leaves one less.           *)
LEMMA OneLess ==
  ASSUME NEW S, IsFiniteSet(S), NEW x \in S
  PROVE  /\ Cardinality(S \ {x}) = Cardinality(S) - 1
         /\ Cardinality(S) \in Nat \ {0}
<1>1. IsFiniteSet(S \ {x}) /\ Cardinality(S \ {x}) = Cardinality(S) - 1
  BY FS_RemoveElement
<1>2. Cardinality(S) \in Nat /\ Cardinality(S \ {x}) \in Nat
  BY <1>1, FS_CardinalityType
<1> QED
  BY <1>1, <1>2

LEMMA Opened ==
  ASSUME LoaderTypeOK, NEW p \in Paths, Kext!DlOpen(p)
  PROVE  /\ dlRefs' \in [Paths -> Nat]
         /\ \A q \in Paths : dlRefs'[q] = IF q = p THEN dlRefs[q] + 1 ELSE dlRefs[q]
BY DEF LoaderTypeOK, Kext!DlOpen

LEMMA Closed ==
  ASSUME LoaderTypeOK, NEW p \in Paths, Kext!DlClose(p)
  PROVE  /\ dlRefs' \in [Paths -> Nat]
         /\ \A q \in Paths : dlRefs'[q] = IF q = p /\ dlRefs[q] > 0 THEN dlRefs[q] - 1
                                                                  ELSE dlRefs[q]
BY DEF LoaderTypeOK, Kext!DlClose

(* Loading into a buffer that is not in use.                               *)
LEMMA HolderAdded ==
  ASSUME LoaderTypeOK, NEW p \in Paths, NEW i \in Infos, phase[i] = "idle",
         NEW s \in Kext!Phases \ {"idle"}, Kext!DlOpen(p),
         phase' = [phase EXCEPT ![i] = s], module' = [module EXCEPT ![i] = p],
         UNCHANGED handle
  PROVE  \A q \in Paths : Drift(q)' = Drift(q)
<1> SUFFICES ASSUME NEW q \in Paths PROVE Drift(q)' = Drift(q)
  OBVIOUS
<1>1. Kext!HoldersOf(q)'
        = IF q = p THEN Kext!HoldersOf(q) \union {i} ELSE Kext!HoldersOf(q)
  BY DEF Kext!HoldersOf, Kext!Live, LoaderTypeOK, Kext!Phases
<1>2. i \notin Kext!HoldersOf(q)
  BY DEF Kext!HoldersOf, Kext!Live
<1>3. Cardinality(Kext!HoldersOf(q) \union {i}) = Cardinality(Kext!HoldersOf(q)) + 1
  BY <1>2, HoldersFinite, FS_AddElement
<1>4. Dyld!ImagesOf(q)' = Dyld!ImagesOf(q)
  BY DEF Dyld!ImagesOf
<1>5. dlRefs[q] \in Nat
  BY DEF LoaderTypeOK
<1> QED
  BY <1>1, <1>3, <1>4, <1>5, Opened, HoldersFinite DEF Drift

(* A close by a buffer that holds the library.  It finds no reference only *)
(* if a careless call took one away, and then the balance is restored.     *)
LEMMA HolderRemoved ==
  ASSUME LoaderTypeOK, LiveHold, SharedRefsBalanced, NEW i \in Kext!Live,
         Kext!DlClose(module[i]), phase' = [phase EXCEPT ![i] = "idle"],
         UNCHANGED <<module, handle>>
  PROVE  /\ dlRefs' \in [Paths -> Nat]
         /\ \A q \in Paths : Drift(q)' \in {Drift(q), 0}
<1>0. module[i] \in Paths /\ i \in Infos
  BY DEF LiveHold, Kext!Live
<1> SUFFICES ASSUME NEW q \in Paths PROVE Drift(q)' \in {Drift(q), 0}
  BY <1>0, Closed
<1>1. Kext!HoldersOf(q)'
        = IF q = module[i] THEN Kext!HoldersOf(q) \ {i} ELSE Kext!HoldersOf(q)
  BY <1>0 DEF Kext!HoldersOf, Kext!Live, LoaderTypeOK
<1>2. Dyld!ImagesOf(q)' = Dyld!ImagesOf(q)
  BY DEF Dyld!ImagesOf
<1>3. dlRefs[q] \in Nat /\ Drift(q) \in {-1, 0, 1}
  BY DEF LoaderTypeOK, SharedRefsBalanced
<1>4. CASE q = module[i]
  <2>1. i \in Kext!HoldersOf(q)
    BY <1>4 DEF Kext!HoldersOf
  <2>2. /\ Cardinality(Kext!HoldersOf(q) \ {i}) = Cardinality(Kext!HoldersOf(q)) - 1
        /\ Cardinality(Kext!HoldersOf(q)) \in Nat \ {0}
    BY <2>1, HoldersFinite, OneLess
  <2> QED
    BY <1>0, <1>1, <1>2, <1>3, <1>4, <2>2, Closed, HoldersFinite DEF Drift
<1>5. CASE q # module[i]
  BY <1>0, <1>1, <1>2, <1>3, <1>5, Closed DEF Drift
<1> QED
  BY <1>4, <1>5

LEMMA HolderKept ==
  ASSUME LoaderTypeOK, NEW i \in Kext!Live, NEW s \in Kext!Phases \ {"idle"},
         phase' = [phase EXCEPT ![i] = s], UNCHANGED <<module, dlRefs, handle>>
  PROVE  \A q \in Paths : Drift(q)' = Drift(q)
<1>1. \A q \in Paths : /\ Kext!HoldersOf(q)' = Kext!HoldersOf(q)
                       /\ Dyld!ImagesOf(q)' = Dyld!ImagesOf(q)
  BY DEF Kext!HoldersOf, Kext!Live, Dyld!ImagesOf, LoaderTypeOK, Kext!Phases
<1> QED
  BY <1>1 DEF Drift

LEMMA ImageAdded ==
  ASSUME LoaderTypeOK, NEW p \in Paths, NEW m \in Images, Dyld!LPNUdyld_load(p, m),
         UNCHANGED <<phase, module>>
  PROVE  /\ dlRefs' \in [Paths -> Nat]
         /\ \A q \in Paths : Drift(q)' = Drift(q)
<1> USE DEF Dyld!LPNUdyld_load, LoaderTypeOK
<1> SUFFICES ASSUME NEW q \in Paths PROVE Drift(q)' = Drift(q)
  OBVIOUS
<1>1. Dyld!ImagesOf(q)'
        = IF q = p THEN Dyld!ImagesOf(q) \union {m} ELSE Dyld!ImagesOf(q)
  BY HoldersAssumption DEF Dyld!ImagesOf
<1>2. m \notin Dyld!ImagesOf(q)
  BY HoldersAssumption DEF Dyld!ImagesOf
<1>3. Cardinality(Dyld!ImagesOf(q) \union {m}) = Cardinality(Dyld!ImagesOf(q)) + 1
  BY <1>2, HoldersFinite, FS_AddElement
<1>4. Kext!HoldersOf(q)' = Kext!HoldersOf(q)
  BY DEF Kext!HoldersOf, Kext!Live
<1>5. dlRefs[q] \in Nat /\ dlRefs'[q] = IF q = p THEN dlRefs[q] + 1 ELSE dlRefs[q]
  OBVIOUS
<1> QED
  BY <1>1, <1>3, <1>4, <1>5, HoldersFinite DEF Drift

LEMMA ImageRemoved ==
  ASSUME LoaderTypeOK, SharedRefsBalanced, NEW m \in Images, Dyld!LPNUdyld_unload(m),
         UNCHANGED <<phase, module>>
  PROVE  /\ dlRefs' \in [Paths -> Nat]
         /\ \A q \in Paths : Drift(q)' \in {Drift(q), 0}
<1>0. handle[m] \in Paths
  BY DEF LoaderTypeOK, Dyld!LPNUdyld_unload, Dyld!Allocated
<1>1. /\ dlRefs' \in [Paths -> Nat]
      /\ \A q \in Paths : dlRefs'[q] = IF q = handle[m] /\ dlRefs[q] > 0
                                       THEN dlRefs[q] - 1 ELSE dlRefs[q]
  BY <1>0 DEF LoaderTypeOK, Dyld!LPNUdyld_unload
<1> SUFFICES ASSUME NEW q \in Paths PROVE Drift(q)' \in {Drift(q), 0}
  BY <1>1
<1>2. Dyld!ImagesOf(q)'
        = IF q = handle[m] THEN Dyld!ImagesOf(q) \ {m} ELSE Dyld!ImagesOf(q)
  BY HoldersAssumption DEF Dyld!ImagesOf, Dyld!LPNUdyld_unload, LoaderTypeOK
<1>3. Kext!HoldersOf(q)' = Kext!HoldersOf(q)
  BY DEF Kext!HoldersOf, Kext!Live
<1>4. dlRefs[q] \in Nat /\ Drift(q) \in {-1, 0, 1}
  BY DEF LoaderTypeOK, SharedRefsBalanced
<1>5. CASE q = handle[m]
  <2>1. m \in Dyld!ImagesOf(q)
    BY <1>5 DEF Dyld!ImagesOf
  <2>2. /\ Cardinality(Dyld!ImagesOf(q) \ {m}) = Cardinality(Dyld!ImagesOf(q)) - 1
        /\ Cardinality(Dyld!ImagesOf(q)) \in Nat \ {0}
    BY <2>1, HoldersFinite, OneLess
  <2> QED
    BY <1>1, <1>2, <1>3, <1>4, <1>5, <2>2, HoldersFinite DEF Drift
<1>6. CASE q # handle[m]
  BY <1>1, <1>2, <1>3, <1>4, <1>6 DEF Drift
<1> QED
  BY <1>5, <1>6

LEMMA InBalance ==
  ASSUME LoaderTypeOK, Balanced, NEW q \in Paths
  PROVE  /\ dlRefs[q] \in Nat
         /\ dlRefs[q] = Cardinality(Kext!HoldersOf(q)) + Cardinality(Dyld!ImagesOf(q))
<1>1. dlRefs[q] \in Nat /\ Drift(q) = 0
  BY DEF LoaderTypeOK, Balanced
<1>2. /\ Cardinality(Kext!HoldersOf(q)) \in Nat
      /\ Cardinality(Dyld!ImagesOf(q)) \in Nat
  BY HoldersFinite
<1> QED
  BY <1>1, <1>2 DEF Drift

(* A close by nobody who holds the library, from balance.                  *)
LEMMA ClosedByNobody ==
  ASSUME LoaderTypeOK, Balanced, NEW p \in Paths, Kext!DlClose(p),
         UNCHANGED <<phase, module, handle>>
  PROVE  \A q \in Paths : Drift(q)' \in {-1, 0} /\ (q # p => Drift(q)' = 0)
<1> SUFFICES ASSUME NEW q \in Paths
             PROVE  Drift(q)' \in {-1, 0} /\ (q # p => Drift(q)' = 0)
  OBVIOUS
<1>1. /\ Kext!HoldersOf(q)' = Kext!HoldersOf(q)
      /\ Dyld!ImagesOf(q)' = Dyld!ImagesOf(q)
  BY DEF Kext!HoldersOf, Kext!Live, Dyld!ImagesOf
<1>2. /\ Cardinality(Kext!HoldersOf(q)) \in Nat
      /\ Cardinality(Dyld!ImagesOf(q)) \in Nat
  BY HoldersFinite
<1> QED
  BY <1>1, <1>2, InBalance, Closed DEF Drift

(* A load over a running kext, from balance: the library it held keeps a   *)
(* reference that nobody holds.                                            *)
LEMMA LoadedOver ==
  ASSUME LoaderTypeOK, LiveHold, Balanced, NEW p \in Paths, NEW i \in Infos,
         phase[i] = "running", NEW s \in Kext!Phases \ {"idle"}, Kext!DlOpen(p),
         phase' = [phase EXCEPT ![i] = s], module' = [module EXCEPT ![i] = p],
         UNCHANGED handle
  PROVE  \A q \in Paths : Drift(q)' = IF q = module[i] THEN 1 ELSE 0
<1> SUFFICES ASSUME NEW q \in Paths
             PROVE  Drift(q)' = IF q = module[i] THEN 1 ELSE 0
  OBVIOUS
<1>1. Dyld!ImagesOf(q)' = Dyld!ImagesOf(q)
  BY DEF Dyld!ImagesOf
<1>2. /\ dlRefs[q] \in Nat
      /\ dlRefs[q] = Cardinality(Kext!HoldersOf(q)) + Cardinality(Dyld!ImagesOf(q))
  BY InBalance
<1>3. CASE q = p /\ p = module[i]
  <2>1. Kext!HoldersOf(q)' = Kext!HoldersOf(q)
    BY <1>3 DEF Kext!HoldersOf, Kext!Live, LoaderTypeOK, Kext!Phases
  <2> QED
    BY <1>1, <1>2, <1>3, <2>1, Opened, HoldersFinite DEF Drift
<1>4. CASE q = p /\ p # module[i]
  <2>1. /\ Kext!HoldersOf(q)' = Kext!HoldersOf(q) \union {i}
        /\ i \notin Kext!HoldersOf(q)
    BY <1>4 DEF Kext!HoldersOf, Kext!Live, LoaderTypeOK, Kext!Phases
  <2>2. Cardinality(Kext!HoldersOf(q)') = Cardinality(Kext!HoldersOf(q)) + 1
    BY <2>1, HoldersFinite, FS_AddElement
  <2> QED
    BY <1>1, <1>2, <1>4, <2>2, Opened, HoldersFinite DEF Drift
<1>5. CASE q # p /\ q = module[i]
  <2>1. /\ Kext!HoldersOf(q)' = Kext!HoldersOf(q) \ {i}
        /\ i \in Kext!HoldersOf(q)
    BY <1>5 DEF Kext!HoldersOf, Kext!Live, LoaderTypeOK, Kext!Phases
  <2>2. Cardinality(Kext!HoldersOf(q)') = Cardinality(Kext!HoldersOf(q)) - 1
    BY <2>1, HoldersFinite, OneLess
  <2> QED
    BY <1>1, <1>2, <1>5, <2>2, Opened, HoldersFinite DEF Drift
<1>6. CASE q # p /\ q # module[i]
  <2>1. Kext!HoldersOf(q)' = Kext!HoldersOf(q)
    BY <1>6 DEF Kext!HoldersOf, Kext!Live, LoaderTypeOK, Kext!Phases
  <2> QED
    BY <1>1, <1>2, <1>6, <2>1, Opened, HoldersFinite DEF Drift
<1> QED
  BY <1>3, <1>4, <1>5, <1>6

(* What these changes mean for the property.                               *)
LEMMA DriftStays ==
  ASSUME LoaderTypeOK, SharedRefsBalanced, misuse' = misuse,
         \A q \in Paths : Drift(q)' \in {Drift(q), 0}
  PROVE  SharedRefsBalanced' /\ (Balanced => Balanced')
BY DEF LoaderTypeOK, SharedRefsBalanced, Balanced

LEMMA DriftBegins ==
  ASSUME NEW p \in Paths,
         misuse' \in {"over", "stale", "copy"},
         \A q \in Paths : /\ Drift(q)' \in IF misuse' = "over" THEN {0, 1} ELSE {-1, 0}
                          /\ q # p => Drift(q)' = 0
  PROVE  SharedRefsBalanced'
BY DEF SharedRefsBalanced

-----------------------------------------------------------------------------
(* The stack of callbacks.                                                 *)

StackFrames == Kext!Frames \union CopyFrames

(* Copies stay where they are, or go. *)
CopiesKept ==
  \A c \in 1 .. Len(calls') : IsCopy(c)' => c \in 1 .. Len(calls) /\ IsCopy(c)

LEMMA TypedFrame ==
  ASSUME LoaderTypeOK, NEW c \in 1 .. Len(calls)
  PROVE  /\ calls[c] \in StackFrames
         /\ calls[c].info \in Infos
<1>1. calls[c] \in StackFrames
  BY DEF LoaderTypeOK, StackFrames
<1> QED
  BY <1>1 DEF StackFrames, Kext!Frames, CopyFrames, IsCopy

(* A frame of start or of stop is not a copy's.                            *)
LEMMA OwnFrame ==
  ASSUME NEW op \in {"start", "stop"}, NEW i \in Infos
  PROVE  /\ [op |-> op, info |-> i] \in Kext!Frames
         /\ [op |-> op, info |-> i] \notin CopyFrames
BY DEF Kext!Frames, CopyFrames

LEMMA PushStack ==
  ASSUME LoaderTypeOK, StackAgrees, NEW i \in Infos, NEW op \in {"start", "stop"},
         phase[i] \in {"idle", "running"}, Kext!Push(op, i),
         phase' = [phase EXCEPT ![i] = CallPhase(op)]
  PROVE  calls' \in Seq(StackFrames) /\ StackAgrees' /\ CopiesKept
<1> DEFINE f == [op |-> op, info |-> i]
           n == Len(calls)
<1>1. f \in StackFrames /\ f \notin CopyFrames /\ calls \in Seq(StackFrames) /\ n \in Nat
  BY OwnFrame DEF StackFrames, LoaderTypeOK
<1>2. /\ calls' \in Seq(StackFrames)
      /\ Len(calls') = n + 1
      /\ calls'[n + 1] = f /\ f.op = op /\ f.info = i
      /\ \A c \in 1 .. n : calls'[c] = calls[c]
  BY <1>1 DEF Kext!Push
<1>3. \A c \in 1 .. n : calls[c].info \in Infos /\ (~IsCopy(c) => calls[c].info # i)
  BY TypedFrame DEF StackAgrees, CallPhase
<1>4. phase'[i] = CallPhase(op) /\ \A j \in Infos : j # i => phase'[j] = phase[j]
  BY DEF LoaderTypeOK
<1>5. 1 .. Len(calls') = (1 .. n) \union {n + 1}
  BY <1>1, <1>2
<1> HIDE DEF f
<1>7. \A c \in 1 .. Len(calls') :
        ~IsCopy(c)' => phase'[calls'[c].info] = CallPhase(calls'[c].op)
  BY <1>2, <1>3, <1>4, <1>5 DEF StackAgrees, IsCopy
<1>8. \A c, d \in 1 .. Len(calls') :
        ~IsCopy(c)' /\ ~IsCopy(d)' /\ calls'[c].info = calls'[d].info => c = d
  BY <1>2, <1>3, <1>5 DEF StackAgrees, IsCopy
<1>9. CopiesKept
  BY <1>1, <1>2, <1>5 DEF CopiesKept, IsCopy
<1> QED
  BY <1>2, <1>7, <1>8, <1>9 DEF StackAgrees

(* A stack without its top. *)
LEMMA ShorterStack ==
  ASSUME LoaderTypeOK, calls # <<>>, Kext!Pop
  PROVE  /\ Len(calls) \in Nat \ {0}
         /\ calls' \in Seq(StackFrames)
         /\ Len(calls') = Len(calls) - 1
         /\ \A c \in 1 .. Len(calls) - 1 : calls'[c] = calls[c]
         /\ CopiesKept
<1>1. calls \in Seq(StackFrames) /\ Len(calls) \in Nat \ {0}
  BY DEF LoaderTypeOK, StackFrames
<1>2. /\ calls' \in Seq(StackFrames)
      /\ Len(calls') = Len(calls) - 1
      /\ \A c \in 1 .. Len(calls) - 1 : calls'[c] = calls[c]
  BY <1>1, WithoutLast DEF Kext!Pop
<1> QED
  BY <1>1, <1>2 DEF CopiesKept, IsCopy

LEMMA PopStack ==
  ASSUME LoaderTypeOK, StackAgrees, NEW i \in Infos, NEW op \in {"start", "stop"},
         Kext!Executing(op, i), Kext!Pop, NEW s \in Kext!Phases,
         phase' = [phase EXCEPT ![i] = s]
  PROVE  /\ calls' \in Seq(StackFrames)
         /\ StackAgrees'
         /\ CopiesKept
         /\ phase[i] = CallPhase(op)
<1> DEFINE n == Len(calls)
<1>1. calls # <<>> /\ calls[n].op = op /\ calls[n].info = i /\ ~IsCopy(n)
  BY OwnFrame DEF Kext!Executing, IsCopy
<1>2. n \in 1 .. n
  BY <1>1, ShorterStack
<1>3. phase[i] = CallPhase(op)
  BY <1>1, <1>2 DEF StackAgrees
<1>4. \A c \in 1 .. n - 1 : calls[c].info \in Infos /\ (~IsCopy(c) => calls[c].info # i)
  <2> SUFFICES ASSUME NEW c \in 1 .. n - 1
               PROVE  calls[c].info \in Infos /\ (~IsCopy(c) => calls[c].info # i)
    OBVIOUS
  <2>1. c \in 1 .. n /\ c # n
    BY <1>2
  <2> QED
    BY <1>1, <1>2, <2>1, TypedFrame DEF StackAgrees
<1>5. \A j \in Infos : j # i => phase'[j] = phase[j]
  BY DEF LoaderTypeOK
<1>6. /\ n \in Nat \ {0} /\ Len(calls') = n - 1
      /\ \A c \in 1 .. n - 1 : calls'[c] = calls[c]
  BY <1>1, ShorterStack
<1>7. StackAgrees'
  BY <1>4, <1>5, <1>6 DEF StackAgrees, IsCopy
<1> QED
  BY <1>1, <1>3, <1>7, ShorterStack

LEMMA OtherStack ==
  ASSUME LoaderTypeOK, StackAgrees, NEW i \in Infos, NEW s \in Kext!Phases,
         phase[i] \in {"idle", "running"}, calls' = calls,
         phase' = [phase EXCEPT ![i] = s]
  PROVE  StackAgrees' /\ CopiesKept
<1>1. \A c \in 1 .. Len(calls) : calls[c].info \in Infos /\ (~IsCopy(c) => calls[c].info # i)
  BY TypedFrame DEF StackAgrees, CallPhase
<1> QED
  BY <1>1 DEF StackAgrees, LoaderTypeOK, IsCopy, CopiesKept

LEMMA OneCopyStays ==
  ASSUME OneCopy, CopiesKept,
         misuse = "copy" /\ Balanced => misuse' = "copy" /\ Balanced'
  PROVE  OneCopy'
BY DEF OneCopy, CopiesKept

(* A buffer with a frame of its own is in use.                             *)
LEMMA FrameLive ==
  ASSUME LoaderTypeOK, StackAgrees, NEW c \in 1 .. Len(calls), ~IsCopy(c)
  PROVE  calls[c].info \in Kext!Live
BY TypedFrame DEF StackAgrees, CallPhase, Kext!Live

-----------------------------------------------------------------------------
(* The table.                                                              *)

LEMMA SameTables ==
  ASSUME NEW t, NEW n, NEW x
  PROVE  /\ Kext!Put(t, n, x) = Put(t, n, x)
         /\ Kext!Removed(t, n, x) = Removed(t, n, x)
         /\ Kext!CountAfter(t, n, x) = CountAfter(t, n, x)
BY DEF Kext!Put, Put, Kext!Removed, Removed, Kext!ShiftDown, ShiftDown,
       Kext!FirstAt, FirstAt, Kext!IndexesOf, IndexesOf, Kext!Entries, Entries,
       Kext!CountAfter, CountAfter

LEMMA TypedTable ==
  ASSUME LoaderTypeOK
  PROVE  /\ IsTable(table, count)
         /\ DOMAIN table = Kext!Slots
         /\ Kext!Slots \subseteq Int /\ 0 .. count - 1 \subseteq Kext!Slots
         /\ count \in Nat /\ MaxKexts \in Nat
         /\ count < MaxKexts => count \in Kext!Slots
BY LimitsAssumption DEF LoaderTypeOK, IsTable, Kext!Slots

LEMMA RegisterTable ==
  ASSUME LoaderTypeOK, NEW i \in Infos, Kext!Register(i)
  PROVE  /\ table' \in [Kext!Slots -> Infos \union {NULL}]
         /\ count' \in 0 .. MaxKexts
         /\ Entries(table', count') = IF count < MaxKexts THEN Entries(table, count) \union {i}
                                                          ELSE Entries(table, count)
         /\ \A x : x # i /\ AtMostOnce(table, count, x) => AtMostOnce(table', count', x)
         /\ \A x : x # i /\ AtMostTwice(table, count, x) => AtMostTwice(table', count', x)
         /\ i \notin Entries(table, count) => AtMostOnce(table', count', i)
         /\ AtMostOnce(table, count, i) => AtMostTwice(table', count', i)
<1>1. CASE count < MaxKexts
  <2>1. table' = Put(table, count, i) /\ count' = count + 1
    BY <1>1, SameTables DEF Kext!Register
  <2>2. count' \in 0 .. MaxKexts
    BY <1>1, <2>1, TypedTable
  <2>3. table' \in [Kext!Slots -> Infos \union {NULL}]
    BY <2>1 DEF LoaderTypeOK, Put
  <2>4. IsTable(table, count) /\ count \in DOMAIN table
    BY <1>1, TypedTable
  <2>5. Entries(table', count') = Entries(table, count) \union {i}
    BY <2>1, <2>4, PutAdds
  <2>6. /\ \A x : x # i /\ AtMostOnce(table, count, x) => AtMostOnce(table', count', x)
        /\ \A x : x # i /\ AtMostTwice(table, count, x) => AtMostTwice(table', count', x)
        /\ i \notin Entries(table, count) => AtMostOnce(table', count', i)
        /\ AtMostOnce(table, count, i) => AtMostTwice(table', count', i)
    BY <2>1, <2>4, PutOccurrences
  <2> QED
    BY <1>1, <2>2, <2>3, <2>5, <2>6
<1>2. CASE ~(count < MaxKexts)
  <2>1. table' = table /\ count' = count
    BY <1>2 DEF Kext!Register
  <2>2. i \notin Entries(table, count) => AtMostOnce(table, count, i)
    BY DEF AtMostOnce, Entries
  <2>3. AtMostOnce(table, count, i) => AtMostTwice(table, count, i)
    BY DEF AtMostOnce, AtMostTwice
  <2> QED
    BY <1>2, <2>1, <2>2, <2>3 DEF LoaderTypeOK
<1> QED
  BY <1>1, <1>2

LEMMA UnregisterTable ==
  ASSUME LoaderTypeOK, NEW i \in Infos, Kext!Unregister(i)
  PROVE  /\ table' \in [Kext!Slots -> Infos \union {NULL}]
         /\ count' \in 0 .. MaxKexts
         /\ Entries(table', count') \subseteq Entries(table, count)
         /\ \A x : AtMostOnce(table, count, x) => AtMostOnce(table', count', x)
         /\ \A x : AtMostTwice(table, count, x) => AtMostTwice(table', count', x)
         /\ AtMostTwice(table, count, i) => AtMostOnce(table', count', i)
         /\ AtMostOnce(table, count, i) => i \notin Entries(table', count')
         /\ NoDuplicates(table, count)
              => Entries(table', count') = Entries(table, count) \ {i}
<1>1. table' = Removed(table, count, i) /\ count' = CountAfter(table, count, i)
  BY SameTables DEF Kext!Unregister
<1>2. table' \in [Kext!Slots -> Infos \union {NULL}] /\ count' \in 0 .. count
  <2> DEFINE S == Infos \union {NULL}
  <2>1. table \in [Kext!Slots -> S]
    BY DEF LoaderTypeOK
  <2> HIDE DEF S
  <2>2. /\ Removed(table, count, i) \in [Kext!Slots -> S]
        /\ CountAfter(table, count, i) \in 0 .. count
    BY <2>1, TypedTable, RemovedType, Zenon
  <2> QED
    BY <1>1, <2>2 DEF S
<1>3. count' \in 0 .. MaxKexts
  BY <1>2, TypedTable DEF LoaderTypeOK
<1>4. IsTable(table, count)
  BY TypedTable
<1> QED
  BY <1>1, <1>2, <1>3, <1>4, RemovedOccurrences, RemovedEntries

(* Without a load over a kext, nobody is listed twice and the count is the *)
(* number of the listed.                                                   *)
LEMMA ProperTable ==
  ASSUME LoaderTypeOK, TableAgrees, misuse # "over"
  PROVE  /\ NoDuplicates(table, count)
         /\ Entries(table, count) \subseteq Settled
         /\ Cardinality(Entries(table, count)) = count
<1>1. /\ Entries(table, count) \subseteq Infos
      /\ \A x \in Infos : ListedProperly(x)
  BY DEF TableAgrees
<1>2. NoDuplicates(table, count)
  <2> SUFFICES ASSUME NEW j \in 0 .. count - 1, NEW k \in 0 .. count - 1, table[j] = table[k]
               PROVE  j = k
    BY DEF NoDuplicates
  <2>1. table[k] \in Infos
    BY <1>1 DEF Entries
  <2> QED
    BY <1>1, <2>1 DEF ListedProperly, AtMostOnce
<1>3. Entries(table, count) \subseteq Settled
  BY <1>1 DEF ListedProperly
<1> QED
  BY <1>2, <1>3, TypedTable, EntriesCardinality

(* A step keeps the table in order if it does so buffer by buffer.         *)
LEMMA TableStays ==
  ASSUME TableAgrees, misuse' = misuse,
         Entries(table', count') \subseteq Infos,
         \A x \in Infos : ListedProperly(x) => ListedProperly(x)',
         \A x \in Infos : ListedOver(x) => ListedOver(x)',
         misuse # "over" /\ Cardinality(Infos) <= MaxKexts
           => Settled' \subseteq Entries(table', count')
  PROVE  TableAgrees'
<1>1. misuse # "over" => \A x \in Infos : ListedProperly(x)'
  BY DEF TableAgrees
<1>2. misuse = "over" =>
        \E v \in Infos : ListedOver(v)' /\ \A x \in Infos \ {v} : ListedProperly(x)'
  BY DEF TableAgrees
<1> QED
  BY <1>1, <1>2 DEF TableAgrees

(* The end of a successful load.                                           *)
LEMMA SettleTable ==
  ASSUME LoaderTypeOK, TableAgrees, misuse' = misuse, NEW i \in Infos,
         phase[i] \in {"idle", "starting"}, Kext!Register(i),
         phase' = [phase EXCEPT ![i] = "running"]
  PROVE  TableAgrees'
<1>1. i \notin Settled /\ Settled' = Settled \union {i}
  BY DEF Settled, LoaderTypeOK
<1>2. \A x \in Infos : ListedProperly(x) => ListedProperly(x)'
  BY <1>1, RegisterTable DEF ListedProperly
<1>3. \A x \in Infos : ListedOver(x) => ListedOver(x)'
  BY <1>1, RegisterTable DEF ListedOver
<1>4. Entries(table', count') \subseteq Infos
  BY RegisterTable DEF TableAgrees
<1>5. ASSUME misuse # "over", Cardinality(Infos) <= MaxKexts
      PROVE  Settled' \subseteq Entries(table', count')
  <2> DEFINE E == Entries(table, count)
  <2>1. E \in SUBSET (Infos \ {i}) /\ Cardinality(E) = count
    BY <1>1, <1>5, ProperTable DEF TableAgrees
  <2>2. IsFiniteSet(Infos \ {i}) /\ Cardinality(Infos \ {i}) = Cardinality(Infos) - 1
    BY HoldersAssumption, FS_RemoveElement
  <2>3. Cardinality(E) <= Cardinality(Infos) - 1
    BY <2>1, <2>2, FS_Subset
  <2>4. Cardinality(Infos) \in Nat
    BY HoldersAssumption, FS_CardinalityType
  <2>5. count < MaxKexts
    BY <1>5, <2>1, <2>3, <2>4, TypedTable
  <2> QED
    BY <1>1, <1>5, <2>5, RegisterTable DEF TableAgrees
<1> QED
  BY <1>2, <1>3, <1>4, <1>5, TableStays

(* The end of an unload.                                                   *)
LEMMA GiveUpTable ==
  ASSUME LoaderTypeOK, TableAgrees, misuse' = misuse, NEW i \in Settled,
         Kext!Unregister(i), phase' = [phase EXCEPT ![i] = "idle"]
  PROVE  TableAgrees'
<1>1. i \in Infos /\ Settled' = Settled \ {i}
  BY DEF Settled, LoaderTypeOK
<1>2. \A x \in Infos : ListedProperly(x) => ListedProperly(x)'
  BY <1>1, UnregisterTable DEF ListedProperly
<1>3. \A x \in Infos : ListedOver(x) => ListedOver(x)'
  BY <1>1, UnregisterTable DEF ListedOver
<1>4. Entries(table', count') \subseteq Infos
  BY <1>1, UnregisterTable DEF TableAgrees
<1>5. misuse # "over" /\ Cardinality(Infos) <= MaxKexts
        => Settled' \subseteq Entries(table', count')
  BY <1>1, ProperTable, UnregisterTable DEF TableAgrees
<1> QED
  BY <1>2, <1>3, <1>4, <1>5, TableStays

(* A step that leaves the table alone and settles or gives up no kext.     *)
LEMMA OtherTable ==
  ASSUME TableAgrees, misuse' = misuse, UNCHANGED <<table, count>>, Settled' = Settled
  PROVE  TableAgrees'
BY TableStays DEF TableAgrees, ListedProperly, ListedOver

-----------------------------------------------------------------------------
(* The steps of the kext loader's own clients.                             *)

LEMMA LPInvStays ==
  ASSUME LPInv, misuse' = misuse, LoaderTypeOK', StackAgrees', CopiesKept, LiveHold',
         \A q \in Paths : Drift(q)' \in {Drift(q), 0}, TableAgrees'
  PROVE  LPInv'
<1>1. SharedRefsBalanced' /\ (Balanced => Balanced')
  BY DriftStays DEF LPInv
<1>2. OneCopy'
  BY <1>1, OneCopyStays DEF LPInv
<1> QED
  BY <1>1, <1>2 DEF LPInv

LEMMA SwitchStep ==
  ASSUME LPInv, NEW e \in {0, 1}, Kext!LPnuKextSetRuntime(e), UNCHANGED <<dyldOwn, misuse>>
  PROVE  LPInv'
<1> USE DEF LPInv, Kext!LPnuKextSetRuntime, dyldOwn
<1>1. LoaderTypeOK' /\ LiveHold' /\ StackAgrees' /\ CopiesKept
  BY DEF LoaderTypeOK, LiveHold, Kext!Live, StackAgrees, CopiesKept, IsCopy
<1>2. \A q \in Paths : Drift(q)' = Drift(q)
  BY DEF Drift, Kext!HoldersOf, Kext!Live, Dyld!ImagesOf
<1>3. TableAgrees'
  BY OtherTable DEF Settled
<1> QED
  BY <1>1, <1>2, <1>3, LPInvStays

LEMMA LoadWithoutStartStep ==
  ASSUME LPInv, NEW p \in Paths, NEW i \in Infos, Kext!LoadWithoutStart(p, i),
         UNCHANGED <<dyldOwn, misuse>>
  PROVE  LPInv'
<1> USE DEF LPInv, Kext!LoadWithoutStart, Kext!OpenInto, dyldOwn
<1>1. "running" \in Kext!Phases \ {"idle"}
  BY DEF Kext!Phases
<1>2. \A q \in Paths : Drift(q)' = Drift(q)
  BY <1>1, HolderAdded
<1>3. LoaderTypeOK'
  BY <1>1, Opened, RegisterTable DEF LoaderTypeOK
<1>4. StackAgrees' /\ CopiesKept
  BY <1>1, OtherStack
<1>5. LiveHold'
  BY DEF LiveHold, Kext!Live, LoaderTypeOK
<1>6. TableAgrees'
  BY SettleTable
<1> QED
  BY <1>2, <1>3, <1>4, <1>5, <1>6, LPInvStays

LEMMA LoadCallsStartStep ==
  ASSUME LPInv, NEW p \in Paths, NEW i \in Infos, Kext!LoadCallsStart(p, i),
         UNCHANGED <<dyldOwn, misuse>>
  PROVE  LPInv'
<1> USE DEF LPInv, Kext!LoadCallsStart, Kext!OpenInto, dyldOwn
<1>1. "starting" \in Kext!Phases \ {"idle"}
  BY DEF Kext!Phases
<1>2. \A q \in Paths : Drift(q)' = Drift(q)
  BY <1>1, HolderAdded
<1>3. calls' \in Seq(StackFrames) /\ StackAgrees' /\ CopiesKept
  BY PushStack DEF CallPhase
<1>4. LoaderTypeOK'
  BY <1>1, <1>3, Opened DEF LoaderTypeOK, StackFrames
<1>5. LiveHold'
  BY DEF LiveHold, Kext!Live, LoaderTypeOK
<1>6. Settled' = Settled
  BY DEF Settled, LoaderTypeOK
<1>7. TableAgrees'
  BY <1>6, OtherTable
<1> QED
  BY <1>2, <1>3, <1>4, <1>5, <1>7, LPInvStays

LEMMA StartSucceedsStep ==
  ASSUME LPInv, NEW i \in Infos, Kext!StartSucceeds(i), UNCHANGED <<dyldOwn, misuse>>
  PROVE  LPInv'
<1> USE DEF LPInv, Kext!StartSucceeds, dyldOwn
<1>1. "running" \in Kext!Phases \ {"idle"}
  BY DEF Kext!Phases
<1>2. calls' \in Seq(StackFrames) /\ StackAgrees' /\ CopiesKept /\ phase[i] = "starting"
  BY <1>1, PopStack DEF CallPhase
<1>3. \A q \in Paths : Drift(q)' = Drift(q)
  BY <1>1, <1>2, HolderKept DEF Kext!Live
<1>4. stop' \in [Infos -> BOOLEAN]
  <2>1. (MainOf[module[i]] = "both") \in BOOLEAN
    OBVIOUS
  <2>2. stop \in [Infos -> BOOLEAN] /\ stop' = [stop EXCEPT ![i] = MainOf[module[i]] = "both"]
    BY DEF LoaderTypeOK
  <2> QED
    BY <2>1, <2>2, Zenon
<1>5. LoaderTypeOK'
  <2>1. phase' \in [Infos -> Kext!Phases]
    BY <1>1 DEF LoaderTypeOK
  <2> QED
    BY <1>2, <1>4, <2>1, RegisterTable DEF LoaderTypeOK, StackFrames
<1>6. LiveHold'
  BY <1>2 DEF LiveHold, Kext!Live, LoaderTypeOK
<1>7. TableAgrees'
  BY <1>2, SettleTable
<1> QED
  BY <1>2, <1>3, <1>5, <1>6, <1>7, LPInvStays

LEMMA StartFailsStep ==
  ASSUME LPInv, NEW i \in Infos, Kext!StartFails(i), UNCHANGED <<dyldOwn, misuse>>
  PROVE  LPInv'
<1> USE DEF LPInv, Kext!StartFails, dyldOwn
<1>1. "idle" \in Kext!Phases
  BY DEF Kext!Phases
<1>2. calls' \in Seq(StackFrames) /\ StackAgrees' /\ CopiesKept /\ phase[i] = "starting"
  BY <1>1, PopStack DEF CallPhase
<1>3. dlRefs' \in [Paths -> Nat] /\ \A q \in Paths : Drift(q)' \in {Drift(q), 0}
  BY <1>2, HolderRemoved DEF Kext!Live
<1>4. LoaderTypeOK'
  BY <1>1, <1>2, <1>3 DEF LoaderTypeOK, StackFrames
<1>5. LiveHold'
  BY DEF LiveHold, Kext!Live, LoaderTypeOK
<1>6. Settled' = Settled
  BY <1>2 DEF Settled, LoaderTypeOK
<1>7. TableAgrees'
  BY <1>6, OtherTable
<1> QED
  BY <1>2, <1>3, <1>4, <1>5, <1>7, LPInvStays

LEMMA UnloadWithoutStopStep ==
  ASSUME LPInv, NEW i \in Infos, Kext!UnloadWithoutStop(i), UNCHANGED <<dyldOwn, misuse>>
  PROVE  LPInv'
<1> USE DEF LPInv, Kext!UnloadWithoutStop, Kext!CloseAndUnregister, dyldOwn
<1>1. "idle" \in Kext!Phases
  BY DEF Kext!Phases
<1>2. StackAgrees' /\ CopiesKept
  BY <1>1, OtherStack
<1>3. dlRefs' \in [Paths -> Nat] /\ \A q \in Paths : Drift(q)' \in {Drift(q), 0}
  BY HolderRemoved DEF Kext!Live
<1>4. LoaderTypeOK'
  BY <1>1, <1>3, UnregisterTable DEF LoaderTypeOK
<1>5. LiveHold'
  BY DEF LiveHold, Kext!Live, LoaderTypeOK
<1>6. TableAgrees'
  BY GiveUpTable DEF Settled
<1> QED
  BY <1>2, <1>3, <1>4, <1>5, <1>6, LPInvStays

LEMMA UnloadCallsStopStep ==
  ASSUME LPInv, NEW i \in Infos, Kext!UnloadCallsStop(i), UNCHANGED <<dyldOwn, misuse>>
  PROVE  LPInv'
<1> USE DEF LPInv, Kext!UnloadCallsStop, dyldOwn
<1>1. "stopping" \in Kext!Phases \ {"idle"}
  BY DEF Kext!Phases
<1>2. calls' \in Seq(StackFrames) /\ StackAgrees' /\ CopiesKept
  BY PushStack DEF CallPhase
<1>3. \A q \in Paths : Drift(q)' = Drift(q)
  BY <1>1, HolderKept DEF Kext!Live
<1>4. LoaderTypeOK'
  BY <1>1, <1>2 DEF LoaderTypeOK, StackFrames
<1>5. LiveHold'
  BY DEF LiveHold, Kext!Live, LoaderTypeOK
<1>6. Settled' = Settled
  BY DEF Settled, LoaderTypeOK
<1>7. TableAgrees'
  BY <1>6, OtherTable
<1> QED
  BY <1>2, <1>3, <1>4, <1>5, <1>7, LPInvStays

LEMMA StopReturnsStep ==
  ASSUME LPInv, NEW i \in Infos, Kext!StopReturns(i), UNCHANGED <<dyldOwn, misuse>>
  PROVE  LPInv'
<1> USE DEF LPInv, Kext!StopReturns, Kext!CloseAndUnregister, dyldOwn
<1>1. "idle" \in Kext!Phases
  BY DEF Kext!Phases
<1>2. calls' \in Seq(StackFrames) /\ StackAgrees' /\ CopiesKept /\ phase[i] = "stopping"
  BY <1>1, PopStack DEF CallPhase
<1>3. dlRefs' \in [Paths -> Nat] /\ \A q \in Paths : Drift(q)' \in {Drift(q), 0}
  BY <1>2, HolderRemoved DEF Kext!Live
<1>4. LoaderTypeOK'
  BY <1>1, <1>2, <1>3, UnregisterTable DEF LoaderTypeOK, StackFrames
<1>5. LiveHold'
  BY DEF LiveHold, Kext!Live, LoaderTypeOK
<1>6. TableAgrees'
  BY <1>2, GiveUpTable DEF Settled
<1> QED
  BY <1>2, <1>3, <1>4, <1>5, <1>6, LPInvStays

-----------------------------------------------------------------------------
(* The steps of the image loader.                                          *)

LEMMA DyldStep ==
  ASSUME LPInv, Dyld!Next, UNCHANGED <<kextOwn, misuse>>
  PROVE  LPInv'
<1> USE DEF LPInv, kextOwn
<1>1. StackAgrees' /\ CopiesKept /\ LiveHold' /\ Settled' = Settled
  BY DEF StackAgrees, CopiesKept, IsCopy, LiveHold, Kext!Live, Settled
<1>2. TableAgrees'
  BY <1>1, OtherTable
<1>3. ASSUME handle' \in [Images -> Paths \union {NULL}], dlRefs' \in [Paths -> Nat],
             \A q \in Paths : Drift(q)' \in {Drift(q), 0}
      PROVE  LPInv'
  <2>1. LoaderTypeOK'
    BY <1>3 DEF LoaderTypeOK
  <2> QED
    BY <1>1, <1>2, <1>3, <2>1, LPInvStays
<1>4. ASSUME UNCHANGED <<handle, dlRefs>>
      PROVE  LPInv'
  <2>1. \A q \in Paths : Drift(q)' = Drift(q)
    BY <1>4 DEF Drift, Kext!HoldersOf, Kext!Live, Dyld!ImagesOf
  <2> QED
    BY <1>3, <1>4, <2>1 DEF LoaderTypeOK
<1>5. ASSUME NEW p \in Paths, NEW m \in Images, Dyld!LPNUdyld_load(p, m)
      PROVE  LPInv'
  <2>1. handle' \in [Images -> Paths \union {NULL}]
    BY <1>5 DEF Dyld!LPNUdyld_load, LoaderTypeOK
  <2> QED
    BY <1>3, <1>5, <2>1, ImageAdded
<1>6. ASSUME NEW p \in Paths, Dyld!LoadFails(p)
      PROVE  LPInv'
  <2>1. UNCHANGED <<handle, dlRefs>>
    BY <1>6 DEF Dyld!LoadFails, LoaderTypeOK
  <2> QED
    BY <1>4, <2>1
<1>7. ASSUME NEW m \in Images, Dyld!LPNUdyld_unload(m)
      PROVE  LPInv'
  <2>1. handle' \in [Images -> Paths \union {NULL}]
    BY <1>7 DEF Dyld!LPNUdyld_unload, LoaderTypeOK
  <2> QED
    BY <1>3, <1>7, <2>1, ImageRemoved
<1>8. ASSUME NEW m \in Images, Dyld!LPNUdyld_add_image(m) \/ Dyld!LPNUdyld_remove_image(m)
      PROVE  LPInv'
  BY <1>4, <1>8 DEF Dyld!LPNUdyld_add_image, Dyld!LPNUdyld_remove_image
<1> QED
  BY <1>5, <1>6, <1>7, <1>8 DEF Dyld!Next

-----------------------------------------------------------------------------
(* The steps of the careless client.  Until the first of them everything   *)
(* is in balance and no copy is being unloaded.                            *)

LEMMA BeforeMisuse ==
  ASSUME LPInv, misuse = "none"
  PROVE  Balanced /\ \A c \in 1 .. Len(calls) : ~IsCopy(c)
BY DEF LPInv, Balanced, SharedRefsBalanced, OneCopy

(* A buffer that is not in use is not in the table: the search misses it.  *)
LEMMA UnloadStaleStep ==
  ASSUME LPInv, NEW i \in Infos, UnloadStale(i), UNCHANGED dyldOwn
  PROVE  LPInv'
<1> USE DEF LPInv, UnloadStale, Misuse, dyldOwn
<1>1. module[i] \in Paths /\ Balanced /\ \A c \in 1 .. Len(calls) : ~IsCopy(c)
  BY BeforeMisuse DEF LoaderTypeOK
<1>2. dlRefs' \in [Paths -> Nat]
  BY <1>1, Closed
<1>3. SharedRefsBalanced'
  BY <1>1, ClosedByNobody, DriftBegins
<1>4. LoaderTypeOK'
  BY <1>2, UnregisterTable DEF LoaderTypeOK
<1>5. StackAgrees' /\ OneCopy' /\ LiveHold'
  BY <1>1 DEF StackAgrees, OneCopy, IsCopy, LiveHold, Kext!Live
<1>6. TableAgrees'
  <2>1. /\ NoDuplicates(table, count)
        /\ Entries(table, count) \subseteq Settled
        /\ i \notin Settled /\ Settled' = Settled
    BY ProperTable DEF Settled
  <2>2. Entries(table', count') = Entries(table, count)
    BY <2>1, UnregisterTable
  <2>3. \A x \in Infos : ListedProperly(x)'
    BY <2>1, <2>2, UnregisterTable DEF TableAgrees, ListedProperly
  <2> QED
    BY <2>1, <2>2, <2>3 DEF TableAgrees
<1> QED
  BY <1>3, <1>4, <1>5, <1>6

(* The kext loaded over is the one that may be listed out of order.        *)
LEMMA LoadOverStep ==
  ASSUME LPInv, NEW p \in Paths, NEW i \in Infos, LoadOver(p, i), UNCHANGED dyldOwn
  PROVE  LPInv'
<1> USE DEF LPInv, LoadOver, Misuse, Kext!OpenInto, dyldOwn
<1>1. /\ Balanced
      /\ \A c \in 1 .. Len(calls) : ~IsCopy(c)
      /\ module[i] \in Paths
      /\ {"running", "starting"} \subseteq Kext!Phases \ {"idle"}
  BY BeforeMisuse DEF LiveHold, Kext!Live, Kext!Phases
<1>2. dlRefs' \in [Paths -> Nat]
  BY Opened
<1>3. \A x \in Infos : ListedProperly(x)
  BY DEF TableAgrees
<1>4. ASSUME NEW s \in {"running", "starting"}, phase' = [phase EXCEPT ![i] = s]
      PROVE  SharedRefsBalanced' /\ LiveHold'
  <2>1. s \in Kext!Phases \ {"idle"}
    BY <1>1, <1>4
  <2>2. \A q \in Paths : Drift(q)' = IF q = module[i] THEN 1 ELSE 0
    BY <1>1, <1>4, <2>1, LoadedOver
  <2>3. SharedRefsBalanced'
    BY <1>1, <2>2, DriftBegins
  <2> QED
    BY <1>4, <2>3 DEF LiveHold, Kext!Live, LoaderTypeOK
<1>5. CASE Kext!Register(i) /\ UNCHANGED <<calls, phase>>
  <2>1. phase' = [phase EXCEPT ![i] = "running"]
    BY <1>5 DEF LoaderTypeOK
  <2>2. LoaderTypeOK'
    BY <1>2, <1>5, RegisterTable DEF LoaderTypeOK
  <2>3. StackAgrees' /\ OneCopy'
    BY <1>1, <1>5 DEF StackAgrees, OneCopy, IsCopy
  <2>4. Settled' = Settled /\ i \in Settled
    BY <1>5 DEF Settled
  <2>5. TableAgrees'
    <3>1. ListedOver(i)'
      BY <1>3, <1>5, <2>4, RegisterTable DEF ListedOver, ListedProperly
    <3>2. \A x \in Infos \ {i} : ListedProperly(x)'
      BY <1>3, <1>5, <2>4, RegisterTable DEF ListedProperly
    <3>3. Entries(table', count') \subseteq Infos
      BY <1>5, RegisterTable DEF TableAgrees
    <3> QED
      BY <3>1, <3>2, <3>3 DEF TableAgrees
  <2> QED
    BY <1>4, <2>1, <2>2, <2>3, <2>5
<1>6. CASE /\ Kext!Push("start", i) /\ phase' = [phase EXCEPT ![i] = "starting"]
           /\ UNCHANGED <<table, count>>
  <2>1. calls' \in Seq(StackFrames) /\ StackAgrees' /\ CopiesKept
    BY <1>6, PushStack DEF CallPhase
  <2>2. LoaderTypeOK'
    BY <1>1, <1>2, <1>6, <2>1 DEF LoaderTypeOK, StackFrames
  <2>3. OneCopy'
    BY <1>1, <2>1 DEF OneCopy, CopiesKept
  <2>4. i \notin Settled' /\ \A x \in Infos \ {i} : x \in Settled' <=> x \in Settled
    BY <1>6 DEF Settled, LoaderTypeOK
  <2>5. TableAgrees'
    <3>1. ListedOver(i)'
      BY <1>3, <1>6 DEF ListedOver, ListedProperly, AtMostOnce, AtMostTwice
    <3>2. \A x \in Infos \ {i} : ListedProperly(x)'
      BY <1>3, <1>6, <2>4 DEF ListedProperly
    <3> QED
      BY <1>6, <3>1, <3>2 DEF TableAgrees
  <2> QED
    BY <1>4, <1>6, <2>1, <2>2, <2>3, <2>5
<1> QED
  BY <1>5, <1>6

(* An entry of LPnuKextList is settled: its library is one of the paths.   *)
LEMMA UnloadCopyStep ==
  ASSUME LPInv, NEW i \in Infos, UnloadCopy(i), UNCHANGED dyldOwn
  PROVE  LPInv'
<1> USE DEF LPInv, UnloadCopy, Misuse, dyldOwn
<1>1. Balanced /\ \A c \in 1 .. Len(calls) : ~IsCopy(c)
  BY BeforeMisuse
<1>2. i \in Entries(table, count)
  BY DEF Kext!LPnuKextList, Entries
<1>3. module[i] \in Paths
  BY <1>2, ProperTable DEF Settled, LiveHold, Kext!Live
<1>4. LiveHold' /\ Settled' = Settled
  BY DEF LiveHold, Kext!Live, Settled
<1>5. TableAgrees'
  BY <1>4 DEF TableAgrees, ListedProperly
<1>6. CASE ~stop[i] /\ Kext!DlClose(module[i]) /\ UNCHANGED calls
  <2>1. LoaderTypeOK'
    BY <1>3, <1>6, Closed DEF LoaderTypeOK
  <2>2. SharedRefsBalanced'
    BY <1>1, <1>3, <1>6, ClosedByNobody, DriftBegins
  <2>3. StackAgrees' /\ OneCopy'
    BY <1>1, <1>6 DEF StackAgrees, OneCopy, IsCopy
  <2> QED
    BY <1>4, <1>5, <2>1, <2>2, <2>3
<1>7. CASE calls' = Append(calls, CopyOf(i)) /\ UNCHANGED dlRefs
  <2> DEFINE f == CopyOf(i)
             n == Len(calls)
  <2>1. f \in CopyFrames /\ calls \in Seq(StackFrames)
    BY <1>3 DEF CopyFrames, CopyOf, LoaderTypeOK, StackFrames
  <2> HIDE DEF f
  <2>2. /\ calls' \in Seq(StackFrames)
        /\ n \in Nat /\ Len(calls') = n + 1
        /\ calls'[n + 1] = f
        /\ \A c \in 1 .. n : calls'[c] = calls[c]
        /\ 1 .. Len(calls') = (1 .. n) \union {n + 1}
    BY <1>7, <2>1 DEF f, StackFrames
  <2>3. \A c \in 1 .. Len(calls') : IsCopy(c)' <=> c = n + 1
    BY <1>1, <2>1, <2>2 DEF IsCopy
  <2>4. LoaderTypeOK'
    BY <1>7, <2>2 DEF LoaderTypeOK, StackFrames
  <2>5. StackAgrees'
    BY <2>2, <2>3 DEF StackAgrees, IsCopy
  <2>6. \A q \in Paths : Drift(q)' = Drift(q)
    BY <1>7 DEF Drift, Kext!HoldersOf, Kext!Live, Dyld!ImagesOf
  <2>7. SharedRefsBalanced' /\ Balanced'
    BY <1>1, <2>6 DEF SharedRefsBalanced, Balanced
  <2>8. OneCopy'
    BY <2>3, <2>7 DEF OneCopy
  <2> QED
    BY <1>4, <1>5, <2>4, <2>5, <2>7, <2>8
<1> QED
  BY <1>6, <1>7

(* The frame of a copy's unload is the only one of its kind.               *)
LEMMA CopyStopReturnsStep ==
  ASSUME LPInv, CopyStopReturns, UNCHANGED dyldOwn
  PROVE  LPInv'
<1> DEFINE n == Len(calls)
<1>0. /\ LoaderTypeOK /\ StackAgrees /\ OneCopy /\ LiveHold /\ TableAgrees
      /\ calls # <<>> /\ calls[n].op = "copy stop"
      /\ Kext!DlClose(calls[n].path) /\ Kext!Pop
      /\ UNCHANGED <<runtime, table, count, module, stop, phase, misuse>>
      /\ UNCHANGED handle
  BY DEF LPInv, CopyStopReturns, dyldOwn
<1>1. n \in Nat \ {0} /\ n \in 1 .. n
  <2>1. n \in Nat \ {0}
    BY <1>0, ShorterStack, Zenon
  <2> QED
    BY <2>1
<1>2. calls[n] \in CopyFrames
  BY <1>0, <1>1, TypedFrame DEF StackFrames, Kext!Frames
<1>3. misuse = "copy" /\ Balanced /\ calls[n].path \in Paths
  <2>1. IsCopy(n)
    BY <1>2 DEF IsCopy
  <2>2. misuse = "copy" /\ Balanced
    BY <1>0, <1>1, <2>1 DEF OneCopy
  <2> QED
    BY <1>2, <2>2 DEF CopyFrames
<1>4. \A c \in 1 .. n - 1 : c \in 1 .. n /\ ~IsCopy(c)
  <2> SUFFICES ASSUME NEW c \in 1 .. n - 1 PROVE c \in 1 .. n /\ ~IsCopy(c)
    OBVIOUS
  <2>1. IsCopy(n)
    BY <1>2 DEF IsCopy
  <2>2. c \in 1 .. n /\ c # n
    BY <1>1
  <2> QED
    BY <1>0, <1>1, <2>1, <2>2 DEF OneCopy
<1>5. /\ calls' \in Seq(StackFrames)
      /\ Len(calls') = n - 1
      /\ \A c \in 1 .. n - 1 : calls'[c] = calls[c]
  BY <1>0, ShorterStack
<1>6. dlRefs' \in [Paths -> Nat]
  BY <1>0, <1>3, Closed
<1>7. LoaderTypeOK'
  BY <1>0, <1>5, <1>6 DEF LoaderTypeOK, StackFrames
<1>8. SharedRefsBalanced'
  BY <1>0, <1>3, ClosedByNobody, DriftBegins
<1>9. StackAgrees' /\ OneCopy'
  BY <1>0, <1>1, <1>4, <1>5 DEF StackAgrees, OneCopy, IsCopy
<1>10. LiveHold' /\ Settled' = Settled
  BY <1>0 DEF LiveHold, Kext!Live, Settled
<1>11. TableAgrees'
  BY <1>0, <1>10, OtherTable
<1> QED
  BY <1>7, <1>8, <1>9, <1>10, <1>11 DEF LPInv

-----------------------------------------------------------------------------
(* The theorems.                                                           *)

LEMMA InitLPInv == Init => LPInv
<1> SUFFICES ASSUME Init PROVE LPInv
  OBVIOUS
<1> USE DEF Init, Kext!Init, Dyld!Init
<1>1. LoaderTypeOK
  BY LimitsAssumption DEF LoaderTypeOK, Kext!Slots, Kext!Phases
<1>2. StackAgrees /\ OneCopy
  BY DEF StackAgrees, OneCopy
<1>3. LiveHold
  BY DEF LiveHold, Kext!Live
<1>4. \A p \in Paths : Drift(p) = 0
  <2> SUFFICES ASSUME NEW p \in Paths PROVE Drift(p) = 0
    OBVIOUS
  <2>1. Kext!HoldersOf(p) = {} /\ Dyld!ImagesOf(p) = {}
    BY HoldersAssumption DEF Kext!HoldersOf, Kext!Live, Dyld!ImagesOf
  <2> QED
    BY <2>1, FS_EmptySet DEF Drift
<1>5. SharedRefsBalanced
  BY <1>4 DEF SharedRefsBalanced
<1>6. TableAgrees
  BY DEF TableAgrees, ListedProperly, AtMostOnce, Entries, Settled
<1> QED
  BY <1>1, <1>2, <1>3, <1>5, <1>6 DEF LPInv

LEMMA NextLPInv ==
  ASSUME LPInv, [Next]_<<kextOwn, dyldOwn, dlRefs, misuse>>
  PROVE  LPInv'
<1>1. ASSUME Kext!Next, UNCHANGED <<dyldOwn, misuse>>
      PROVE  LPInv'
  BY <1>1, SwitchStep, LoadWithoutStartStep, LoadCallsStartStep, StartSucceedsStep,
     StartFailsStep, UnloadWithoutStopStep, UnloadCallsStopStep, StopReturnsStep
     DEF Kext!Next
<1>2. ASSUME Careless, UNCHANGED dyldOwn
      PROVE  LPInv'
  BY <1>2, UnloadStaleStep, UnloadCopyStep, LoadOverStep, CopyStopReturnsStep DEF Careless
<1>3. ASSUME UNCHANGED <<kextOwn, dyldOwn, dlRefs, misuse>>
      PROVE  LPInv'
  <2> USE <1>3 DEF LPInv, kextOwn, dyldOwn
  <2>1. LoaderTypeOK' /\ LiveHold' /\ StackAgrees' /\ CopiesKept /\ Settled' = Settled
    BY DEF LoaderTypeOK, LiveHold, Kext!Live, StackAgrees, CopiesKept, IsCopy, Settled
  <2>2. \A q \in Paths : Drift(q)' = Drift(q)
    BY DEF Drift, Kext!HoldersOf, Kext!Live, Dyld!ImagesOf
  <2> QED
    BY <2>1, <2>2, OtherTable, LPInvStays
<1> QED
  BY <1>1, <1>2, <1>3, DyldStep DEF Next

(* The inductive invariant of the process with both loaders.               *)
THEOREM LoaderInvariant == Spec => []LPInv
<1>1. LPInv /\ [Next]_<<kextOwn, dyldOwn, dlRefs, misuse>> => LPInv'
  BY NextLPInv
<1> QED
  BY InitLPInv, <1>1, PTL DEF Spec

(* For every library the reference count is the number of buffers and      *)
(* images that hold it, and one careless call is off by one library and    *)
(* one reference for good, in the direction its kind allows.               *)
THEOREM LoaderRefsBalanced == Spec => []SharedRefsBalanced
<1>1. LPInv => SharedRefsBalanced
  BY DEF LPInv
<1> QED
  BY LoaderInvariant, <1>1, PTL

(* A library that somebody holds and that has lost no reference is open.   *)
LEMMA HeldIsOpen ==
  ASSUME LPInv, misuse \in {"none", "over"}, NEW p \in Paths,
         Kext!HoldersOf(p) \union Dyld!ImagesOf(p) # {}
  PROVE  dlRefs[p] > 0
<1>1. dlRefs[p] \in Nat /\ Drift(p) \in {0, 1}
  BY DEF LPInv, LoaderTypeOK, SharedRefsBalanced
<1>2. Cardinality(Kext!HoldersOf(p)) > 0 \/ Cardinality(Dyld!ImagesOf(p)) > 0
  <2>1. ASSUME NEW S, IsFiniteSet(S), S # {}
        PROVE  Cardinality(S) > 0
    <3>1. PICK x \in S : TRUE
      BY <2>1
    <3>2. Cardinality(S) \in Nat \ {0}
      BY <2>1, <3>1, OneLess, Zenon
    <3> QED
      BY <3>2
  <2> QED
    BY <2>1, HoldersFinite
<1>3. Cardinality(Kext!HoldersOf(p)) \in Nat /\ Cardinality(Dyld!ImagesOf(p)) \in Nat
  BY HoldersFinite
<1> QED
  BY <1>1, <1>2, <1>3 DEF Drift

(* The library of every running callback and of every allocated image is   *)
(* open, whichever loader closed it last, also after a load over a kext.   *)
THEOREM LoaderCodeMapped == Spec => []ReachableCodeMapped
<1>1. LPInv => ReachableCodeMapped
  <2> SUFFICES ASSUME LPInv, misuse \in {"none", "over"}
               PROVE  /\ Kext!CallbackCodeMapped
                      /\ \A m \in Dyld!Allocated : dlRefs[Dyld!LPNUdyld_get_symbol(m)] > 0
    BY DEF ReachableCodeMapped
  <2>1. ASSUME NEW c \in 1 .. Len(calls)
        PROVE  module[calls[c].info] \in Paths /\ dlRefs[module[calls[c].info]] > 0
    <3>1. ~IsCopy(c)
      BY DEF LPInv, OneCopy
    <3>2. calls[c].info \in Kext!Live
      BY <3>1, FrameLive DEF LPInv
    <3>3. module[calls[c].info] \in Paths
      BY <3>2 DEF LPInv, LiveHold
    <3>4. calls[c].info \in Kext!HoldersOf(module[calls[c].info])
      BY <3>2 DEF Kext!HoldersOf
    <3> QED
      BY <3>3, <3>4, HeldIsOpen
  <2>2. ASSUME NEW m \in Dyld!Allocated
        PROVE  dlRefs[Dyld!LPNUdyld_get_symbol(m)] > 0
    <3>1. handle[m] \in Paths /\ m \in Dyld!ImagesOf(handle[m])
      BY DEF Dyld!Allocated, Dyld!ImagesOf, LPInv, LoaderTypeOK
    <3> QED
      BY <3>1, HeldIsOpen DEF Dyld!LPNUdyld_get_symbol
  <2> QED
    BY <2>1, <2>2 DEF Kext!CallbackCodeMapped
<1> QED
  BY LoaderInvariant, <1>1, PTL

(* After a load over a kext, two slots out of order would be three of that *)
(* kext, or two of one whose load has not succeeded.                       *)
LEMMA OneSlotOutOfOrder ==
  ASSUME LPInv, NEW k \in 0 .. count - 1, NEW l \in 0 .. count - 1,
         ~FirstOfLive(k), ~FirstOfLive(l)
  PROVE  misuse = "over" /\ k = l
<1>1. Entries(table, count) \subseteq Infos
  BY DEF LPInv, TableAgrees
<1>2. ASSUME NEW j \in 0 .. count - 1, ~FirstOfLive(j)
      PROVE  table[j] \in Infos /\ ~ListedProperly(table[j])
  <2>1. table[j] \in Entries(table, count) /\ table[j] \in Infos
    BY <1>1 DEF Entries
  <2>2. ASSUME ListedProperly(table[j])
        PROVE  FALSE
    <3>1. phase[table[j]] # "idle" /\ AtMostOnce(table, count, table[j])
      BY <2>1, <2>2 DEF ListedProperly, Settled
    <3>2. \A h \in 0 .. j - 1 : table[h] # table[j]
      BY <3>1, TypedTable DEF AtMostOnce, LPInv
    <3> QED
      BY <1>2, <3>1, <3>2 DEF FirstOfLive
  <2> QED
    BY <2>1, <2>2
<1>3. misuse = "over"
  BY <1>2 DEF LPInv, TableAgrees
<1>4. PICK v \in Infos : ListedOver(v) /\ \A x \in Infos \ {v} : ListedProperly(x)
  BY <1>3 DEF LPInv, TableAgrees
<1>5. table[k] = v /\ table[l] = v
  BY <1>2, <1>4
<1>6. ASSUME k # l
      PROVE  FALSE
  <2>1. ~AtMostOnce(table, count, v)
    BY <1>5, <1>6 DEF AtMostOnce
  <2>2. phase[v] # "idle" /\ AtMostTwice(table, count, v)
    BY <1>4, <2>1 DEF ListedOver, Settled
  <2>3. PICK h \in 0 .. k - 1 : table[h] = v
    BY <1>5, <2>2 DEF FirstOfLive
  <2>4. PICK j \in 0 .. l - 1 : table[j] = v
    BY <1>5, <2>2 DEF FirstOfLive
  <2>5. count \in Nat
    BY TypedTable DEF LPInv
  <2>6. /\ h \in 0 .. count - 1 /\ j \in 0 .. count - 1
        /\ h # k /\ j # l /\ (h = l => j # k)
    BY <2>5
  <2> QED
    BY <1>5, <1>6, <2>2, <2>3, <2>4, <2>6 DEF AtMostTwice
<1> QED
  BY <1>3, <1>6

(* The table after a careless call: in order, except that a load over a    *)
(* kext leaves one slot that names it twice or that names a kext whose     *)
(* load has failed, whatever the later calls.                              *)
THEOREM LoaderTableSurvives == Spec => []TableSurvivesMisuse
<1>1. LPInv => TableSurvivesMisuse
  <2> SUFFICES ASSUME LPInv PROVE TableSurvivesMisuse
    OBVIOUS
  <2> DEFINE bad == {k \in 0 .. count - 1 : ~FirstOfLive(k)}
  <2>1. Cardinality(bad) <= IF misuse = "over" THEN 1 ELSE 0
    <3>1. CASE bad = {}
      BY <3>1, FS_EmptySet
    <3>2. CASE bad # {}
      <4>1. PICK k \in 0 .. count - 1 : ~FirstOfLive(k)
        BY <3>2
      <4>2. misuse = "over" /\ bad = {k}
        BY <4>1, OneSlotOutOfOrder
      <4>3. Cardinality({k}) = 1
        BY FS_Singleton
      <4> QED
        BY <4>2, <4>3
    <3> QED
      BY <3>1, <3>2
  <2>2. ASSUME misuse # "over", Cardinality(Infos) <= MaxKexts
        PROVE  Listed = Settled
    BY <2>2, ProperTable DEF LPInv, TableAgrees, Listed, Entries
  <2> QED
    BY <2>1, <2>2 DEF TableSurvivesMisuse, Settled
<1> QED
  BY LoaderInvariant, <1>1, PTL
=============================================================================
