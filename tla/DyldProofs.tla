----------------------------- MODULE DyldProofs -----------------------------
(***************************************************************************)
(* Theorems about Dyld, for every number of images, libraries and slots,   *)
(* and, where they do not say otherwise, for clients of every kind.        *)
(*                                                                         *)
(* The invariant FilledToPeak explains why a walk without a count works    *)
(* at all: a removal shifts non-null pointers and never clears a slot, so  *)
(* the table is non-null up to the peak and null from there on.            *)
(***************************************************************************)
EXTENDS Dyld, PtrTableProofs

FilledToPeak ==
  /\ imageCount <= peak
  /\ \A k \in ImageSlots : images[k] # NULL <=> k < peak

DInv == TypeOK /\ FilledToPeak /\ RefsBalanced /\ TableAsAdded /\ RegisteredLive

(* A sequence without its f-th element.                                    *)
LEMMA WithoutAt ==
  ASSUME NEW S, NEW s \in Seq(S), NEW f \in 1 .. Len(s)
  PROVE  /\ RemoveAt(s, f) \in Seq(S)
         /\ Len(RemoveAt(s, f)) = Len(s) - 1
         /\ \A k \in 1 .. Len(s) - 1 :
              RemoveAt(s, f)[k] = IF k < f THEN s[k] ELSE s[k + 1]
<1> DEFINE a == SubSeq(s, 1, f - 1)
           b == SubSeq(s, f + 1, Len(s))
<1>1. /\ a \in Seq(S) /\ Len(a) = f - 1
      /\ \A k \in 1 .. f - 1 : a[k] = s[k]
  OBVIOUS
<1>2. /\ b \in Seq(S) /\ Len(b) = Len(s) - f
      /\ \A k \in 1 .. Len(s) - f : b[k] = s[k + f]
  OBVIOUS
<1> HIDE DEF a, b
<1>3. /\ a \o b \in Seq(S) /\ Len(a \o b) = Len(s) - 1
      /\ \A k \in 1 .. Len(s) - 1 :
           (a \o b)[k] = IF k < f THEN a[k] ELSE b[k - (f - 1)]
  <2>1. Len(s) \in Nat /\ Len(a) + Len(b) = Len(s) - 1
    BY <1>1, <1>2
  <2>2. /\ a \o b \in Seq(S) /\ Len(a \o b) = Len(a) + Len(b)
        /\ \A k \in 1 .. Len(a) + Len(b) :
             (a \o b)[k] = IF k <= Len(a) THEN a[k] ELSE b[k - Len(a)]
    BY <1>1, <1>2, ConcatProperties
  <2>3. \A k \in 1 .. Len(s) - 1 : k <= Len(a) <=> k < f
    BY <1>1, <2>1
  <2> QED
    BY <1>1, <2>1, <2>2, <2>3
<1>4. ASSUME NEW k \in 1 .. Len(s) - 1
      PROVE  (a \o b)[k] = IF k < f THEN s[k] ELSE s[k + 1]
  <2>1. CASE k < f
    BY <1>1, <1>3, <2>1
  <2>2. CASE ~(k < f)
    <3>1. k - (f - 1) \in 1 .. Len(s) - f /\ (k - (f - 1)) + f = k + 1
      BY <2>2
    <3> QED
      BY <1>2, <1>3, <2>2, <3>1
  <2> QED
    BY <2>1, <2>2
<1> QED
  BY <1>3, <1>4 DEF RemoveAt, a, b

(* RemoveFirst takes out the least index that holds the element.           *)
LEMMA WithoutFirst ==
  ASSUME NEW S, NEW s \in Seq(S), NEW e, NEW f \in 1 .. Len(s), s[f] = e,
         \A j \in 1 .. Len(s) : s[j] = e => f <= j
  PROVE  RemoveFirst(s, e) = RemoveAt(s, f)
<1> DEFINE I == {i \in 1 .. Len(s) : s[i] = e}
<1>1. f \in I /\ \A j \in I : f <= j
  OBVIOUS
<1>2. Min(I) = f
  <2>1. I \subseteq Int
    OBVIOUS
  <2> HIDE DEF I
  <2>2. Min(I) \in I /\ \A j \in I : Min(I) <= j
    BY <1>1 DEF Min
  <2>3. Min(I) \in Int /\ Min(I) <= f /\ f <= Min(I)
    BY <1>1, <2>1, <2>2, Zenon
  <2> QED
    BY <2>3
<1>3. SelectInSeq(s, LAMBDA v : v = e) = f
  BY <1>1, <1>2 DEF SelectInSeq
<1> QED
  BY <1>3 DEF RemoveFirst

LEMMA TypedImages ==
  ASSUME TypeOK
  PROVE  /\ IsTable(images, imageCount)
         /\ DOMAIN images = ImageSlots
         /\ imageCount \in ImageSlots
         /\ 0 .. imageCount - 1 \subseteq ImageSlots
BY MaxImagesAssumption DEF TypeOK, IsTable, ImageSlots

LEMMA ImagesFinite ==
  \A p : IsFiniteSet(ImagesOf(p)) /\ Cardinality(ImagesOf(p)) \in Nat
<1> SUFFICES ASSUME NEW p
             PROVE  IsFiniteSet(ImagesOf(p)) /\ Cardinality(ImagesOf(p)) \in Nat
  OBVIOUS
<1>1. ImagesOf(p) \in SUBSET Images
  BY DEF ImagesOf
<1> QED
  BY <1>1, ImagesAssumption, FS_Subset, FS_CardinalityType

LEMMA DInvInit == Init => DInv
<1> SUFFICES ASSUME Init
             PROVE  DInv
  OBVIOUS
<1>1. TypeOK
  BY MaxImagesAssumption DEF Init, TypeOK, ImageSlots
<1>2. FilledToPeak
  BY DEF Init, FilledToPeak, ImageSlots
<1>3. RegisteredLive /\ TableAsAdded
  BY DEF Init, RegisteredLive, Registered, Entries, NoDuplicates, TableAsAdded
<1>4. RefsBalanced
  <2>1. \A p \in Paths : ImagesOf(p) = {}
    BY LibrariesAssumption DEF Init, ImagesOf
  <2> QED
    BY <2>1, FS_EmptySet DEF Init, RefsBalanced
<1> QED
  BY <1>1, <1>2, <1>3, <1>4 DEF DInv

LEMMA LoadStep ==
  ASSUME DInv, NEW p \in Paths, NEW m \in Images, LPNUdyld_load(p, m)
  PROVE  DInv'
<1> USE DEF DInv, LPNUdyld_load
<1>1. TypeOK'
  BY DEF TypeOK
<1>2. FilledToPeak'
  BY DEF FilledToPeak
<1>3. RegisteredLive' /\ TableAsAdded'
  BY LibrariesAssumption
     DEF RegisteredLive, Disciplined, Registered, Allocated, TypeOK, TableAsAdded
<1>4. RefsBalanced'
  <2> SUFFICES ASSUME NEW q \in Paths
               PROVE  dlRefs'[q] = Cardinality(ImagesOf(q)')
    BY DEF RefsBalanced
  <2>1. ImagesOf(q)' = IF q = p THEN ImagesOf(q) \union {m} ELSE ImagesOf(q)
    BY LibrariesAssumption DEF ImagesOf, TypeOK
  <2>2. m \notin ImagesOf(q)
    BY LibrariesAssumption DEF ImagesOf
  <2>3. dlRefs'[q] = IF q = p THEN dlRefs[q] + 1 ELSE dlRefs[q]
    BY DEF TypeOK
  <2>4. Cardinality(ImagesOf(q) \union {m}) = Cardinality(ImagesOf(q)) + 1
    BY <2>2, ImagesFinite, FS_AddElement
  <2> QED
    BY <2>1, <2>3, <2>4 DEF RefsBalanced
<1> QED
  BY <1>1, <1>2, <1>3, <1>4

LEMMA LoadFailsStep ==
  ASSUME DInv, NEW p \in Paths, LoadFails(p)
  PROVE  DInv' /\ dlRefs' = dlRefs
<1>1. dlRefs' = dlRefs
  BY DEF LoadFails, DInv, TypeOK
<1>2. DInv'
  BY <1>1 DEF LoadFails, DInv, TypeOK, FilledToPeak, RefsBalanced, ImagesOf,
              RegisteredLive, Disciplined, Registered, Allocated, TableAsAdded
<1> QED
  BY <1>1, <1>2

(* The registered pointers are the members of the sequence.                *)
LEMMA RegisteredAdded ==
  ASSUME TypeOK, TableAsAdded
  PROVE  Registered = ToSet(added)
<1>1. imageCount \in Nat /\ Len(added) = imageCount /\ DOMAIN added = 1 .. imageCount
  BY DEF TypeOK, TableAsAdded
<1>2. Registered \subseteq ToSet(added)
  <2> SUFFICES ASSUME NEW k \in 0 .. imageCount - 1 PROVE images[k] \in ToSet(added)
    BY DEF Registered, Entries
  <2>1. k + 1 \in 1 .. imageCount /\ (k + 1) - 1 = k
    BY <1>1
  <2> QED
    BY <1>1, <2>1 DEF TableAsAdded, ToSet
<1>3. ToSet(added) \subseteq Registered
  <2> SUFFICES ASSUME NEW k \in 1 .. imageCount PROVE added[k] \in Registered
    BY <1>1 DEF ToSet
  <2>1. k - 1 \in 0 .. imageCount - 1
    BY <1>1
  <2> QED
    BY <2>1 DEF TableAsAdded, Registered, Entries
<1> QED
  BY <1>2, <1>3

LEMMA UnloadStep ==
  ASSUME DInv, NEW m \in Images, LPNUdyld_unload(m)
  PROVE  DInv'
<1> USE DEF DInv, LPNUdyld_unload
<1>0. handle[m] \in Paths
  BY DEF TypeOK, Allocated
<1>1. TypeOK'
  BY <1>0 DEF TypeOK
<1>2. FilledToPeak'
  BY DEF FilledToPeak
<1>3. RegisteredLive' /\ TableAsAdded'
  BY RegisteredAdded
     DEF RegisteredLive, Disciplined, Registered, Allocated, TypeOK, TableAsAdded
<1>4. RefsBalanced'
  <2> SUFFICES ASSUME NEW q \in Paths
               PROVE  dlRefs'[q] = Cardinality(ImagesOf(q)')
    BY DEF RefsBalanced
  <2>1. ImagesOf(q)'
          = IF q = handle[m] THEN ImagesOf(q) \ {m} ELSE ImagesOf(q)
    BY LibrariesAssumption DEF ImagesOf, TypeOK
  <2>2. q = handle[m] => m \in ImagesOf(q)
    BY DEF ImagesOf
  <2>3. q = handle[m]
          => Cardinality(ImagesOf(q) \ {m}) = Cardinality(ImagesOf(q)) - 1
    BY <2>2, ImagesFinite, FS_RemoveElement
  <2>4. q = handle[m] => dlRefs[q] > 0
    <3>1. IsFiniteSet(ImagesOf(q) \ {m})
      BY ImagesFinite, FS_RemoveElement
    <3>2. Cardinality(ImagesOf(q) \ {m}) \in Nat
      BY <3>1, FS_CardinalityType
    <3> QED
      BY <2>3, <3>2 DEF RefsBalanced, TypeOK
  <2>5. dlRefs'[q] = IF q = handle[m] THEN dlRefs[q] - 1 ELSE dlRefs[q]
    BY <1>0, <2>4 DEF TypeOK
  <2> QED
    BY <2>1, <2>3, <2>5 DEF RefsBalanced
<1> QED
  BY <1>1, <1>2, <1>3, <1>4

LEMMA AddStep ==
  ASSUME DInv, NEW m \in Images, LPNUdyld_add_image(m)
  PROVE  DInv'
<1> USE DEF DInv, LPNUdyld_add_image
<1>1. TypeOK'
  <2>1. images' \in [ImageSlots -> Images \union {NULL}]
    BY DEF TypeOK, Put
  <2>2. imageCount' \in 0 .. MaxImages /\ peak' \in 0 .. MaxImages
    BY MaxImagesAssumption DEF TypeOK
  <2>3. added' \in Seq(Images)
    BY DEF TypeOK
  <2> QED
    BY <2>1, <2>2, <2>3 DEF TypeOK
<1>2. FilledToPeak'
  <2>1. \A k \in ImageSlots :
          images'[k] = IF k = imageCount THEN m ELSE images[k]
    BY DEF Put, TypeOK
  <2>2. m # NULL
    BY ImagesAssumption
  <2> QED
    BY <2>1, <2>2, MaxImagesAssumption DEF FilledToPeak, TypeOK, ImageSlots
<1>3. RegisteredLive'
  <2> SUFFICES ASSUME Disciplined
               PROVE  /\ Registered' \subseteq Allocated'
                      /\ NoDuplicates(images', imageCount')
    BY DEF RegisteredLive, Disciplined
  <2>1. /\ Registered' = Registered \union {m}
        /\ NoDuplicates(images', imageCount')
    BY TypedImages, PutAdds, RegisteredAdded DEF Registered, RegisteredLive
  <2>2. Allocated' = Allocated
    BY DEF Allocated
  <2> QED
    BY <2>1, <2>2 DEF RegisteredLive
<1>4. RefsBalanced'
  BY DEF RefsBalanced, ImagesOf
<1>5. TableAsAdded'
  <2>1. /\ added \in Seq(Images) /\ Len(added) = imageCount /\ imageCount \in Nat
        /\ \A k \in 1 .. imageCount : images[k - 1] = added[k]
    BY DEF TypeOK, TableAsAdded
  <2>2. /\ Len(added') = imageCount + 1 /\ added'[imageCount + 1] = m
        /\ \A k \in 1 .. imageCount : added'[k] = added[k]
    BY <2>1
  <2>3. images'[imageCount] = m /\ \A k \in 0 .. imageCount - 1 : images'[k] = images[k]
    <3>1. imageCount \in DOMAIN images
      BY TypedImages
    <3> QED
      BY <3>1, TypedImages, PutAdds DEF Put
  <2>4. ASSUME NEW k \in 1 .. imageCount + 1
        PROVE  images'[k - 1] = added'[k]
    <3>1. CASE k = imageCount + 1
      BY <2>1, <2>2, <2>3, <3>1
    <3>2. CASE k # imageCount + 1
      <4>1. k \in 1 .. imageCount /\ k - 1 \in 0 .. imageCount - 1
        BY <2>1, <3>2
      <4> QED
        BY <2>1, <2>2, <2>3, <4>1
    <3> QED
      BY <3>1, <3>2
  <2> QED
    BY <2>2, <2>4 DEF TableAsAdded
<1> QED
  BY <1>1, <1>2, <1>3, <1>4, <1>5

(* What the search finds in the table RemoveFirst finds in the sequence.   *)
LEMMA RemoveUnlists ==
  ASSUME TypeOK, TableAsAdded, NEW m \in Images
  PROVE  /\ RemoveFirst(added, m) \in Seq(Images)
         /\ Len(RemoveFirst(added, m)) = CountAfter(images, imageCount, m)
         /\ \A k \in 1 .. CountAfter(images, imageCount, m) :
              Removed(images, imageCount, m)[k - 1] = RemoveFirst(added, m)[k]
<1>1. /\ added \in Seq(Images) /\ Len(added) = imageCount /\ imageCount \in Nat
      /\ \A k \in 1 .. imageCount : images[k - 1] = added[k]
      /\ IsTable(images, imageCount)
  BY TypedImages DEF TypeOK, TableAsAdded
<1>2. CASE m \notin Registered
  <2>1. \A k \in 1 .. Len(added) : added[k] # m
    BY <1>1, <1>2, RegisteredAdded DEF ToSet
  <2>2. RemoveFirst(added, m) = added
    BY <2>1 DEF RemoveFirst
  <2> QED
    BY <1>1, <1>2, <2>2 DEF Registered, Removed, CountAfter
<1>3. CASE m \in Registered
  <2> DEFINE f == FirstAt(images, imageCount, m)
  <2>1. /\ f \in 0 .. imageCount - 1 /\ images[f] = m
        /\ \A j \in 0 .. imageCount - 1 : images[j] = m => f <= j
    BY <1>1, <1>3, FirstAtIsFirst DEF Registered
  <2>2. /\ Removed(images, imageCount, m) = ShiftDown(images, imageCount, f)
        /\ CountAfter(images, imageCount, m) = imageCount - 1
    BY <1>3 DEF Registered, Removed, CountAfter
  <2> HIDE DEF f
  <2>3. f + 1 \in 1 .. Len(added) /\ (f + 1) - 1 = f /\ added[f + 1] = m
    BY <1>1, <2>1
  <2>4. ASSUME NEW j \in 1 .. Len(added), added[j] = m
        PROVE  f + 1 <= j
    <3>1. j - 1 \in 0 .. imageCount - 1 /\ images[j - 1] = m
      BY <1>1, <2>4
    <3> QED
      BY <2>1, <3>1
  <2>5. RemoveFirst(added, m) = RemoveAt(added, f + 1)
    BY <1>1, <2>3, <2>4, WithoutFirst
  <2>6. /\ RemoveFirst(added, m) \in Seq(Images)
        /\ Len(RemoveFirst(added, m)) = imageCount - 1
        /\ \A k \in 1 .. imageCount - 1 :
             RemoveFirst(added, m)[k] = IF k < f + 1 THEN added[k] ELSE added[k + 1]
    <3>1. f + 1 \in 1 .. Len(added)
      BY <2>3
    <3>2. /\ RemoveAt(added, f + 1) \in Seq(Images)
          /\ Len(RemoveAt(added, f + 1)) = Len(added) - 1
          /\ \A k \in 1 .. Len(added) - 1 :
               RemoveAt(added, f + 1)[k]
                 = IF k < f + 1 THEN added[k] ELSE added[k + 1]
      BY <1>1, <3>1, WithoutAt
    <3> QED
      BY <1>1, <2>5, <3>2
  <2>7. ASSUME NEW k \in 1 .. imageCount - 1
        PROVE  ShiftDown(images, imageCount, f)[k - 1] = RemoveFirst(added, m)[k]
    <3>1. /\ k - 1 \in 0 .. imageCount - 2 /\ (k - 1) + 1 = k /\ (k + 1) - 1 = k
          /\ k \in 1 .. imageCount /\ k + 1 \in 1 .. imageCount
          /\ k - 1 < f <=> k < f + 1
      BY <1>1, <2>1
    <3>2. ShiftDown(images, imageCount, f)[k - 1]
            = IF k - 1 < f THEN images[k - 1] ELSE images[(k - 1) + 1]
      BY <1>1, <2>1, <3>1, ShiftDownEntry
    <3>3. images[k - 1] = added[k] /\ images[k] = added[k + 1]
      BY <1>1, <3>1
    <3> QED
      BY <2>6, <3>1, <3>2, <3>3
  <2> QED
    BY <2>2, <2>6, <2>7
<1> QED
  BY <1>2, <1>3

LEMMA RemoveStep ==
  ASSUME DInv, NEW m \in Images, LPNUdyld_remove_image(m)
  PROVE  DInv'
<1> USE DEF DInv, LPNUdyld_remove_image
<1>1. TypeOK'
  <2> DEFINE S == Images \union {NULL}
  <2>1. images \in [ImageSlots -> S]
    BY DEF TypeOK
  <2>2. ImageSlots \subseteq Int /\ imageCount \in Nat
    BY MaxImagesAssumption DEF ImageSlots, TypeOK
  <2> HIDE DEF S
  <2>3. /\ Removed(images, imageCount, m) \in [ImageSlots -> S]
        /\ CountAfter(images, imageCount, m) \in 0 .. imageCount
    BY <2>1, <2>2, TypedImages, RemovedType, Zenon
  <2>4. added' \in Seq(Images)
    BY RemoveUnlists DEF Unlists
  <2> QED
    BY <2>3, <2>4, MaxImagesAssumption DEF TypeOK, S
<1>2. FilledToPeak'
  <2>1. CASE m \notin Registered
    BY <2>1 DEF FilledToPeak, Removed, CountAfter, Registered
  <2>2. CASE m \in Registered
    <3>1. PICK f \in 0 .. imageCount - 1 :
                 images' = ShiftDown(images, imageCount, f)
      BY <2>2, TypedImages, FirstAtIsFirst DEF Removed, Registered, IsTable
    <3>2. imageCount' = imageCount - 1
      BY <2>2 DEF CountAfter, Registered
    <3>3. \A k \in ImageSlots :
            images'[k] = IF f <= k /\ k < imageCount - 1 THEN images[k + 1]
                                                         ELSE images[k]
      BY <3>1, TypedImages DEF ShiftDown
    <3>4. /\ imageCount \in 0 .. MaxImages /\ peak \in 0 .. MaxImages
          /\ imageCount <= peak /\ peak' = peak
          /\ \A k \in ImageSlots : images[k] # NULL <=> k < peak
      BY DEF FilledToPeak, TypeOK
    <3>5. \A k \in ImageSlots : images'[k] # NULL <=> k < peak
      <4> HIDE DEF DInv, LPNUdyld_remove_image
      <4> QED
        BY <3>3, <3>4, MaxImagesAssumption DEF ImageSlots
    <3> QED
      BY <3>2, <3>4, <3>5, MaxImagesAssumption DEF FilledToPeak
  <2> QED
    BY <2>1, <2>2
<1>3. RegisteredLive'
  <2> SUFFICES ASSUME Disciplined
               PROVE  /\ Registered' \subseteq Allocated'
                      /\ NoDuplicates(images', imageCount')
    BY DEF RegisteredLive, Disciplined
  <2>1. /\ Registered' = Registered \ {m}
        /\ NoDuplicates(images', imageCount')
    BY TypedImages, RemovedEntries DEF Registered, RegisteredLive
  <2> QED
    BY <2>1 DEF RegisteredLive, Allocated
<1>4. RefsBalanced'
  BY DEF RefsBalanced, ImagesOf
<1>5. TableAsAdded'
  BY RemoveUnlists DEF TableAsAdded, Unlists
<1> QED
  BY <1>1, <1>2, <1>3, <1>4, <1>5

THEOREM DyldInvariant == Spec => []DInv
<1>1. DInv /\ UNCHANGED dvars => DInv'
  BY DEF DInv, dvars, TypeOK, FilledToPeak, RefsBalanced, ImagesOf,
         RegisteredLive, Disciplined, Registered, Allocated, TableAsAdded
<1>2. DInv /\ [Next]_dvars => DInv'
  BY <1>1, LoadStep, LoadFailsStep, UnloadStep, AddStep, RemoveStep DEF Next
<1> QED
  BY <1>2, DInvInit, PTL DEF Spec

(* The variables of the dynamic loader keep their types.                   *)
THEOREM DyldTypeCorrect == Spec => []TypeOK
<1>1. DInv => TypeOK
  BY DEF DInv
<1> QED
  BY <1>1, DyldInvariant, PTL

(* dlopen and dlclose balance for every library.                           *)
THEOREM DyldRefsBalanced == Spec => []RefsBalanced
<1>1. DInv => RefsBalanced
  BY DEF DInv
<1> QED
  BY <1>1, DyldInvariant, PTL

(* A walk of the table sees exactly the slots filled at the peak.          *)
THEOREM DyldWalkSeesPeak == Spec => []WalkSeesPeak
<1>1. DInv => WalkSeesPeak
  BY MaxImagesAssumption
     DEF DInv, FilledToPeak, WalkSeesPeak, Walked, ImageSlots, TypeOK
<1> QED
  BY <1>1, DyldInvariant, PTL

(* The walk ends inside the array: its last slot stays null.               *)
THEOREM DyldSentinelKept == Spec => []SentinelKept
<1>1. DInv => SentinelKept
  BY MaxImagesAssumption DEF DInv, FilledToPeak, SentinelKept, ImageSlots, TypeOK
<1> QED
  BY <1>1, DyldInvariant, PTL

(* With disciplined clients every registered pointer is a live image.      *)
THEOREM DyldRegisteredLive == Spec => []RegisteredLive
<1>1. DInv => RegisteredLive
  BY DEF DInv
<1> QED
  BY <1>1, DyldInvariant, PTL

(* The table is the sequence of what clients have added and not removed,   *)
(* also when they add an image twice.                                      *)
THEOREM DyldTableAsAdded == Spec => []TableAsAdded
<1>1. DInv => TableAsAdded
  BY DEF DInv
<1> QED
  BY <1>1, DyldInvariant, PTL
=============================================================================
