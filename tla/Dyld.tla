-------------------------------- MODULE Dyld --------------------------------
(***************************************************************************)
(* The user-space dynamic loader, lpnu/dyld/lpnu_dyld.c: image structures  *)
(* allocated around dlopen handles, and the table g_images, whose address  *)
(* LPNUdyld_get_all_images hands out without its count.  A caller of that  *)
(* function can only walk the table up to the first null slot.             *)
(*                                                                         *)
(* An image is named by its address.  Load takes any address that is not   *)
(* in use, as calloc may, so a pointer kept after LPNUdyld_unload may come *)
(* to denote another image.  A load that is refused (-1, -2) writes        *)
(* nothing and is a stuttering step.                                       *)
(***************************************************************************)
EXTENDS Integers, FiniteSets, SequencesExt, PtrTable

CONSTANTS
  Images,       \* addresses of LPNUImageInfo structures
  Paths,        \* the libraries on disk
  NULL,
  MaxImages,    \* images LPNUdyld_add_image accepts (255 in the code)
  Clients       \* kinds of client: "disciplined", "free"

ASSUME ImagesAssumption == IsFiniteSet(Images) /\ NULL \notin Images
ASSUME LibrariesAssumption == NULL \notin Paths
ASSUME MaxImagesAssumption == MaxImages \in Nat

VARIABLES
  images,       \* g_images: one slot more than add_image fills
  imageCount,   \* g_image_count
  handle,       \* image->handle; NULL for an address that is not allocated
  dlRefs,       \* the reference count dlopen keeps for every path
  client,       \* the kind of client; it does not change
  peak,         \* the largest count so far (history)
  added         \* the images clients added, without those removed (history)

dvars == <<images, imageCount, handle, dlRefs, client, peak, added>>

ImageSlots == 0 .. MaxImages

(* A disciplined client adds an image once and removes it before unload.   *)
Disciplined == client = "disciplined"

TypeOK ==
  /\ images \in [ImageSlots -> Images \union {NULL}]
  /\ imageCount \in 0 .. MaxImages
  /\ handle \in [Images -> Paths \union {NULL}]
  /\ dlRefs \in [Paths -> Int]
  /\ client \in Clients
  /\ peak \in 0 .. MaxImages
  /\ added \in Seq(Images)

Init ==
  /\ images = [k \in ImageSlots |-> NULL]
  /\ imageCount = 0
  /\ handle = [m \in Images |-> NULL]
  /\ dlRefs = [p \in Paths |-> 0]
  /\ client \in Clients
  /\ peak = 0
  /\ added = <<>>

-----------------------------------------------------------------------------
(* The operations.                                                         *)

Allocated == {m \in Images : handle[m] # NULL}
Registered == Entries(images, imageCount)

LPNUdyld_load(p, m) ==
  /\ handle[m] = NULL
  /\ handle' = [handle EXCEPT ![m] = p]
  /\ dlRefs' = [dlRefs EXCEPT ![p] = @ + 1]
  /\ UNCHANGED <<images, imageCount, client, peak, added>>

(* A fault of the error path of load: the library stays open.              *)
Fault_LoadFails_KeepsOpen(p) ==
  /\ dlRefs' = [dlRefs EXCEPT ![p] = @ + 1]
  /\ UNCHANGED <<images, imageCount, handle, client, peak, added>>

(* The library is opened, the image cannot be allocated: close it again.   *)
LoadFails(p) ==
  /\ dlRefs' = [dlRefs EXCEPT ![p] = (@ + 1) - 1]
  /\ UNCHANGED <<images, imageCount, handle, client, peak, added>>

(* The library in which a symbol of an image is looked up. *)
LPNUdyld_get_symbol(m) == handle[m]

(* unload closes and frees; it does not look at g_images.  dlclose refuses *)
(* a handle that is not open.                                              *)
LPNUdyld_unload(m) ==
  /\ m \in Allocated
  /\ Disciplined => m \notin ToSet(added)
  /\ handle' = [handle EXCEPT ![m] = NULL]
  /\ dlRefs' = [dlRefs EXCEPT ![handle[m]] = IF @ > 0 THEN @ - 1 ELSE @]
  /\ UNCHANGED <<images, imageCount, client, peak, added>>

(* Faults of add_image: the last slot is given away, and the count grows   *)
(* past it.                                                                *)
Fault_AddImage_TakesLastSlot(m) ==
  /\ m \in Allocated
  /\ Disciplined => m \notin ToSet(added)
  /\ imageCount < MaxImages + 1
  /\ images' = Put(images, imageCount, m)
  /\ imageCount' = imageCount + 1
  /\ peak' = IF peak < imageCount + 1 THEN imageCount + 1 ELSE peak
  /\ added' = Append(added, m)
  /\ UNCHANGED <<handle, dlRefs, client>>

(* add_image rejects a full table and nothing else: the same image may be  *)
(* added twice by a client that is not disciplined.                        *)
LPNUdyld_add_image(m) ==
  /\ m \in Allocated
  /\ Disciplined => m \notin ToSet(added)
  /\ imageCount < MaxImages
  /\ images' = Put(images, imageCount, m)
  /\ imageCount' = imageCount + 1
  /\ peak' = IF peak < imageCount + 1 THEN imageCount + 1 ELSE peak
  /\ added' = Append(added, m)
  /\ UNCHANGED <<handle, dlRefs, client>>

(* What clients know of a removal: the oldest of equal entries goes.       *)
Unlists(m) == added' = RemoveFirst(added, m)

(* Faults of remove_image: the freed slot is cleared instead of the shift  *)
(* ending; the search finds the last match; nothing is shifted.            *)
Fault_RemoveImage_ClearsLast(m) ==
  /\ Disciplined => m \in Allocated
  /\ images' = IF m \in Registered
               THEN [Removed(images, imageCount, m)
                       EXCEPT ![FirstAt(images, imageCount, m)] = NULL]
               ELSE images
  /\ imageCount' = CountAfter(images, imageCount, m)
  /\ Unlists(m)
  /\ UNCHANGED <<handle, dlRefs, client, peak>>
LastAt(m) ==
  LET found == IndexesOf(images, imageCount, m)
  IN CHOOSE k \in found : \A j \in found : j <= k
Fault_RemoveImage_LastMatch(m) ==
  /\ Disciplined => m \in Allocated
  /\ images' = IF m \in Registered THEN ShiftDown(images, imageCount, LastAt(m))
               ELSE images
  /\ imageCount' = CountAfter(images, imageCount, m)
  /\ Unlists(m)
  /\ UNCHANGED <<handle, dlRefs, client, peak>>
Fault_RemoveImage_DropsLast(m) ==
  /\ Disciplined => m \in Allocated
  /\ imageCount' = CountAfter(images, imageCount, m)
  /\ Unlists(m)
  /\ UNCHANGED <<images, handle, dlRefs, client, peak>>

(* remove_image takes out the first match; it compares pointers only, so   *)
(* an undisciplined client may call it for an image already unloaded.      *)
LPNUdyld_remove_image(m) ==
  /\ Disciplined => m \in Allocated
  /\ images' = Removed(images, imageCount, m)
  /\ imageCount' = CountAfter(images, imageCount, m)
  /\ Unlists(m)
  /\ UNCHANGED <<handle, dlRefs, client, peak>>

(* What a caller of LPNUdyld_get_all_images can see of the table.          *)
WalkEnds == {k \in ImageSlots : images[k] = NULL}
Walked == {k \in ImageSlots : \A j \in 0 .. k : images[j] # NULL}

Next ==
  \/ \E p \in Paths, m \in Images : LPNUdyld_load(p, m)
  \/ \E p \in Paths : LoadFails(p)
  \/ \E m \in Images : LPNUdyld_unload(m)
  \/ \E m \in Images : LPNUdyld_add_image(m)
  \/ \E m \in Images : LPNUdyld_remove_image(m)

Spec == Init /\ [][Next]_dvars

-----------------------------------------------------------------------------
(* Properties.                                                             *)

ImagesOf(p) == {m \in Images : handle[m] = p}

(* Every dlopen of an image is matched by the dlclose of its unload,       *)
(* whatever happened to the table in between.                              *)
RefsBalanced == \A p \in Paths : dlRefs[p] = Cardinality(ImagesOf(p))

(* The last slot is never written, so that a walk of the table handed out  *)
(* by LPNUdyld_get_all_images stops inside the array.                      *)
SentinelKept == images[MaxImages] = NULL

(* A walk of the table sees as many slots as were ever filled at once: it  *)
(* misses no registered image, and after a removal it still sees the       *)
(* pointers the shift left behind.                                         *)
WalkSeesPeak == imageCount <= peak /\ Walked = 0 .. peak - 1

(* Whatever clients do, the table lists what they have added, in the order *)
(* of the additions: an image that was added twice is listed twice, a      *)
(* removal takes the older entry, and nobody else's entry goes or moves.   *)
TableAsAdded ==
  /\ Len(added) = imageCount
  /\ \A k \in 1 .. imageCount : images[k - 1] = added[k]

(* For clients that add an image once and remove it before they unload it, *)
(* every registered pointer is an allocated image, and registered once.    *)
RegisteredLive ==
  Disciplined => Registered \subseteq Allocated /\ NoDuplicates(images, imageCount)
=============================================================================
