------------------------------ MODULE PtrTable ------------------------------
(***************************************************************************)
(* The fixed-size pointer tables of the user-space loaders, g_loaded_kexts *)
(* (lpnu_kext_runtime.c) and g_images (lpnu_dyld.c).  A table is an array  *)
(* t with domain 0 .. N and a count n kept beside it.  The entries t[0] .. *)
(* t[n-1] are the registered ones; whatever an earlier removal left at n   *)
(* and above stays in the array.                                           *)
(***************************************************************************)
EXTENDS Integers

(* The registered entries. *)
Entries(t, n) == {t[k] : k \in 0 .. n - 1}

(* Indexes of the registered prefix that hold x. *)
IndexesOf(t, n, x) == {k \in 0 .. n - 1 : t[k] = x}

(* The entry at which the search loop stops: the first match. *)
FirstAt(t, n, x) ==
  CHOOSE k \in IndexesOf(t, n, x) : \A j \in IndexesOf(t, n, x) : k <= j

(* Registration: the next free slot takes x. *)
Put(t, n, x) == [t EXCEPT ![n] = x]

(* Removal of the entry at index f: the entries after it move down one     *)
(* place, and slot n-1 keeps its old pointer.                              *)
ShiftDown(t, n, f) ==
  [k \in DOMAIN t |-> IF f <= k /\ k < n - 1 THEN t[k + 1] ELSE t[k]]

(* The whole removal loop: only the first match goes, none is no change.   *)
Removed(t, n, x) ==
  IF x \in Entries(t, n) THEN ShiftDown(t, n, FirstAt(t, n, x)) ELSE t

CountAfter(t, n, x) == IF x \in Entries(t, n) THEN n - 1 ELSE n

(* No pointer is registered twice. *)
NoDuplicates(t, n) == \A j, k \in 0 .. n - 1 : t[j] = t[k] => j = k
(* x was registered before y and both still are. *)
Before(t, n, x, y) == \E j, k \in 0 .. n - 1 : j < k /\ t[j] = x /\ t[k] = y
=============================================================================
