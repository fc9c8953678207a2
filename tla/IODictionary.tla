---------------------------- MODULE IODictionary ----------------------------
(***************************************************************************)
(* LPNUIODictionary of lpnu/iokit/lpnu_iokit.c: two parallel arrays of     *)
(* Capacity entries, filled from the front and searched by string          *)
(* comparison.  A key is stored as the caller's pointer, not as a copy, so *)
(* a caller that writes another string into a key buffer changes the key   *)
(* of the entry.  A "stable" caller does not do this to a buffer that the  *)
(* dictionary holds.                                                       *)
(*                                                                         *)
(* Create does not check the two arrays.  When one could not be allocated  *)
(* the first store writes through a null pointer, which ends the process:  *)
(* the model stops there.                                                  *)
(***************************************************************************)
EXTENDS Integers, FiniteSets, Pointers

CONSTANTS
  Buffers,      \* the callers' key buffers
  Keys,         \* strings
  Values,       \* pointers stored as values; NULL may be one of them
  Absent,       \* not a value: no entry
  Capacity,     \* dict->capacity (16 in the code)
  Callers       \* kinds of caller: "stable", "careless"

ASSUME BuffersAssumption == NULL \notin Buffers
ASSUME ValuesAssumption == NULL \in Values /\ Absent \notin Values
ASSUME CapacityAssumption == Capacity \in Nat

VARIABLES
  caller,       \* the kind of caller; it does not change
  text,         \* the string in every buffer
  keys,         \* dict->keys
  values,       \* dict->values
  count,        \* dict->count
  arrays,       \* which of the two arrays are allocated
  crashed,      \* has the process died in a store
  last          \* the string and the value of the last Set (history)

cvars == <<caller, text, keys, values, count, arrays, crashed, last>>

Indexes == 0 .. Capacity - 1

StableKeys == caller = "stable"

DictTypeOK ==
  /\ caller \in Callers
  /\ text \in [Buffers -> Keys]
  /\ keys \in [Indexes -> Buffers \union {NULL}]
  /\ values \in [Indexes -> Values]
  /\ count \in 0 .. Capacity
  /\ arrays \subseteq {"keys", "values"}
  /\ crashed \in BOOLEAN
  /\ last \in {<<>>} \union Keys \X Values

LPNUIODictionaryCreate ==
  /\ arrays \in SUBSET {"keys", "values"}
  /\ keys = [k \in Indexes |-> NULL]
  /\ values = [k \in Indexes |-> NULL]
  /\ count = 0

DictInit ==
  /\ LPNUIODictionaryCreate
  /\ caller \in Callers
  /\ text \in [Buffers -> Keys]
  /\ crashed = FALSE
  /\ last = <<>>

-----------------------------------------------------------------------------
(* The operations.                                                         *)

(* Entries whose key is the string s now, and the one the loops stop at. *)
Matches(s) == {k \in 0 .. count - 1 : text[keys[k]] = s}
FirstMatch(s) == CHOOSE k \in Matches(s) : \A j \in Matches(s) : k <= j

LPNUIODictionaryCopy(s) ==
  IF Matches(s) = {} THEN NULL ELSE values[FirstMatch(s)]

(* A fault of the overwrite: the value goes to the newest entry.           *)
Fault_Overwrite_Newest(b, v) ==
  /\ values' = [values EXCEPT ![count - 1] = v]
  /\ UNCHANGED <<keys, count, crashed>>

Overwrite(b, v) ==
  /\ values' = [values EXCEPT ![FirstMatch(text[b])] = v]
  /\ UNCHANGED <<keys, count, crashed>>

StoreKey(b) ==
  keys' = IF "keys" \in arrays THEN [keys EXCEPT ![count] = b] ELSE keys

(* A fault of the store: a missing array is skipped, the entry counted.    *)
Fault_TakeSlot_SkipsMissing(b, v) ==
  /\ StoreKey(b)
  /\ values' = IF "values" \in arrays THEN [values EXCEPT ![count] = v] ELSE values
  /\ count' = count + 1
  /\ UNCHANGED crashed

(* The key is written, then the value, then the count. *)
TakeSlot(b, v) ==
  /\ StoreKey(b)
  /\ IF arrays = {"keys", "values"}
     THEN /\ values' = [values EXCEPT ![count] = v]
          /\ count' = count + 1
          /\ UNCHANGED crashed
     ELSE crashed' = TRUE /\ UNCHANGED <<values, count>>

(* Without room nothing is stored, and Set still reports success.          *)
AppendEntry(b, v) ==
  \/ count < Capacity /\ TakeSlot(b, v)
  \/ count >= Capacity /\ UNCHANGED <<keys, values, count, crashed>>

(* Faults of Set: it appends without a search, or overwrites the last match. *)
Fault_Set_NoSearch(b, v) == AppendEntry(b, v)
Fault_Set_LastMatch(b, v) ==
  IF Matches(text[b]) = {} THEN AppendEntry(b, v)
  ELSE /\ values' = [values EXCEPT ![CHOOSE k \in Matches(text[b]) :
                                       \A j \in Matches(text[b]) : k >= j] = v]
       /\ UNCHANGED <<keys, count, crashed>>

LPNUIODictionarySet(b, v) ==
  IF Matches(text[b]) = {} THEN AppendEntry(b, v) ELSE Overwrite(b, v)

(* A caller writes another string into its buffer. *)
RewriteBuffer(b, s) ==
  /\ StableKeys => \A k \in 0 .. count - 1 : keys[k] # b
  /\ text' = [text EXCEPT ![b] = s]
  /\ UNCHANGED <<caller, keys, values, count, arrays, crashed, last>>

Set ==
  \E b \in Buffers, v \in Values :
    /\ LPNUIODictionarySet(b, v)
    /\ last' = IF crashed' THEN last ELSE <<text[b], v>>
    /\ UNCHANGED <<caller, text, arrays>>

DictNext ==
  /\ ~crashed
  /\ Set \/ \E b \in Buffers, s \in Keys : RewriteBuffer(b, s)

DictSpec == DictInit /\ [][DictNext]_cvars

-----------------------------------------------------------------------------
(* Properties.                                                             *)

(* With stable keys the dictionary is a bounded map: what a lookup finds   *)
(* is what was stored last under that string, for as long as it lives.     *)
(* (The map of a careless caller is left as it was at the start.)          *)
Found(s) == IF Matches(s) = {} THEN Absent ELSE values[FirstMatch(s)]
Map == INSTANCE BoundedMap WITH
  map  <- [s \in Keys |-> IF StableKeys THEN Found(s) ELSE Absent],
  last <- IF StableKeys THEN last ELSE <<>>
ImplementsMap == Map!MSpec

(* Whatever callers do to their buffers, a lookup right after a store that *)
(* had room, or that found an entry, finds the stored value (unless the    *)
(* store ended the process).                                               *)
HasRoomFor(s) == Matches(s) # {} \/ count < Capacity
StoredIsFound ==
  \A b \in Buffers, v \in Values :
    /\ HasRoomFor(text[b])
    /\ LPNUIODictionarySet(b, v) /\ UNCHANGED text /\ ~crashed'
    => LPNUIODictionaryCopy(text[b])' = v
ReadYourWrite == [][StoredIsFound]_cvars

(* A dictionary without one of its arrays can be looked up for as long as  *)
(* the process lives: every entry the loops of Set and Copy visit is in    *)
(* both arrays, and only the first store of such a dictionary fails.       *)
Visited == 0 .. count - 1
HalfCreatedReadable ==
  /\ Visited # {} => arrays = {"keys", "values"}
  /\ \A k \in Visited : k \in Indexes /\ keys[k] # NULL
  /\ crashed => Visited = {} /\ arrays # {"keys", "values"}

(* With stable keys no two entries have the same key.                      *)
DistinctKeys ==
  StableKeys =>
    \A j, k \in 0 .. count - 1 : text[keys[j]] = text[keys[k]] => j = k
=============================================================================
