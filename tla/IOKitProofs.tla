---------------------------- MODULE IOKitProofs -----------------------------
(***************************************************************************)
(* Theorems about three components of lpnu/iokit/lpnu_iokit.c, for any     *)
(* sets of buffers, strings, values and services and any capacities: the   *)
(* dictionary, the tree of services, with careful clients and with others, *)
(* and their registration.                                                 *)
(***************************************************************************)
EXTENDS IODictionary, IOService, ServiceRegistration, PtrTableProofs

-----------------------------------------------------------------------------
(* The dictionary.                                                         *)

DictInv == DictTypeOK /\ HalfCreatedReadable /\ DistinctKeys

(* A choice of the least member of a set of naturals finds it.             *)
LEMMA LeastChosen ==
  ASSUME NEW M \in SUBSET Nat, M # {}
  PROVE  LET m == CHOOSE k \in M : \A j \in M : k <= j
         IN  m \in M /\ \A j \in M : m <= j
BY LeastNatural

LEMMA FirstMatchIsMatch ==
  ASSUME DictTypeOK, NEW s, Matches(s) # {}
  PROVE  FirstMatch(s) \in Matches(s)
<1>1. Matches(s) \in SUBSET Nat
  BY DEF Matches, DictTypeOK
<1> QED
  BY <1>1, LeastChosen DEF FirstMatch

(* The four outcomes of a call of Set.                                     *)
Finds(b, v) ==
  /\ Matches(text[b]) # {}
  /\ values' = [values EXCEPT ![FirstMatch(text[b])] = v]
  /\ UNCHANGED <<keys, count, crashed>>
Adds(b, v) ==
  /\ Matches(text[b]) = {} /\ count < Capacity /\ arrays = {"keys", "values"}
  /\ keys' = [keys EXCEPT ![count] = b]
  /\ values' = [values EXCEPT ![count] = v]
  /\ count' = count + 1
  /\ UNCHANGED crashed
Crashes(b) ==
  /\ Matches(text[b]) = {} /\ arrays # {"keys", "values"} /\ crashed' = TRUE
  /\ keys' \in {keys, [keys EXCEPT ![count] = b]}
  /\ UNCHANGED <<values, count>>
Drops(b) ==
  /\ Matches(text[b]) = {} /\ count = Capacity
  /\ UNCHANGED <<keys, values, count, crashed>>

LEMMA SetOutcomes ==
  ASSUME DictTypeOK, NEW b \in Buffers, NEW v \in Values, LPNUIODictionarySet(b, v)
  PROVE  Finds(b, v) \/ Adds(b, v) \/ Crashes(b) \/ Drops(b)
<1>1. CASE Matches(text[b]) # {}
  BY <1>1 DEF LPNUIODictionarySet, Overwrite, Finds
<1>2. CASE Matches(text[b]) = {} /\ count < Capacity
  <2>1. TakeSlot(b, v)
    BY <1>2, CapacityAssumption DEF LPNUIODictionarySet, AppendEntry, DictTypeOK
  <2>2. CASE arrays = {"keys", "values"}
    BY <1>2, <2>1, <2>2 DEF TakeSlot, StoreKey, Adds
  <2>3. CASE arrays # {"keys", "values"}
    BY <1>2, <2>1, <2>3 DEF TakeSlot, StoreKey, Crashes
  <2> QED
    BY <2>2, <2>3
<1>3. CASE Matches(text[b]) = {} /\ ~(count < Capacity)
  <2>1. count = Capacity
    BY <1>3, CapacityAssumption DEF DictTypeOK
  <2> QED
    BY <1>3, <2>1 DEF LPNUIODictionarySet, AppendEntry, Drops
<1> QED
  BY <1>1, <1>2, <1>3

LEMMA InitDictInv == DictInit => DictInv
<1> SUFFICES ASSUME DictInit PROVE DictInv
  OBVIOUS
<1> USE DEF DictInit, LPNUIODictionaryCreate
<1>1. DictTypeOK
  <2>1. keys \in [Indexes -> Buffers \union {NULL}] /\ values \in [Indexes -> Values]
    BY ValuesAssumption
  <2>2. last \in {<<>>} \union Keys \X Values
    BY Zenon
  <2>3. arrays \subseteq {"keys", "values"} /\ count \in 0 .. Capacity
    BY CapacityAssumption
  <2> QED
    BY <2>1, <2>2, <2>3, Zenon DEF DictTypeOK
<1>2. Visited = {}
  BY DEF Visited
<1>3. HalfCreatedReadable /\ DistinctKeys
  BY <1>2 DEF HalfCreatedReadable, DistinctKeys, Visited
<1> QED
  BY <1>1, <1>3 DEF DictInv

(* A call of Set keeps the invariant.                                      *)
LEMMA SetDictInv ==
  ASSUME DictInv, ~crashed, NEW b \in Buffers, NEW v \in Values,
         LPNUIODictionarySet(b, v),
         last' = IF crashed' THEN last ELSE <<text[b], v>>,
         UNCHANGED <<caller, text, arrays>>
  PROVE  DictInv'
<1> USE CapacityAssumption DEF DictInv, DictTypeOK, HalfCreatedReadable,
        DistinctKeys, Visited, Indexes, StableKeys
<1>0. last' \in {<<>>} \union Keys \X Values
  OBVIOUS
<1>1. CASE Finds(b, v)
  <2>1. values' \in [Indexes -> Values]
    BY <1>1 DEF Finds
  <2> QED
    BY <1>0, <1>1, <2>1 DEF Finds
<1>2. CASE Adds(b, v)
  <2>1. \A k \in 0 .. count - 1 : text[keys[k]] # text[b]
    BY <1>2 DEF Adds, Matches
  <2>2. 0 .. count' - 1 = Visited \union {count}
    BY <1>2 DEF Adds
  <2>3. \A k \in Visited : keys'[k] = keys[k] /\ keys'[count] = b
    BY <1>2 DEF Adds
  <2>4. DictTypeOK'
    BY <1>0, <1>2 DEF Adds
  <2>5. HalfCreatedReadable'
    BY <1>2, BuffersAssumption DEF Adds
  <2>6. DistinctKeys'
    BY <1>2, <2>1, <2>2, <2>3 DEF Adds
  <2> QED
    BY <2>4, <2>5, <2>6
<1>3. CASE Crashes(b)
  BY <1>0, <1>3 DEF Crashes
<1>4. CASE Drops(b)
  BY <1>0, <1>4 DEF Drops
<1> QED
  BY <1>1, <1>2, <1>3, <1>4, SetOutcomes

LEMMA NextDictInv == DictInv /\ [DictNext]_cvars => DictInv'
<1> SUFFICES ASSUME DictInv, [DictNext]_cvars PROVE DictInv'
  OBVIOUS
<1>1. CASE ~crashed /\ Set
  BY <1>1, SetDictInv DEF Set
<1>2. ASSUME NEW b \in Buffers, NEW s \in Keys, RewriteBuffer(b, s), ~crashed
      PROVE  DictInv'
  <2>1. text' \in [Buffers -> Keys]
    BY <1>2 DEF RewriteBuffer, DictInv, DictTypeOK
  <2>2. DictTypeOK' /\ HalfCreatedReadable'
    BY <1>2, <2>1 DEF RewriteBuffer, DictInv, DictTypeOK, HalfCreatedReadable, Visited
  <2>3. DistinctKeys'
    <3> SUFFICES ASSUME StableKeys PROVE DistinctKeys'
      BY <1>2 DEF RewriteBuffer, DistinctKeys, StableKeys
    <3>1. \A k \in 0 .. count - 1 : keys[k] \in Buffers /\ text'[keys[k]] = text[keys[k]]
      BY <1>2 DEF RewriteBuffer, DictInv, DictTypeOK, HalfCreatedReadable, Visited
    <3> QED
      BY <1>2, <3>1 DEF RewriteBuffer, DictInv, DistinctKeys, StableKeys
  <2> QED
    BY <2>2, <2>3 DEF DictInv
<1>3. CASE UNCHANGED cvars
  BY <1>3 DEF cvars, DictInv, DictTypeOK, HalfCreatedReadable, DistinctKeys, Visited,
              StableKeys
<1> QED
  BY <1>1, <1>2, <1>3 DEF DictNext

(* The inductive invariant of the dictionary, for every capacity, with     *)
(* stable callers and with careless ones.                                  *)
THEOREM DictionaryInvariant == DictSpec => []DictInv
BY InitDictInv, NextDictInv, PTL DEF DictSpec

(* However callers treat their buffers, a dictionary without one of its    *)
(* arrays has no entry until its first store ends the process, and every   *)
(* entry the loops visit is inside the arrays.                             *)
THEOREM DictionaryReadable == DictSpec => []HalfCreatedReadable
<1>1. DictInv => HalfCreatedReadable
  BY DEF DictInv
<1> QED
  BY <1>1, DictionaryInvariant, PTL

(* With stable keys no string is the key of two entries.                   *)
THEOREM DictionaryDistinctKeys == DictSpec => []DistinctKeys
<1>1. DictInv => DistinctKeys
  BY DEF DictInv
<1> QED
  BY <1>1, DictionaryInvariant, PTL

LEMMA StoreIsFound ==
  ASSUME DictInv, NEW b \in Buffers, NEW v \in Values, HasRoomFor(text[b]),
         LPNUIODictionarySet(b, v), UNCHANGED text, ~crashed'
  PROVE  LPNUIODictionaryCopy(text[b])' = v
<1> USE DEF DictInv, DictTypeOK
<1> DEFINE s == text[b]
<1>1. CASE Finds(b, v)
  <2>1. Matches(s)' = Matches(s)
    BY <1>1 DEF Finds, Matches
  <2>2. FirstMatch(s) \in Indexes
    BY <1>1, FirstMatchIsMatch DEF Finds, Matches, HalfCreatedReadable, Visited
  <2>3. values'[FirstMatch(s)] = v
    BY <1>1, <2>2 DEF Finds
  <2>4. FirstMatch(s)' = FirstMatch(s)
    BY <2>1 DEF FirstMatch
  <2> QED
    BY <1>1, <2>1, <2>3, <2>4 DEF LPNUIODictionaryCopy, Finds
<1>2. CASE Adds(b, v)
  <2>1. Matches(s)' = {count}
    BY <1>2, CapacityAssumption DEF Adds, Matches, Indexes
  <2>2. FirstMatch(s)' = count
    BY <2>1, LeastChosen DEF FirstMatch
  <2>3. values'[count] = v
    BY <1>2, CapacityAssumption DEF Adds, Indexes
  <2> QED
    BY <2>1, <2>2, <2>3 DEF LPNUIODictionaryCopy
<1>3. CASE Crashes(b)
  BY <1>3 DEF Crashes
<1>4. CASE Drops(b)
  BY <1>4 DEF Drops, HasRoomFor
<1> QED
  BY <1>1, <1>2, <1>3, <1>4, SetOutcomes

(* A look-up right after a store that had room finds the stored value,     *)
(* whatever strings callers have written into the key buffers before.      *)
THEOREM DictionaryReadsWrites == DictSpec => ReadYourWrite
<1>1. DictInv /\ [DictNext]_cvars => [StoredIsFound]_cvars
  BY StoreIsFound DEF StoredIsFound
<1> QED
  BY <1>1, DictionaryInvariant, PTL DEF DictSpec, ReadYourWrite

(* BoundedMap counts as the dictionary does.                               *)
LEMMA SameCardinality == ASSUME NEW S PROVE Map!Cardinality(S) = Cardinality(S)
BY DEF Map!Cardinality, Cardinality

(* The strings that are found, and how many they are.                      *)
LEMMA FoundStrings ==
  ASSUME DictInv, StableKeys
  PROVE  /\ \A s \in Keys : Found(s) \in Values \/ Matches(s) = {}
         /\ Map!Domain = {s \in Keys : Matches(s) # {}}
         /\ Cardinality(Map!Domain) = count
<1> USE DEF DictInv, DictTypeOK
<1> DEFINE t == [k \in Indexes |-> text[keys[k]]]
<1>1. \A s \in Keys : Matches(s) # {} => Found(s) \in Values
  BY FirstMatchIsMatch DEF Found, Matches, HalfCreatedReadable, Visited
<1>2. Map!Domain = {s \in Keys : Matches(s) # {}}
  BY <1>1, ValuesAssumption DEF Map!Domain, Found
<1>3. IsTable(t, count)
  BY CapacityAssumption DEF IsTable, Indexes
<1>4. \A k \in 0 .. count - 1 : t[k] = text[keys[k]] /\ t[k] \in Keys
  BY CapacityAssumption DEF Indexes, HalfCreatedReadable, Visited
<1>5. Entries(t, count) = Map!Domain
  <2> HIDE DEF t
  <2> QED
    BY <1>2, <1>4 DEF Entries, Matches
<1>6. NoDuplicates(t, count)
  <2> HIDE DEF t
  <2> QED
    BY <1>4 DEF NoDuplicates, DistinctKeys
<1>7. Cardinality(Map!Domain) = count
  <2> HIDE DEF t
  <2> QED
    BY <1>3, <1>5, <1>6, EntriesCardinality
<1> QED
  BY <1>1, <1>2, <1>7 DEF Found

(* A call of Set by a stable caller stores in the map, or ends the process *)
(* and leaves the map as it is.                                            *)
LEMMA SetStores ==
  ASSUME DictInv, StableKeys, ~crashed, NEW b \in Buffers, NEW v \in Values,
         LPNUIODictionarySet(b, v),
         last' = IF crashed' THEN last ELSE <<text[b], v>>,
         UNCHANGED <<caller, text, arrays>>
  PROVE  Map!Store(text[b], v) \/ UNCHANGED Map!mvars
<1> USE DEF DictInv, DictTypeOK, StableKeys
<1> DEFINE s == text[b]
           map == [x \in Keys |-> Found(x)]
<1>0. /\ s \in Keys
      /\ Map!Domain = {x \in Keys : Matches(x) # {}}
      /\ Map!Cardinality(Map!Domain) = count
  BY FoundStrings, SameCardinality
<1>1. CASE Finds(b, v)
  <2>1. \A x \in Keys : Matches(x)' = Matches(x) /\ FirstMatch(x)' = FirstMatch(x)
    BY <1>1 DEF Finds, Matches, FirstMatch
  <2>2. \A x \in Keys : Matches(x) # {} =>
          FirstMatch(x) \in Indexes /\ text[keys[FirstMatch(x)]] = x
    BY FirstMatchIsMatch DEF Matches, HalfCreatedReadable, Visited
  <2>3. Found(s)' = v /\ \A x \in Keys \ {s} : Found(x)' = Found(x)
    BY <1>1, <2>1, <2>2 DEF Finds, Found
  <2>4. map' = [map EXCEPT ![s] = v]
    BY <1>0, <2>3
  <2> QED
    BY <1>0, <1>1, <2>4 DEF Map!Store, Finds
<1>2. CASE Adds(b, v)
  <2>1. Matches(s)' = {count} /\ \A x \in Keys \ {s} : Matches(x)' = Matches(x)
    BY <1>2, CapacityAssumption DEF Adds, Matches, Indexes
  <2>2. FirstMatch(s)' = count /\ \A x \in Keys \ {s} : FirstMatch(x)' = FirstMatch(x)
    BY <2>1, LeastChosen DEF FirstMatch
  <2>3. \A x \in Keys : Matches(x) # {} => FirstMatch(x) \in 0 .. count - 1
    BY FirstMatchIsMatch DEF Matches
  <2>4. values'[count] = v /\ \A k \in 0 .. count - 1 : values'[k] = values[k]
    BY <1>2, CapacityAssumption DEF Adds, Indexes
  <2>5. Found(s)' = v /\ \A x \in Keys \ {s} : Found(x)' = Found(x)
    BY <2>1, <2>2, <2>3, <2>4 DEF Found
  <2>6. map' = [map EXCEPT ![s] = v]
    BY <1>0, <2>5
  <2> QED
    BY <1>0, <1>2, <2>6 DEF Map!Store, Adds
<1>3. CASE Crashes(b)
  <2>1. count = 0
    <3>1. 0 \notin Visited
      BY <1>3 DEF Crashes, HalfCreatedReadable
    <3> QED
      BY <3>1 DEF Visited
  <2>2. \A x \in Keys : Matches(x)' = Matches(x) /\ Found(x)' = Found(x)
    BY <1>3, <2>1 DEF Crashes, Matches, Found
  <2> QED
    BY <1>3, <2>2 DEF Map!mvars, Crashes
<1>4. CASE Drops(b)
  <2>1. \A x \in Keys : Found(x)' = Found(x)
    BY <1>4 DEF Drops, Matches, FirstMatch, Found
  <2>2. map' = map
    BY <2>1
  <2> QED
    BY <1>0, <1>4, <2>2, CapacityAssumption DEF Map!Store, Drops
<1> QED
  BY <1>1, <1>2, <1>3, <1>4, SetOutcomes

(* The dictionary implements the bounded map: with stable callers every    *)
(* call of Set stores in the map, also when it finds the dictionary full   *)
(* and stores nothing, and every other step leaves the map as it is.       *)
THEOREM DictionaryImplementsMap == DictSpec => ImplementsMap
<1>1. DictInit => Map!MInit
  BY DEF DictInit, LPNUIODictionaryCreate, Map!MInit, Found, Matches
<1>2. ASSUME DictInv, [DictNext]_cvars
      PROVE  [Map!MNext]_Map!mvars
  <2>1. CASE ~StableKeys
    <3>1. ~StableKeys'
      BY <1>2, <2>1 DEF DictNext, Set, RewriteBuffer, cvars, StableKeys
    <3> QED
      BY <2>1, <3>1 DEF Map!mvars
  <2>2. CASE StableKeys /\ ~crashed /\ Set
    <3>1. PICK b \in Buffers, v \in Values :
            Map!Store(text[b], v) \/ UNCHANGED Map!mvars
      BY <1>2, <2>2, SetStores DEF Set
    <3>2. text[b] \in Keys
      BY <1>2 DEF DictInv, DictTypeOK
    <3> QED
      BY <3>1, <3>2 DEF Map!MNext
  <2>3. ASSUME StableKeys, NEW b \in Buffers, NEW r \in Keys, RewriteBuffer(b, r)
        PROVE  UNCHANGED Map!mvars
    <3>1. \A k \in 0 .. count - 1 : keys[k] \in Buffers /\ keys[k] # b
      BY <1>2, <2>3 DEF RewriteBuffer, DictInv, DictTypeOK, HalfCreatedReadable, Visited
    <3>2. \A s \in Keys : Matches(s)' = Matches(s)
      BY <1>2, <2>3, <3>1 DEF RewriteBuffer, DictInv, DictTypeOK, Matches
    <3>3. \A s \in Keys : FirstMatch(s)' = FirstMatch(s)
      BY <3>2 DEF FirstMatch
    <3>4. \A s \in Keys : Found(s)' = Found(s)
      BY <2>3, <3>2, <3>3 DEF RewriteBuffer, Found
    <3> QED
      BY <2>3, <3>4 DEF Map!mvars, RewriteBuffer, StableKeys
  <2>4. CASE UNCHANGED cvars
    BY <2>4 DEF cvars, Map!mvars, Found, Matches, FirstMatch, StableKeys
  <2> QED
    BY <1>2, <2>1, <2>2, <2>3, <2>4 DEF DictNext
<1> QED
  BY <1>1, <1>2, DictionaryInvariant, PTL DEF DictSpec, ImplementsMap, Map!MSpec

-----------------------------------------------------------------------------
(* The tree of services.                                                   *)

(* No set of services closes a circle: one of them has no link from the    *)
(* others, as a child or as a sibling.                                     *)
First(S) == {s \in S : \A u \in S : child[u] # s /\ sibling[u] # s}
ListsEnd == \A S \in SUBSET live : S # {} => First(S) # {}

(* Links of live services lead to live services, as careful clients see to. *)
LinksLive ==
  /\ live \subseteq Services
  /\ parent \in Links /\ child \in Links /\ sibling \in Links
  /\ \A s \in live : {parent[s], child[s], sibling[s]} \subseteq live \union {NULL}

(* The invariant of the tree of a careful client.                          *)
CareInv == LinksLive /\ ListsEnd

LEMMA InitCareInv == TreeInit => CareInv
BY DEF TreeInit, CareInv, LinksLive, Links, ListsEnd

(* What Below contains is closed under the links it follows.               *)
LEMMA BelowClosed ==
  ASSUME LinksLive, NEW s \in Services
  PROVE  /\ s \in Below(s)
         /\ \A v \in Below(s) : /\ child[v] \in Below(s) \union {NULL}
                                /\ v # s => sibling[v] \in Below(s) \union {NULL}
<1>1. s \in Below(s)
  BY DEF Below
<1>2. ASSUME NEW v \in Below(s)
      PROVE  /\ child[v] \in Below(s) \union {NULL}
             /\ v # s => sibling[v] \in Below(s) \union {NULL}
  <2>1. child[v] \in Services \union {NULL} /\ sibling[v] \in Services \union {NULL}
    BY DEF Below, LinksLive, Links
  <2>2. ASSUME child[v] # NULL PROVE child[v] \in Below(s)
    BY <2>1, <2>2 DEF Below
  <2>3. ASSUME v # s, sibling[v] # NULL PROVE sibling[v] \in Below(s)
    BY <2>1, <2>3 DEF Below
  <2> QED
    BY <2>2, <2>3
<1> QED
  BY <1>1, <1>2

LEMMA CreateCareInv ==
  ASSUME CareInv, NEW s \in Services, LPNUIOServiceCreate(s)
  PROVE  CareInv'
<1> USE DEF CareInv, LinksLive, Links, LPNUIOServiceCreate
<1>1. \A u \in live : /\ u # s
                      /\ parent'[u] = parent[u] /\ child'[u] = child[u]
                      /\ sibling'[u] = sibling[u]
                      /\ {parent[u], child[u], sibling[u]} \subseteq live \union {NULL}
  OBVIOUS
<1>2. parent'[s] = NULL /\ child'[s] = NULL /\ sibling'[s] = NULL
  OBVIOUS
<1>3. LinksLive'
  BY <1>1, <1>2
<1>4. ListsEnd'
  <2> SUFFICES ASSUME NEW S \in SUBSET live', S # {} PROVE First(S)' # {}
    BY DEF ListsEnd
  <2>1. CASE s \in S
    <3>1. s \in First(S)'
      BY <1>1, <1>2, <2>1, ServicesAssumption DEF First
    <3> QED
      BY <3>1
  <2>2. CASE s \notin S
    <3>1. S \subseteq live
      BY <2>2
    <3>2. First(S)' = First(S)
      BY <1>1, <3>1 DEF First
    <3> QED
      BY <3>1, <3>2 DEF ListsEnd
  <2> QED
    BY <2>1, <2>2
<1> QED
  BY <1>3, <1>4

LEMMA DestroyCareInv ==
  ASSUME CareInv, NEW s \in Services, MayDestroy(s),
         LPNUIOServiceDestroy(s)
  PROVE  CareInv'
<1> USE DEF CareInv, MayDestroy, LPNUIOServiceDestroy
<1>1. LinksLive'
  BY DEF LinksLive, Unlisted
<1>2. ListsEnd'
  BY DEF ListsEnd, First
<1> QED
  BY <1>1, <1>2

LEMMA RemoveChildCareInv ==
  ASSUME CareInv, NEW p \in Services, NEW c \in Services, LPNUIOServiceRemoveChild(p, c)
  PROVE  CareInv'
<1> USE DEF CareInv, LinksLive, Links, LPNUIOServiceRemoveChild
<1>1. \A u \in Services : parent'[u] = IF u = c THEN NULL ELSE parent[u]
  OBVIOUS
<1>2. LinksLive'
  BY <1>1
<1>3. ListsEnd'
  BY DEF ListsEnd, First
<1> QED
  BY <1>2, <1>3

(* AddChild: a circle through the new child would need the parent below it. *)
LEMMA AddChildCareInv ==
  ASSUME CareInv, NEW p \in Services, NEW c \in Services, MayAdd(p, c),
         LPNUIOServiceAddChild(p, c)
  PROVE  CareInv'
<1> USE DEF CareInv, LinksLive, Links
<1>1. /\ p \in live /\ c \in live /\ live' = live
      /\ c \in Below(c) /\ p \notin Below(c) /\ p # c
      /\ \A u \in live : child[u] # c /\ sibling[u] # c
  BY BelowClosed DEF MayAdd, LPNUIOServiceAddChild, Unlisted
<1>2. \A u \in Services : /\ parent'[u] = IF u = c THEN p ELSE parent[u]
                          /\ sibling'[u] = IF u = c THEN child[p] ELSE sibling[u]
                          /\ child'[u] = IF u = p THEN c ELSE child[u]
  BY DEF MayAdd, LPNUIOServiceAddChild
<1>3. LinksLive'
  <2>1. parent' \in Links /\ child' \in Links /\ sibling' \in Links
    BY DEF MayAdd, LPNUIOServiceAddChild
  <2> QED
    BY <1>1, <1>2, <2>1
<1>4. ListsEnd'
  <2> SUFFICES ASSUME NEW S \in SUBSET live, S # {} PROVE First(S)' # {}
    BY <1>1 DEF ListsEnd
  <2>1. CASE c \notin S
    <3>1. PICK s \in First(S) : TRUE
      BY DEF ListsEnd
    <3>2. s \in First(S)'
      BY <1>2, <2>1, <3>1 DEF First
    <3> QED
      BY <3>2
  <2>2. CASE c \in S /\ p \notin S
    <3>1. c \in First(S)'
      BY <1>1, <1>2, <2>2 DEF First
    <3> QED
      BY <3>1
  <2>3. CASE c \in S /\ p \in S
    <3> DEFINE R == S \ Below(c)
    <3>1. p \in R /\ R \in SUBSET live
      BY <1>1, <2>3
    <3>2. PICK s \in First(R) : TRUE
      BY <3>1 DEF ListsEnd
    <3>3. s \in R /\ s # c /\ s # NULL
      BY <1>1, <3>1, <3>2, ServicesAssumption DEF First
    <3>4. \A u \in R : child[u] # s /\ sibling[u] # s
      BY <3>2 DEF First
    <3>5. \A u \in Below(c) : child[u] # s /\ (u # c => sibling[u] # s)
      <4>1. s \notin Below(c) \union {NULL}
        BY <3>3
      <4>2. \A u \in Below(c) : /\ child[u] \in Below(c) \union {NULL}
                                /\ u # c => sibling[u] \in Below(c) \union {NULL}
        BY BelowClosed
      <4> QED
        BY <4>1, <4>2
    <3>6. ASSUME NEW u \in S PROVE child'[u] # s /\ sibling'[u] # s
      BY <1>1, <1>2, <3>1, <3>3, <3>4, <3>5
    <3>7. s \in First(S)'
      BY <3>3, <3>6 DEF First
    <3> QED
      BY <3>7
  <2> QED
    BY <2>1, <2>2, <2>3
<1> QED
  BY <1>3, <1>4

-----------------------------------------------------------------------------
(* The lists of the tree are sequences.                                    *)

(* q is the list that starts at `first' and is linked by `next'.           *)
Linked(q, first, next) ==
  /\ q \in Seq(Services)
  /\ Len(q) = 0 => first = NULL
  /\ Len(q) > 0 => q[1] = first /\ next[q[Len(q)]] = NULL
  /\ \A k \in 1 .. Len(q) - 1 : q[k + 1] = next[q[k]]

(* A set of naturals without a least member is empty: the form in which    *)
(* induction is used below.                                                *)
LEMMA NoLeast ==
  ASSUME NEW M \in SUBSET Nat,
         ASSUME NEW n \in M, \A j \in M : n <= j PROVE FALSE
  PROVE  M = {}
BY LeastNatural

(* The recursive definition of a walk defines something: there are walks   *)
(* of every length, and they agree where both are defined.                 *)
LEMMA WalkExists ==
  ASSUME NEW first, NEW next
  PROVE  \E w : w = [n \in Nat |-> IF n = 0 THEN first ELSE After(w[n - 1], next)]
<1> DEFINE To(m, w) == \A k \in 0 .. m :
                          w[k] = IF k = 0 THEN first ELSE After(w[k - 1], next)
           Bad == {m \in Nat : ~ \E w : To(m, w)}
<1>1. ASSUME NEW m \in Bad, \A j \in Bad : m <= j PROVE FALSE
  <2>1. CASE m = 0
    <3>1. To(0, [k \in {0} |-> first])
      OBVIOUS
    <3> QED
      BY <2>1, <3>1
  <2>2. CASE m # 0
    <3>1. m - 1 \in Nat /\ m - 1 \notin Bad
      <4>1. m \in Nat
        BY <1>1
      <4> HIDE DEF Bad
      <4> QED
        BY <1>1, <2>2, <4>1
    <3>2. PICK w : To(m - 1, w)
      BY <3>1
    <3> DEFINE v == [k \in 0 .. m |-> IF k = m THEN After(w[m - 1], next) ELSE w[k]]
    <3>3. v[m] = After(w[m - 1], next) /\ \A k \in 0 .. m - 1 : v[k] = w[k]
      BY <3>1
    <3> HIDE DEF v
    <3>4. ASSUME NEW k \in 0 .. m
          PROVE  v[k] = IF k = 0 THEN first ELSE After(v[k - 1], next)
      <4>1. CASE k = m
        BY <2>2, <3>1, <3>3, <4>1
      <4>2. CASE k # m
        BY <3>1, <3>2, <3>3, <4>2
      <4> QED
        BY <4>1, <4>2
    <3>5. To(m, v)
      BY <3>4
    <3> QED
      BY <3>5
  <2> QED
    BY <2>1, <2>2
<1>2. Bad = {}
  <2> HIDE DEF Bad
  <2> QED
    BY <1>1, NoLeast DEF Bad
<1>3. ASSUME NEW m \in Nat, NEW n \in Nat, NEW v, NEW w, To(m, v), To(n, w),
             NEW i \in Nat, i <= m, i <= n
      PROVE  v[i] = w[i]
  <2> DEFINE Differ == {k \in Nat : k <= m /\ k <= n /\ v[k] # w[k]}
  <2>1. ASSUME NEW k \in Differ, \A j \in Differ : k <= j PROVE FALSE
    <3>1. k # 0
      BY <1>3
    <3>2. k - 1 \in Nat /\ k - 1 \notin Differ
      BY <2>1, <3>1
    <3>3. v[k - 1] = w[k - 1]
      BY <3>2
    <3> QED
      BY <1>3, <3>1, <3>3
  <2>2. Differ = {}
    <3> HIDE DEF Differ
    <3> QED
      BY <2>1, NoLeast DEF Differ
  <2> QED
    BY <1>3, <2>2
<1> DEFINE W(m) == CHOOSE w : To(m, w)
           u == [n \in Nat |-> W(n)[n]]
<1>4. \A m \in Nat : To(m, W(m))
  BY <1>2
<1> HIDE DEF W
<1>5. ASSUME NEW n \in Nat
      PROVE  u[n] = IF n = 0 THEN first ELSE After(u[n - 1], next)
  <2>1. CASE n = 0
    BY <1>4, <2>1
  <2>2. CASE n # 0
    <3>1. n - 1 \in Nat
      BY <2>2
    <3>2. u[n] = After(W(n)[n - 1], next)
      BY <1>4, <2>2
    <3>3. W(n)[n - 1] = W(n - 1)[n - 1]
      <4> HIDE DEF To
      <4> QED
        BY <1>3, <1>4, <3>1
    <3> QED
      BY <2>2, <3>1, <3>2, <3>3
  <2> QED
    BY <2>1, <2>2
<1>6. u = [n \in Nat |-> u[n]]
  OBVIOUS
<1> HIDE DEF u
<1>7. u = [n \in Nat |-> IF n = 0 THEN first ELSE After(u[n - 1], next)]
  BY <1>5, <1>6
<1> QED
  BY <1>7

(* The walk of a list, hop by hop. *)
LEMMA HopByHop ==
  ASSUME NEW p
  PROVE  /\ Hop(p)[0] = child[p]
         /\ \A n \in Nat : Hop(p)[n + 1] = After(Hop(p)[n], sibling)
<1> DEFINE Walk == CHOOSE w : w = [n \in Nat |-> IF n = 0 THEN child[p]
                                               ELSE After(w[n - 1], sibling)]
<1>0. Walk = [n \in Nat |-> IF n = 0 THEN child[p] ELSE After(Walk[n - 1], sibling)]
  BY WalkExists
<1>1. Hop(p) = Walk
  BY Zenon DEF Hop, After
<1> HIDE DEF Walk
<1> DEFINE h == Hop(p)
<1>2. h = [n \in Nat |-> IF n = 0 THEN child[p] ELSE After(h[n - 1], sibling)]
  BY <1>0, <1>1
<1> HIDE DEF h
<1>3. \A n \in Nat : h[n] = IF n = 0 THEN child[p] ELSE After(h[n - 1], sibling)
  BY <1>2
<1>4. ASSUME NEW n \in Nat PROVE h[n + 1] = After(h[n], sibling)
  <2>1. n + 1 \in Nat /\ n + 1 # 0 /\ (n + 1) - 1 = n
    OBVIOUS
  <2> QED
    BY <1>3, <2>1
<1> QED
  BY <1>3, <1>4 DEF h

(* A walk from a live service stays among the live, and comes to an end:   *)
(* as many hops as there are services would meet one of them twice, and    *)
(* what lies between is a circle.                                          *)
LEMMA WalkEnds ==
  ASSUME CareInv, NEW p \in live
  PROVE  /\ \A n \in Nat : Hop(p)[n] \in live \union {NULL}
         /\ \E n \in 0 .. Cardinality(Services) : Hop(p)[n] = NULL
<1> DEFINE h == Hop(p)
           N == Cardinality(Services)
<1>1. /\ h[0] = child[p]
      /\ \A n \in Nat : h[n + 1] = After(h[n], sibling)
  BY HopByHop
<1>2. /\ N \in Nat
      /\ \A s \in live : {child[s], sibling[s]} \subseteq live \union {NULL}
      /\ live \subseteq Services
  BY ServicesAssumption, FS_CardinalityType DEF CareInv, LinksLive
<1> HIDE DEF h, N
<1>3. \A n \in Nat : h[n] \in live \union {NULL}
  <2> DEFINE Out == {n \in Nat : h[n] \notin live \union {NULL}}
  <2>1. ASSUME NEW n \in Out, \A j \in Out : n <= j PROVE FALSE
    <3>1. n # 0
      BY <1>1, <1>2
    <3>2. n - 1 \in Nat /\ n - 1 \notin Out /\ (n - 1) + 1 = n
      BY <2>1, <3>1
    <3>3. h[n] = After(h[n - 1], sibling)
      BY <1>1, <3>2
    <3> QED
      BY <1>2, <3>2, <3>3 DEF After
  <2>2. Out = {}
    <3> HIDE DEF Out
    <3> QED
      BY <2>1, NoLeast DEF Out
  <2> QED
    BY <2>2
<1>4. ASSUME \A n \in 0 .. N : h[n] # NULL
      PROVE  FALSE
  <2>1. \A n \in 0 .. N : h[n] \in live
    BY <1>3, <1>4
  <2>2. ASSUME NEW m \in 0 .. N, NEW n \in 0 .. N, m < n, h[m] = h[n]
        PROVE  FALSE
    <3> DEFINE C == {h[k] : k \in m .. n - 1}
    <3>1. C \in SUBSET live /\ h[m] \in C
      BY <1>2, <2>1, <2>2
    <3>2. PICK s \in First(C) : TRUE
      <4> HIDE DEF C
      <4> QED
        BY <3>1 DEF CareInv, ListsEnd
    <3>3. PICK k \in m .. n - 1 : s = h[k]
      BY <3>2 DEF First
    <3>4. \A u \in C : sibling[u] # s
      BY <3>2 DEF First
    <3>5. PICK j \in m .. n - 1 : h[j + 1] = s
      <4>1. CASE k = m
        <5>1. n - 1 \in m .. n - 1 /\ (n - 1) + 1 = n
          BY <2>2
        <5> QED
          BY <2>2, <3>3, <4>1, <5>1
      <4>2. CASE k # m
        <5>1. k - 1 \in m .. n - 1 /\ (k - 1) + 1 = k
          BY <4>2
        <5> QED
          BY <3>3, <5>1
      <4> QED
        BY <4>1, <4>2
    <3>6. h[j + 1] = sibling[h[j]]
      BY <1>1, <1>2, <1>4 DEF After
    <3> QED
      BY <3>4, <3>5, <3>6
  <2> DEFINE f == [n \in 0 .. N |-> h[n]]
  <2>3. f \in [0 .. N -> Services]
    BY <1>2, <2>1
  <2>4. ASSUME NEW m \in 0 .. N, NEW n \in 0 .. N, f[m] = f[n]
        PROVE  m = n
    <3>1. h[m] = h[n]
      BY <2>4
    <3>2. m < n \/ n < m \/ m = n
      BY <1>2
    <3> QED
      BY <2>2, <3>1, <3>2
  <2> HIDE DEF f
  <2>5. f \in Injection(0 .. N, Services)
    BY <2>3, <2>4 DEF Injection, IsInjective
  <2>6. Cardinality(0 .. N) <= N
    BY <2>5, ServicesAssumption, FS_Injection DEF N
  <2>7. Cardinality(0 .. N) = N + 1
    BY <1>2, FS_Interval
  <2> QED
    BY <1>2, <2>6, <2>7
<1> QED
  BY <1>3, <1>4 DEF h, N

(* Two lists with one start and one set of links are one list.             *)
LEMMA LinkedUnique ==
  ASSUME NEW first, NEW next, NEW q, NEW r, Linked(q, first, next), Linked(r, first, next)
  PROVE  q = r
<1>1. /\ q \in Seq(Services) /\ r \in Seq(Services)
      /\ Len(q) \in Nat /\ Len(r) \in Nat
      /\ \A k \in 1 .. Len(q) : q[k] \in Services
      /\ \A k \in 1 .. Len(r) : r[k] \in Services
      /\ NULL \notin Services
  BY ServicesAssumption DEF Linked
<1>2. \A k \in Nat : k \in 1 .. Len(q) /\ k \in 1 .. Len(r) => q[k] = r[k]
  <2> DEFINE Differ == {k \in Nat : k \in 1 .. Len(q) /\ k \in 1 .. Len(r) /\ q[k] # r[k]}
  <2>1. ASSUME NEW k \in Differ, \A j \in Differ : k <= j PROVE FALSE
    <3>1. k # 1
      BY <1>1 DEF Linked
    <3>2. /\ k - 1 \in Nat /\ k - 1 \notin Differ /\ (k - 1) + 1 = k
          /\ k - 1 \in 1 .. Len(q) - 1 /\ k - 1 \in 1 .. Len(r) - 1
      BY <1>1, <2>1, <3>1
    <3>3. q[k - 1] = r[k - 1]
      BY <1>1, <3>2
    <3>4. q[k] = next[q[k - 1]] /\ r[k] = next[r[k - 1]]
      BY <3>2 DEF Linked
    <3> QED
      BY <3>3, <3>4
  <2>2. Differ = {}
    <3> HIDE DEF Differ
    <3> QED
      BY <2>1, NoLeast DEF Differ
  <2> QED
    BY <2>2
<1>3. ASSUME NEW v, NEW w, Linked(v, first, next), Linked(w, first, next),
             Len(v) \in Nat, Len(w) \in Nat, Len(v) < Len(w),
             \A k \in 1 .. Len(v) : v[k] = w[k], \A k \in 1 .. Len(w) : w[k] \in Services
      PROVE  FALSE
  <2>1. w[Len(v) + 1] \in Services
    BY <1>3
  <2>2. CASE Len(v) = 0
    BY <1>1, <1>3, <2>1, <2>2 DEF Linked
  <2>3. CASE Len(v) # 0
    <3>1. Len(v) \in 1 .. Len(w) - 1 /\ Len(v) \in 1 .. Len(v)
      BY <1>3, <2>3
    <3>2. w[Len(v) + 1] = next[v[Len(v)]]
      BY <1>3, <3>1 DEF Linked
    <3>3. next[v[Len(v)]] = NULL
      BY <1>3, <2>3 DEF Linked
    <3> QED
      BY <1>1, <2>1, <3>2, <3>3
  <2> QED
    BY <2>2, <2>3
<1>4. ~(Len(q) < Len(r)) /\ ~(Len(r) < Len(q))
  BY <1>1, <1>2, <1>3
<1>5. Len(q) = Len(r)
  BY <1>1, <1>4
<1> QED
  BY <1>1, <1>2, <1>5

(* Children is the list of a live service, and its members are live.       *)
ListsLinked ==
  \A p \in live : /\ Linked(Children(p), child[p], sibling)
                  /\ \A k \in 1 .. Len(Children(p)) : Children(p)[k] \in live

LEMMA ChildrenLinked == CareInv => ListsLinked
<1> SUFFICES ASSUME CareInv, NEW p \in live
             PROVE  /\ Linked(Children(p), child[p], sibling)
                    /\ \A k \in 1 .. Len(Children(p)) : Children(p)[k] \in live
  BY DEF ListsLinked
<1> DEFINE h == Hop(p)
           N == Cardinality(Services)
           ended == {n \in 0 .. N : h[n] = NULL}
           end == CHOOSE n \in ended : \A m \in ended : n <= m
           q == [n \in 1 .. end |-> h[n - 1]]
<1>1. /\ ended # {} /\ ended \in SUBSET Nat
      /\ \A n \in Nat : h[n] \in live \union {NULL}
  BY WalkEnds
<1>2. Children(p) = q
  BY <1>1 DEF Children
<1>3. end \in ended /\ \A m \in ended : end <= m
  <2> HIDE DEF ended
  <2> QED
    BY <1>1, LeastChosen
<1>4. /\ h[0] = child[p]
      /\ \A n \in Nat : h[n + 1] = After(h[n], sibling)
  BY HopByHop
<1>5. /\ end \in Nat /\ h[end] = NULL
      /\ \A n \in Nat : n < end => h[n] \in live
  <2> HIDE DEF end, h, N
  <2>1. end \in 0 .. N /\ h[end] = NULL /\ N \in Nat
    BY <1>3, ServicesAssumption, FS_CardinalityType DEF N
  <2>2. ASSUME NEW n \in Nat, n < end PROVE h[n] # NULL
    BY <1>3, <2>1, <2>2
  <2> QED
    BY <1>1, <2>1, <2>2
<1> HIDE DEF h, end, ended
<1>6. live \subseteq Services /\ NULL \notin live
  BY ServicesAssumption DEF CareInv, LinksLive
<1>7. /\ q \in Seq(live) /\ Len(q) = end
      /\ \A k \in 1 .. end : q[k] = h[k - 1] /\ q[k] \in live
  <2>1. \A k \in 1 .. end : k - 1 \in Nat /\ k - 1 < end
    BY <1>5
  <2> QED
    BY <1>5, <2>1
<1> HIDE DEF q
<1>8. q \in Seq(Services)
  BY <1>6, <1>7
<1>9. Len(q) = 0 => child[p] = NULL
  BY <1>4, <1>5, <1>7
<1>10. ASSUME Len(q) > 0
       PROVE  q[1] = child[p] /\ sibling[q[Len(q)]] = NULL
  <2>1. q[1] = child[p]
    BY <1>4, <1>5, <1>7, <1>10
  <2>2. end \in 1 .. end /\ end - 1 \in Nat /\ (end - 1) + 1 = end
    BY <1>5, <1>7, <1>10
  <2>3. h[end] = After(h[end - 1], sibling)
    BY <1>4, <2>2
  <2> QED
    BY <1>5, <1>6, <1>7, <2>1, <2>2, <2>3 DEF After
<1>11. ASSUME NEW k \in 1 .. Len(q) - 1
       PROVE  q[k + 1] = sibling[q[k]]
  <2>1. /\ k \in 1 .. end /\ k + 1 \in 1 .. end /\ k - 1 \in Nat
        /\ (k - 1) + 1 = k /\ (k + 1) - 1 = k
    BY <1>5, <1>7, <1>11
  <2>2. h[k] = After(h[k - 1], sibling)
    BY <1>4, <2>1
  <2> QED
    BY <1>6, <1>7, <2>1, <2>2 DEF After
<1> QED
  BY <1>2, <1>7, <1>8, <1>9, <1>10, <1>11 DEF Linked

LEMMA ChildrenLinkedNext == CareInv' => ListsLinked'
BY ChildrenLinked, PTL

(* A list is the same if no link of a member changes. *)
LEMMA LinkedStays ==
  ASSUME NEW q, NEW first, NEW next, NEW other, Linked(q, first, next),
         \A k \in 1 .. Len(q) : other[q[k]] = next[q[k]]
  PROVE  Linked(q, first, other)
<1>1. Len(q) \in Nat /\ \A k \in 1 .. Len(q) - 1 : k \in 1 .. Len(q)
  BY DEF Linked
<1>2. Len(q) > 0 => Len(q) \in 1 .. Len(q)
  BY <1>1
<1> QED
  BY <1>1, <1>2 DEF Linked

-----------------------------------------------------------------------------
(* The tree implements the forest.                                         *)

Owner(s) == IF careful /\ s \in live THEN parent[s] ELSE NULL
Kids(p)  == IF careful /\ p \in live THEN Children(p) ELSE <<>>
owners == [s \in Services |-> Owner(s)]
kids   == [p \in Services |-> Kids(p)]

(* A list none of whose members gets another sibling is the same list.     *)
LEMMA KidsStay ==
  ASSUME careful, careful', CareInv, CareInv',
         NEW p \in live, p \in live', child'[p] = child[p],
         \A k \in 1 .. Len(Children(p)) : sibling'[Children(p)[k]] = sibling[Children(p)[k]]
  PROVE  Kids(p)' = Kids(p)
<1>1. Linked(Children(p), child[p], sibling)
  BY ChildrenLinked DEF ListsLinked
<1>2. Linked(Children(p), child'[p], sibling')
  BY <1>1, LinkedStays
<1>3. Linked(Children(p)', child'[p], sibling')
  BY ChildrenLinkedNext DEF ListsLinked
<1>4. Children(p)' = Children(p)
  BY <1>2, <1>3, LinkedUnique
<1> QED
  BY <1>4 DEF Kids

(* A service without a link to it is in no list. *)
LEMMA UnlistedInNoList ==
  ASSUME careful, CareInv, NEW s \in live, Unlisted(s)
  PROVE  /\ \A p \in live : \A k \in 1 .. Len(Children(p)) : Children(p)[k] # s
         /\ s \notin Forest!Listed
<1>1. ASSUME NEW p \in live, NEW k \in 1 .. Len(Children(p))
      PROVE  Children(p)[k] # s
  <2> DEFINE q == Children(p)
  <2>1. /\ Linked(q, child[p], sibling)
        /\ \A j \in 1 .. Len(q) : q[j] \in live
    BY ChildrenLinked DEF ListsLinked
  <2> HIDE DEF q
  <2>2. CASE k = 1
    BY <2>1, <2>2 DEF Linked, Unlisted, q
  <2>3. CASE k # 1
    <3>1. k - 1 \in 1 .. Len(q) - 1 /\ k - 1 \in 1 .. Len(q) /\ (k - 1) + 1 = k
      BY <2>1, <2>3 DEF Linked, q
    <3>2. q[k] = sibling[q[k - 1]]
      BY <2>1, <3>1 DEF Linked
    <3> QED
      BY <2>1, <3>1, <3>2 DEF Unlisted, q
  <2> QED
    BY <2>2, <2>3
<1>2. ASSUME s \in Forest!Listed
      PROVE  FALSE
  <2>1. PICK p \in live : s \in Forest!ToSet(kids[p])
    BY <1>2 DEF Forest!Listed, kids, Kids
  <2>2. kids[p] = Children(p) /\ Children(p) \in Seq(Services)
    BY ChildrenLinked DEF ListsLinked, kids, Kids, Linked, CareInv, LinksLive
  <2>3. PICK k \in 1 .. Len(Children(p)) : s = Children(p)[k]
    BY <2>1, <2>2 DEF Forest!ToSet
  <2> QED
    BY <1>1, <2>3
<1> QED
  BY <1>1, <1>2

LEMMA CreateAppears ==
  ASSUME careful, careful', CareInv, CareInv',
         NEW s \in Services, LPNUIOServiceCreate(s)
  PROVE  Forest!Appear(s)
<1>1. /\ s \notin live /\ live' = live \union {s}
      /\ parent' = [parent EXCEPT ![s] = NULL]
      /\ child' = [child EXCEPT ![s] = NULL]
      /\ sibling' = [sibling EXCEPT ![s] = NULL]
      /\ parent \in Links /\ child \in Links /\ sibling \in Links
      /\ live \subseteq Services
  BY DEF LPNUIOServiceCreate, CareInv, LinksLive
<1>2. \A u \in Services : Owner(u)' = Owner(u)
  BY <1>1 DEF Owner, Links
<1>3. Kids(s) = <<>> /\ Kids(s)' = <<>>
  <2> DEFINE q == Children(s)'
  <2>2. Linked(q, NULL, sibling')
    BY <1>1, ChildrenLinkedNext DEF Links, ListsLinked
  <2> HIDE DEF q
  <2>3. q = <<>>
    BY <2>2, ServicesAssumption DEF Linked
  <2> QED
    BY <1>1, <2>3 DEF Kids, q
<1>4. ASSUME NEW p \in live PROVE Kids(p)' = Kids(p)
  <2>1. \A k \in 1 .. Len(Children(p)) : Children(p)[k] \in live
    BY ChildrenLinked DEF ListsLinked
  <2>2. \A u \in live : u # s /\ sibling'[u] = sibling[u] /\ child'[u] = child[u]
    BY <1>1 DEF Links
  <2> QED
    BY <1>1, <2>1, <2>2, KidsStay
<1>5. \A p \in Services : Kids(p)' = Kids(p)
  BY <1>1, <1>3, <1>4 DEF Kids
<1>6. owners' = owners /\ kids' = kids
  BY <1>2, <1>5 DEF owners, kids
<1> QED
  BY <1>1, <1>6 DEF Forest!Appear, owners, kids, Owner, Kids

LEMMA DestroyVanishes ==
  ASSUME careful, careful', CareInv, CareInv',
         NEW s \in Services, MayDestroy(s),
         LPNUIOServiceDestroy(s)
  PROVE  Forest!Vanish(s)
<1>1. /\ s \in live /\ live' = live \ {s} /\ Unlisted(s)
      /\ \A u \in live : parent[u] # s
      /\ parent' = parent /\ child' = child /\ sibling' = sibling
      /\ live \subseteq Services
  BY DEF MayDestroy, LPNUIOServiceDestroy, CareInv, LinksLive
<1>2. s \notin Forest!Listed
  BY <1>1, UnlistedInNoList
<1>3. \A u \in live : owners[u] # s
  BY <1>1 DEF owners, Owner
<1>4. owners' = [owners EXCEPT ![s] = NULL]
  BY <1>1 DEF owners, Owner
<1>5. \A p \in Services : Kids(p)' = IF p = s THEN <<>> ELSE Kids(p)
  BY <1>1, KidsStay DEF Kids
<1>6. kids' = [kids EXCEPT ![s] = <<>>]
  BY <1>5 DEF kids
<1> QED
  BY <1>1, <1>2, <1>3, <1>4, <1>6 DEF Forest!Vanish, owners, kids, Owner, Kids

LEMMA AddChildAdopts ==
  ASSUME careful, careful', CareInv, CareInv',
         NEW p \in Services, NEW c \in Services,
         MayAdd(p, c),
         LPNUIOServiceAddChild(p, c)
  PROVE  Forest!Adopt(p, c)
<1>1. /\ p \in live /\ c \in live /\ live' = live /\ Unlisted(c)
      /\ parent' = [parent EXCEPT ![c] = p]
      /\ sibling' = [sibling EXCEPT ![c] = child[p]]
      /\ child' = [child EXCEPT ![p] = c]
      /\ parent \in Links /\ child \in Links /\ sibling \in Links
  BY DEF MayAdd, LPNUIOServiceAddChild, CareInv, LinksLive
<1>2. p # c
  BY BelowClosed DEF MayAdd, LPNUIOServiceAddChild, CareInv
<1>3. /\ c \notin Forest!Listed
      /\ \A u \in live : \A k \in 1 .. Len(Children(u)) : Children(u)[k] # c
  BY <1>1, UnlistedInNoList
<1>4. owners' = [owners EXCEPT ![c] = p]
  BY <1>1 DEF owners, Owner, Links
<1>5. ASSUME NEW u \in live
      PROVE  /\ Linked(Children(u), child[u], sibling)
             /\ \A k \in 1 .. Len(Children(u)) :
                  sibling'[Children(u)[k]] = sibling[Children(u)[k]]
  <2>1. /\ Linked(Children(u), child[u], sibling)
        /\ \A k \in 1 .. Len(Children(u)) : Children(u)[k] \in Services
    BY ChildrenLinked DEF ListsLinked, CareInv, LinksLive
  <2> QED
    BY <1>1, <1>3, <2>1 DEF Links
<1>6. ASSUME NEW u \in live, u # p
      PROVE  Kids(u)' = Kids(u)
  BY <1>1, <1>5, <1>6, KidsStay DEF Links
<1>7. Kids(p)' = <<c>> \o Kids(p)
  <2> DEFINE q == Children(p)
             r == <<c>> \o q
  <2>1. Linked(q, child[p], sibling')
    BY <1>1, <1>5, LinkedStays
  <2>2. sibling'[c] = child[p] /\ child'[p] = c
    BY <1>1 DEF Links
  <2> HIDE DEF q
  <2>3. /\ q \in Seq(Services) /\ Len(q) \in Nat
        /\ r \in Seq(Services) /\ Len(r) = Len(q) + 1
        /\ r[1] = c /\ \A k \in 1 .. Len(q) : r[k + 1] = q[k]
    BY <2>1 DEF Linked
  <2> HIDE DEF r
  <2>4. sibling'[r[Len(r)]] = NULL
    <3>1. CASE Len(q) = 0
      BY <2>1, <2>2, <2>3, <3>1 DEF Linked
    <3>2. CASE Len(q) # 0
      <4>1. Len(q) \in 1 .. Len(q)
        BY <2>3, <3>2
      <4> QED
        BY <2>1, <2>3, <3>2, <4>1 DEF Linked
    <3> QED
      BY <3>1, <3>2
  <2>5. ASSUME NEW k \in 1 .. Len(r) - 1
        PROVE  r[k + 1] = sibling'[r[k]]
    <3>1. k \in 1 .. Len(q) /\ r[k + 1] = q[k]
      BY <2>3
    <3>2. CASE k = 1
      BY <2>1, <2>2, <2>3, <3>1, <3>2 DEF Linked
    <3>3. CASE k # 1
      <4>1. k - 1 \in 1 .. Len(q) - 1 /\ k - 1 \in 1 .. Len(q) /\ (k - 1) + 1 = k
        BY <2>3, <3>1, <3>3
      <4>2. q[k] = sibling'[q[k - 1]] /\ r[k] = q[k - 1]
        BY <2>1, <2>3, <4>1 DEF Linked
      <4> QED
        BY <3>1, <4>2
    <3> QED
      BY <3>2, <3>3
  <2>6. Linked(r, child'[p], sibling')
    BY <2>2, <2>3, <2>4, <2>5 DEF Linked
  <2>8. Linked(Children(p)', child'[p], sibling')
    BY <1>1, ChildrenLinkedNext DEF ListsLinked
  <2>9. Children(p)' = r
    BY <2>6, <2>8, LinkedUnique
  <2> QED
    BY <1>1, <2>9 DEF Kids, q, r
<1>8. kids' = [kids EXCEPT ![p] = <<c>> \o @]
  <2>1. \A u \in Services : Kids(u)' = IF u = p THEN <<c>> \o Kids(p) ELSE Kids(u)
    BY <1>1, <1>6, <1>7 DEF Kids
  <2> QED
    BY <2>1 DEF kids
<1> QED
  BY <1>1, <1>2, <1>3, <1>4, <1>8 DEF Forest!Adopt, owners, kids, Owner, Kids

LEMMA RemoveChildDisowns ==
  ASSUME careful, careful', CareInv, CareInv',
         NEW p \in Services, NEW c \in Services,
         LPNUIOServiceRemoveChild(p, c)
  PROVE  Forest!Disown(c)
<1>1. /\ c \in live /\ live' = live /\ child' = child /\ sibling' = sibling
      /\ parent' = [parent EXCEPT ![c] = NULL] /\ parent \in Links
  BY DEF LPNUIOServiceRemoveChild, CareInv, LinksLive
<1>2. owners' = [owners EXCEPT ![c] = NULL]
  BY <1>1 DEF owners, Owner, Links
<1>3. \A u \in Services : Kids(u)' = Kids(u)
  BY <1>1, KidsStay DEF Kids
<1>4. kids' = kids
  BY <1>3 DEF kids
<1> QED
  BY <1>1, <1>2, <1>4 DEF Forest!Disown, owners, kids, Owner, Kids

-----------------------------------------------------------------------------
(* The book of a client, careful or not.                                   *)

(* The book of a service that is gone, or whose list is spoilt, is closed. *)
BookInv ==
  /\ TreeTypeOK
  /\ \A p \in Services : p \notin live \ spoilt => book[p] = <<>>
  /\ UnspoiltListsKept

LEMMA InitBookInv == TreeInit => BookInv
BY DEF TreeInit, BookInv, TreeTypeOK, Links, UnspoiltListsKept

LEMMA InBook ==
  ASSUME NEW q \in Seq(Services)
  PROVE  /\ \A k \in 1 .. Len(q) : q[k] \in ToSet(q)
         /\ q # <<>> => 1 \in 1 .. Len(q) /\ Len(q) \in 1 .. Len(q)
BY DEF ToSet

(* A list whose links are left alone is walked as before.                  *)
LEMMA WalkStays ==
  ASSUME NEW first, NEW next, NEW other, NEW q \in Seq(Services),
         WalkMeets(first, next, q), \A c \in ToSet(q) : other[c] = next[c]
  PROVE  WalkMeets(first, other, q)
<1>1. /\ \A k \in 1 .. Len(q) : other[q[k]] = next[q[k]]
      /\ q # <<>> => Len(q) \in 1 .. Len(q)
  BY InBook
<1>2. CASE q = <<>>
  BY <1>2 DEF WalkMeets
<1>3. CASE q # <<>>
  <2>1. \A k \in 1 .. Len(q) - 1 : k \in 1 .. Len(q)
    OBVIOUS
  <2> QED
    BY <1>1, <1>3, <2>1 DEF WalkMeets
<1> QED
  BY <1>2, <1>3

LEMMA Prepended ==
  ASSUME NEW c \in Services, NEW q \in Seq(Services)
  PROVE  /\ <<c>> \o q \in Seq(Services)
         /\ ToSet(<<c>> \o q) = {c} \union ToSet(q)
<1> DEFINE r == <<c>> \o q
<1>1. /\ r \in Seq(Services) /\ Len(r) = Len(q) + 1 /\ r[1] = c
      /\ \A k \in 1 .. Len(q) : r[k + 1] = q[k]
  OBVIOUS
<1> HIDE DEF r
<1>2. DOMAIN r = 1 .. Len(q) + 1 /\ DOMAIN q = 1 .. Len(q) /\ Len(q) \in Nat
  BY <1>1
<1>3. ToSet(r) \subseteq {c} \union ToSet(q)
  <2> SUFFICES ASSUME NEW k \in 1 .. Len(q) + 1 PROVE r[k] \in {c} \union ToSet(q)
    BY <1>2 DEF ToSet
  <2>1. CASE k = 1
    BY <1>1, <2>1
  <2>2. CASE k # 1
    <3>1. k - 1 \in 1 .. Len(q) /\ (k - 1) + 1 = k
      BY <1>2, <2>2
    <3>2. r[k] = q[k - 1]
      BY <1>1, <3>1
    <3> QED
      BY <1>2, <3>1, <3>2 DEF ToSet
  <2> QED
    BY <2>1, <2>2
<1>4. ToSet(q) \subseteq ToSet(r)
  <2> SUFFICES ASSUME NEW k \in 1 .. Len(q) PROVE q[k] \in ToSet(r)
    BY <1>2 DEF ToSet
  <2>1. k + 1 \in 1 .. Len(q) + 1 /\ r[k + 1] = q[k]
    BY <1>1, <1>2
  <2> QED
    BY <1>2, <2>1 DEF ToSet
<1>5. c \in ToSet(r)
  <2>1. 1 \in DOMAIN r
    BY <1>2
  <2> QED
    BY <1>1, <2>1 DEF ToSet
<1> QED
  BY <1>1, <1>3, <1>4, <1>5 DEF r

(* A service put in front of a list it is not in is walked first.          *)
LEMMA WalkGrows ==
  ASSUME NEW first, NEW next, NEW other, NEW c \in Services,
         NEW q \in Seq(Services), WalkMeets(first, next, q),
         other[c] = first, \A d \in ToSet(q) : other[d] = next[d]
  PROVE  WalkMeets(c, other, <<c>> \o q)
<1> DEFINE r == <<c>> \o q
<1>1. /\ r \in Seq(Services) /\ Len(r) = Len(q) + 1 /\ r[1] = c /\ r # <<>>
      /\ \A k \in 1 .. Len(q) : r[k + 1] = q[k]
      /\ Len(q) \in Nat
  OBVIOUS
<1> HIDE DEF r
<1>2. WalkMeets(first, other, q)
  BY WalkStays
<1>3. CASE q = <<>>
  <2>1. Len(q) = 0 /\ first = NULL
    BY <1>2, <1>3 DEF WalkMeets
  <2>2. Len(r) = 1
    BY <1>1, <2>1
  <2>3. WalkMeets(c, other, r)
    BY <1>1, <2>1, <2>2 DEF WalkMeets
  <2> QED
    BY <2>3 DEF r
<1>4. CASE q # <<>>
  <2>1. /\ Len(q) \in 1 .. Len(q) /\ 1 \in 1 .. Len(q)
        /\ first = q[1] /\ other[q[Len(q)]] = NULL
        /\ \A k \in 1 .. Len(q) - 1 : other[q[k]] = q[k + 1]
    BY <1>2, <1>4, InBook DEF WalkMeets
  <2>2. other[r[Len(r)]] = NULL
    BY <1>1, <2>1
  <2>3. ASSUME NEW k \in 1 .. Len(r) - 1 PROVE other[r[k]] = r[k + 1]
    <3>1. CASE k = 1
      BY <1>1, <2>1, <3>1
    <3>2. CASE k # 1
      <4>1. /\ k - 1 \in 1 .. Len(q) - 1 /\ k \in 1 .. Len(q) /\ k - 1 \in 1 .. Len(q)
            /\ (k - 1) + 1 = k
        BY <1>1, <3>2
      <4>2. r[k] = q[k - 1] /\ r[k + 1] = q[k]
        BY <1>1, <4>1
      <4>3. other[q[k - 1]] = q[k]
        BY <2>1, <4>1
      <4> QED
        BY <4>2, <4>3
    <3> QED
      BY <3>1, <3>2
  <2>4. WalkMeets(c, other, r)
    BY <1>1, <2>2, <2>3 DEF WalkMeets
  <2> QED
    BY <2>4 DEF r
<1> QED
  BY <1>3, <1>4

LEMMA CreatesBookInv ==
  ASSUME BookInv, NEW s \in Services, CreatesService(s)
  PROVE  BookInv'
<1> USE DEF BookInv, TreeTypeOK, clientvars
<1> USE DEF CreatesService, LPNUIOServiceCreate, LPNUIOServiceMatching
<1>1. TreeTypeOK'
  BY DEF Links
<1>2. \A p \in Services : p \notin live' \ spoilt' => book'[p] = <<>>
  OBVIOUS
<1>3. ASSUME NEW p \in live' \ spoilt'
      PROVE  ToSet(book'[p]) \subseteq live' /\ WalkMeets(child'[p], sibling', book'[p])
  <2>1. CASE p = s
    <3>1. book[p] = <<>> /\ child'[p] = NULL
      BY <2>1 DEF Links
    <3> QED
      BY <3>1 DEF WalkMeets, ToSet
  <2>2. CASE p # s
    <3>1. p \in live \ spoilt /\ ToSet(book[p]) \subseteq live /\ WalkMeets(child[p], sibling, book[p])
      BY <1>3, <2>2 DEF UnspoiltListsKept
    <3>2. child'[p] = child[p] /\ \A c \in ToSet(book[p]) : sibling'[c] = sibling[c]
      BY <2>2, <3>1 DEF Links
    <3>3. book[p] \in Seq(Services) /\ book' = book
      BY <3>1
    <3>4. WalkMeets(child[p], sibling', book[p])
      BY <3>1, <3>2, <3>3, WalkStays
    <3>5. WalkMeets(child'[p], sibling', book'[p])
      BY <3>2, <3>3, <3>4
    <3> QED
      BY <3>1, <3>3, <3>5
  <2> QED
    BY <2>1, <2>2
<1> QED
  BY <1>1, <1>2, <1>3 DEF UnspoiltListsKept

LEMMA DestroysBookInv ==
  ASSUME BookInv, NEW s \in Services, DestroysService(s)
  PROVE  BookInv'
<1> USE DEF BookInv, TreeTypeOK
<1>1. /\ live' = live \ {s} /\ UNCHANGED <<parent, child, sibling>>
      /\ spoilt' = (spoilt \union HavingListed(s)) \ {s}
  BY DEF DestroysService, LPNUIOServiceDestroy
<1>2. \A p \in Services :
        book'[p] = IF p \in HavingListed(s) \union {s} THEN <<>> ELSE book[p]
  BY DEF DestroysService, Closed
<1>3. book' \in [Services -> Seq(Services)]
  <2>1. <<>> \in Seq(Services)
    OBVIOUS
  <2> QED
    BY <2>1 DEF DestroysService, Closed
<1>4. TreeTypeOK'
  BY <1>1, <1>3 DEF Links, HavingListed, DestroysService
<1>5. \A p \in Services : p \notin live' \ spoilt' => book'[p] = <<>>
  BY <1>1, <1>2
<1>6. ASSUME NEW p \in live' \ spoilt'
      PROVE  ToSet(book'[p]) \subseteq live' /\ WalkMeets(child'[p], sibling', book'[p])
  <2>1. p \in live \ spoilt /\ p # s /\ s \notin ToSet(book[p])
    BY <1>1, <1>6 DEF HavingListed
  <2>2. book'[p] = book[p] /\ book[p] \in Seq(Services)
    BY <1>2, <2>1 DEF HavingListed
  <2>3. ToSet(book[p]) \subseteq live /\ WalkMeets(child[p], sibling, book[p])
    BY <2>1 DEF UnspoiltListsKept
  <2>4. WalkMeets(child'[p], sibling', book'[p])
    BY <1>1, <2>2, <2>3 DEF WalkMeets
  <2> QED
    BY <1>1, <2>1, <2>2, <2>3, <2>4
<1> QED
  BY <1>4, <1>5, <1>6 DEF UnspoiltListsKept

LEMMA AddsBookInv ==
  ASSUME BookInv, NEW p \in Services, NEW c \in Services, AddsChild(p, c)
  PROVE  BookInv'
<1> USE DEF BookInv, TreeTypeOK
<1>1. /\ p \in live /\ c \in live /\ live' = live
      /\ spoilt' = spoilt \union HavingListed(c)
  BY DEF AddsChild, LPNUIOServiceAddChild
<1>2. parent' \in Links /\ child' \in Links /\ sibling' \in Links
  BY DEF AddsChild, LPNUIOServiceAddChild, Links
<1>3. /\ child'[p] = c /\ sibling'[c] = child[p]
      /\ \A q \in Services \ {p} : child'[q] = child[q]
      /\ \A d \in Services \ {c} : sibling'[d] = sibling[d]
  BY DEF AddsChild, LPNUIOServiceAddChild, Links
<1>4. /\ Closed(HavingListed(c)) \in [Services -> Seq(Services)]
      /\ \A q \in Services : Closed(HavingListed(c))[q] =
                               IF q \in HavingListed(c) THEN <<>> ELSE book[q]
  <2>1. <<>> \in Seq(Services)
    OBVIOUS
  <2> QED
    BY <2>1 DEF Closed
<1>5. /\ book' \in [Services -> Seq(Services)]
      /\ \A q \in Services : q \in spoilt' => book'[q] = <<>>
      /\ \A q \in Services : q \notin spoilt' =>
           book'[q] = IF q = p THEN <<c>> \o book[p] ELSE book[q]
  <2>1. CASE p \in spoilt'
    <3>1. book' = Closed(HavingListed(c))
      BY <2>1 DEF AddsChild
    <3> QED
      BY <1>1, <1>4, <2>1, <3>1
  <2>2. CASE p \notin spoilt'
    <3>1. book' = [Closed(HavingListed(c)) EXCEPT ![p] = <<c>> \o @]
      BY <2>2 DEF AddsChild
    <3>2. Closed(HavingListed(c))[p] = book[p] /\ <<c>> \o book[p] \in Seq(Services)
      BY <1>1, <1>4, <2>2
    <3>3. book' \in [Services -> Seq(Services)] /\ book'[p] = <<c>> \o book[p]
      BY <1>4, <3>1, <3>2
    <3>4. \A q \in Services \ {p} : book'[q] = Closed(HavingListed(c))[q]
      BY <1>4, <3>1
    <3> QED
      BY <1>1, <1>4, <2>2, <3>3, <3>4
  <2> QED
    BY <2>1, <2>2
<1>6. TreeTypeOK'
  BY <1>1, <1>2, <1>5 DEF HavingListed, AddsChild
<1>7. \A q \in Services : q \notin live' \ spoilt' => book'[q] = <<>>
  BY <1>1, <1>5
<1>8. ASSUME NEW q \in live' \ spoilt'
      PROVE  /\ ToSet(book'[q]) \subseteq live'
             /\ WalkMeets(child'[q], sibling', book'[q])
  <2>1. q \in live \ spoilt /\ q \in Services /\ c \notin ToSet(book[q])
    BY <1>1, <1>8 DEF HavingListed
  <2>2. /\ book[q] \in Seq(Services) /\ ToSet(book[q]) \subseteq live
        /\ WalkMeets(child[q], sibling, book[q])
    BY <2>1 DEF UnspoiltListsKept
  <2>3. \A d \in ToSet(book[q]) : sibling'[d] = sibling[d]
    BY <1>3, <2>1, <2>2
  <2>4. CASE q = p
    <3>1. book'[q] = <<c>> \o book[q]
      BY <1>5, <1>8, <2>1, <2>4
    <3>2. ToSet(<<c>> \o book[q]) = {c} \union ToSet(book[q])
      BY <2>2, Prepended
    <3>3. sibling'[c] = child[q] /\ child'[q] = c
      BY <1>3, <2>4
    <3>4. WalkMeets(c, sibling', <<c>> \o book[q])
      BY <2>2, <2>3, <3>3, WalkGrows
    <3> QED
      BY <1>1, <2>2, <3>1, <3>2, <3>3, <3>4
  <2>5. CASE q # p
    <3>1. book'[q] = book[q] /\ child'[q] = child[q]
      BY <1>3, <1>5, <1>8, <2>1, <2>5
    <3>2. WalkMeets(child[q], sibling', book[q])
      BY <2>2, <2>3, WalkStays
    <3> QED
      BY <1>1, <2>2, <3>1, <3>2
  <2> QED
    BY <2>4, <2>5
<1> QED
  BY <1>6, <1>7, <1>8 DEF UnspoiltListsKept

LEMMA RemovesBookInv ==
  ASSUME BookInv, NEW p \in Services, NEW c \in Services, RemovesChild(p, c)
  PROVE  BookInv'
<1>1. UNCHANGED <<live, child, sibling, careful, book, spoilt>>
  BY DEF RemovesChild, LPNUIOServiceRemoveChild, clientvars
<1>2. parent' \in Links
  BY DEF RemovesChild, LPNUIOServiceRemoveChild, BookInv, TreeTypeOK, Links
<1> QED
  BY <1>1, <1>2 DEF BookInv, TreeTypeOK, UnspoiltListsKept, WalkMeets

LEMMA NextBookInv == BookInv /\ [TreeNext]_tvars => BookInv'
<1> SUFFICES ASSUME BookInv, [TreeNext]_tvars PROVE BookInv'
  OBVIOUS
<1>1. CASE UNCHANGED tvars
  BY <1>1 DEF tvars, svars, clientvars, BookInv, TreeTypeOK, UnspoiltListsKept,
              WalkMeets
<1>2. CASE TreeNext
  <2>1. ASSUME NEW s \in Services, CreatesService(s) \/ DestroysService(s) PROVE BookInv'
    BY <2>1, CreatesBookInv, DestroysBookInv
  <2>2. ASSUME NEW p \in Services, NEW c \in Services, AddsChild(p, c) \/ RemovesChild(p, c)
        PROVE  BookInv'
    BY <2>2, AddsBookInv, RemovesBookInv
  <2> QED
    BY <1>2, <2>1, <2>2 DEF TreeNext
<1> QED
  BY <1>1, <1>2

-----------------------------------------------------------------------------
(* The theorems of the tree.                                               *)

(* The book is right for every client, and the links for a careful one.    *)
TreeInv == BookInv /\ (careful => CareInv)

LEMMA InitTreeInv == TreeInit => TreeInv
BY InitBookInv, InitCareInv DEF TreeInv

LEMMA NextCareInv ==
  ASSUME careful, CareInv, [TreeNext]_tvars
  PROVE  CareInv'
<1>1. CASE UNCHANGED tvars
  BY <1>1 DEF tvars, svars, CareInv, LinksLive, ListsEnd, First
<1>2. ASSUME NEW s \in Services, CreatesService(s)
      PROVE  CareInv'
  BY <1>2, CreateCareInv DEF CreatesService, LPNUIOServiceMatching
<1>3. ASSUME NEW s \in Services, DestroysService(s)
      PROVE  CareInv'
  BY <1>3, DestroyCareInv DEF DestroysService
<1>4. ASSUME NEW p \in Services, NEW c \in Services, AddsChild(p, c)
      PROVE  CareInv'
  BY <1>4, AddChildCareInv DEF AddsChild
<1>5. ASSUME NEW p \in Services, NEW c \in Services, RemovesChild(p, c)
      PROVE  CareInv'
  BY <1>5, RemoveChildCareInv DEF RemovesChild
<1> QED
  BY <1>1, <1>2, <1>3, <1>4, <1>5 DEF TreeNext

LEMMA CarefulStays == [TreeNext]_tvars => careful' = careful
BY DEF TreeNext, tvars, clientvars, CreatesService, DestroysService, AddsChild,
       RemovesChild

LEMMA NextTreeInv == TreeInv /\ [TreeNext]_tvars => TreeInv'
BY NextBookInv, NextCareInv, CarefulStays DEF TreeInv

(* The inductive invariant: whatever the client does, what it wrote down   *)
(* of the lists it has not spoilt is so; and for a careful one the links   *)
(* of live services lead to live services and close no circle.             *)
THEOREM TreeInvariant == TreeSpec => []TreeInv
BY InitTreeInv, NextTreeInv, PTL DEF TreeSpec

(* A careful client can always take its tree down: AddChild closes no      *)
(* circle, so some service is in no list.                                  *)
THEOREM TreeTeardownPossible == TreeSpec => []TeardownPossible
<1>1. TreeInv => TeardownPossible
  BY DEF TreeInv, CareInv, ListsEnd, First, TeardownPossible, Unlisted
<1> QED
  BY <1>1, TreeInvariant, PTL

(* Whatever a client does with services that exist, a list that it has not *)
(* spoilt itself is walked through live services to its end.               *)
THEOREM TreeListsKept == TreeSpec => []UnspoiltListsKept
<1>1. TreeInv => UnspoiltListsKept
  BY DEF TreeInv, BookInv
<1> QED
  BY <1>1, TreeInvariant, PTL

(* The linked lists of careful clients are the sequences of ServiceForest: *)
(* Create, Destroy, AddChild and RemoveChild are Appear, Vanish, Adopt and *)
(* Disown.                                                                 *)
THEOREM TreeImplementsForest == TreeSpec => ImplementsForest
<1> USE DEF Owner, Kids, owners, kids
<1>1. TreeInit => Forest!FInit
  BY DEF TreeInit, Forest!FInit
<1>2. ASSUME TreeInv, TreeInv', [TreeNext]_tvars
      PROVE  [Forest!FNext]_Forest!fvars
  <2>1. CASE ~careful
    BY <1>2, <2>1, CarefulStays DEF Forest!fvars
  <2>2. CASE careful /\ UNCHANGED tvars
    BY <2>2 DEF tvars, svars, clientvars, Forest!fvars, Children, Hop
  <2>3. CASE careful /\ TreeNext
    <3>1. careful /\ careful' /\ CareInv /\ CareInv'
      BY <1>2, <2>3, CarefulStays DEF TreeInv
    <3>2. ASSUME NEW s \in Services, CreatesService(s)
          PROVE  Forest!Appear(s)
      BY <3>1, <3>2, CreateAppears DEF CreatesService, LPNUIOServiceMatching
    <3>3. ASSUME NEW s \in Services, DestroysService(s)
          PROVE  Forest!Vanish(s)
      BY <3>1, <3>3, DestroyVanishes DEF DestroysService
    <3>4. ASSUME NEW p \in Services, NEW c \in Services, AddsChild(p, c)
          PROVE  Forest!Adopt(p, c)
      BY <3>1, <3>4, AddChildAdopts DEF AddsChild
    <3>5. ASSUME NEW p \in Services, NEW c \in Services, RemovesChild(p, c)
          PROVE  Forest!Disown(c)
      BY <3>1, <3>5, RemoveChildDisowns DEF RemovesChild
    <3> HIDE DEF Owner, Kids, owners, kids
    <3> QED
      BY <2>3, <3>2, <3>3, <3>4, <3>5 DEF TreeNext, Forest!FNext
  <2> QED
    BY <1>2, <2>1, <2>2, <2>3
<1> QED
  BY <1>1, <1>2, TreeInvariant, PTL DEF TreeSpec, ImplementsForest, Forest!FSpec

-----------------------------------------------------------------------------
(* The registration of services.                                           *)

(* The list is the beginning of the history, as long as there is room.     *)
ListFollows ==
  /\ Len(registered) <= ListSize => Len(g_serviceList) = Len(registered)
  /\ Len(registered) > ListSize => Len(g_serviceList) = ListSize
  /\ \A k \in 1 .. Len(g_serviceList) : g_serviceList[k] = registered[k].at

(* With a careful client what was registered is still there, and no other  *)
(* service was born at its address since.                                  *)
RegisteredStay ==
  client = "careful" =>
    \A k \in 1 .. Len(registered) : /\ registered[k].at \in live
                                    /\ Birth(registered[k].at) = registered[k]

LiveWereBorn == \A s \in live : born[s] > 0

RegistrationInv ==
  RegistrationTypeOK /\ LiveWereBorn /\ ListFollows /\ RegisteredStay /\ StartedAsCalled

LEMMA InitRegistrationInv == RegistrationInit => RegistrationInv
<1> SUFFICES ASSUME RegistrationInit PROVE RegistrationInv
  OBVIOUS
<1> USE ListAssumption DEF RegistrationInit
<1>1. RegistrationTypeOK
  <2>1. /\ born \in [Services -> 0 .. MaxBorn] /\ state \in [Services -> SUBSET Bits]
        /\ provider \in [Services -> Providers \union {NULL}]
        /\ lastCall \in [Services -> {"Create", "Start", "Stop"}]
    OBVIOUS
  <2>2. g_serviceList \in Seq(Services) /\ registered \in Seq([at : Services, birth : 1 .. MaxBorn])
    OBVIOUS
  <2> QED
    BY <2>1, <2>2 DEF RegistrationTypeOK
<1>2. ListFollows
  BY DEF ListFollows
<1>3. LiveWereBorn /\ RegisteredStay /\ StartedAsCalled
  BY DEF LiveWereBorn, RegisteredStay, StartedAsCalled
<1> QED
  BY <1>1, <1>2, <1>3 DEF RegistrationInv

LEMMA CreateServiceInv ==
  ASSUME RegistrationInv, NEW s \in Services, CreateService(s)
  PROVE  RegistrationInv'
<1> USE ListAssumption DEF RegistrationInv, RegistrationTypeOK, CreateService, Called
<1>1. born[s] + 1 \in 0 .. MaxBorn
  OBVIOUS
<1>2. RegistrationTypeOK'
  BY <1>1 DEF Bits
<1>3. LiveWereBorn'
  BY <1>1 DEF LiveWereBorn
<1>4. ListFollows'
  BY DEF ListFollows
<1>5. RegisteredStay'
  BY DEF RegisteredStay, Birth
<1>6. StartedAsCalled'
  BY DEF StartedAsCalled
<1> QED
  BY <1>2, <1>3, <1>4, <1>5, <1>6

LEMMA DestroyServiceInv ==
  ASSUME RegistrationInv, NEW s \in Services, DestroyService(s)
  PROVE  RegistrationInv'
<1> USE DEF RegistrationInv, RegistrationTypeOK, DestroyService
<1>1. RegistrationTypeOK'
  OBVIOUS
<1>2. LiveWereBorn' /\ StartedAsCalled'
  BY DEF LiveWereBorn, StartedAsCalled
<1>3. ListFollows'
  BY DEF ListFollows
<1>4. RegisteredStay'
  <2> SUFFICES ASSUME client = "careful", NEW k \in 1 .. Len(registered)
               PROVE  /\ registered[k].at \in live'
                      /\ Birth(registered[k].at) = registered[k]
    BY DEF RegisteredStay, Birth
  <2>1. registered[k].at \in live /\ Birth(registered[k].at) = registered[k]
    BY DEF RegisteredStay
  <2>2. registered[k] \in ToSet(registered)
    BY DEF ToSet
  <2>3. registered[k].at # s
    BY <2>1, <2>2
  <2> QED
    BY <2>1, <2>3
<1> QED
  BY <1>1, <1>2, <1>3, <1>4

LEMMA RegisterServiceInv ==
  ASSUME RegistrationInv, NEW s \in Services, LPNUIOServiceRegisterService(s)
  PROVE  RegistrationInv'
<1> USE ListAssumption DEF RegistrationInv, RegistrationTypeOK, LPNUIOServiceRegisterService
<1>1. Birth(s) \in [at : Services, birth : 1 .. MaxBorn] /\ Birth(s).at = s
  BY DEF Birth, LiveWereBorn
<1>2. RegistrationTypeOK'
  BY <1>1 DEF AppendListed
<1>3. LiveWereBorn' /\ StartedAsCalled'
  BY DEF LiveWereBorn, StartedAsCalled
<1>4. /\ Len(registered') = Len(registered) + 1
      /\ registered'[Len(registered) + 1] = Birth(s)
      /\ \A k \in 1 .. Len(registered) : registered'[k] = registered[k]
  BY <1>1
<1>5. ListFollows'
  <2>1. CASE Len(g_serviceList) < ListSize
    BY <1>1, <1>4, <2>1 DEF ListFollows, AppendListed
  <2>2. CASE ~(Len(g_serviceList) < ListSize)
    BY <1>4, <2>2 DEF ListFollows, AppendListed
  <2> QED
    BY <2>1, <2>2
<1>6. RegisteredStay'
  <2> SUFFICES ASSUME client = "careful", NEW k \in 1 .. Len(registered) + 1
               PROVE  /\ registered'[k].at \in live
                      /\ Birth(registered'[k].at) = registered'[k]
    BY <1>4 DEF RegisteredStay, Birth
  <2>1. CASE k = Len(registered) + 1
    BY <1>1, <1>4, <2>1
  <2>2. CASE k \in 1 .. Len(registered)
    BY <1>4, <2>2 DEF RegisteredStay
  <2> QED
    BY <2>1, <2>2
<1> QED
  BY <1>2, <1>3, <1>5, <1>6

LEMMA NextRegistrationInv == RegistrationInv /\ [RegistrationNext]_rvars => RegistrationInv'
<1> SUFFICES ASSUME RegistrationInv, [RegistrationNext]_rvars PROVE RegistrationInv'
  OBVIOUS
<1>1. ASSUME NEW s \in Services,
             LPNUIOServiceStart(s) \/ LPNUIOServiceStop(s)
      PROVE  RegistrationInv'
  <2> USE <1>1 DEF LPNUIOServiceStart, LPNUIOServiceStop, Called, RegistrationInv,
                   RegistrationTypeOK
  <2>1. RegistrationTypeOK'
    BY DEF Bits
  <2>2. StartedAsCalled'
    <3>1. CASE LPNUIOServiceStart(s)
      BY <3>1 DEF StartedAsCalled
    <3>2. CASE LPNUIOServiceStop(s)
      BY <3>2 DEF StartedAsCalled
    <3> QED
      BY <1>1, <3>1, <3>2
  <2>3. LiveWereBorn' /\ ListFollows' /\ RegisteredStay'
    BY DEF LiveWereBorn, ListFollows, RegisteredStay, Birth
  <2> QED
    BY <2>1, <2>2, <2>3
<1>2. ASSUME NEW s \in Services, NEW p \in Providers \union {NULL},
             LPNUIOServiceAddProvider(s, p)
      PROVE  RegistrationInv'
  BY <1>2 DEF LPNUIOServiceAddProvider, RegistrationInv, RegistrationTypeOK, LiveWereBorn,
              ListFollows, RegisteredStay, Birth, StartedAsCalled
<1>3. CASE UNCHANGED rvars
  BY <1>3 DEF rvars, RegistrationInv, RegistrationTypeOK, LiveWereBorn, ListFollows,
              RegisteredStay, Birth, StartedAsCalled
<1> QED
  BY <1>1, <1>2, <1>3, CreateServiceInv, DestroyServiceInv, RegisterServiceInv
     DEF RegistrationNext, LPNUIOServiceRemoveProvider

(* The inductive invariant of registration, for any size of the list, any  *)
(* number of services and either kind of client.                           *)
THEOREM RegistrationInvariant == RegistrationSpec => []RegistrationInv
BY InitRegistrationInv, NextRegistrationInv, PTL DEF RegistrationSpec

(* The list names the first services registered, in order; with a careful  *)
(* client every pointer of it is the service that was registered.          *)
THEOREM RegistrationsAreKept == RegistrationSpec => []RegistrationsKept
<1>1. ASSUME RegistrationInv PROVE RegistrationsKept
  <2> USE <1>1, ListAssumption DEF RegistrationInv, RegistrationTypeOK
  <2>1. Len(g_serviceList) <= ListSize
    BY DEF ListFollows
  <2>2. ASSUME NEW k \in 1 .. Len(registered), k <= ListSize
        PROVE  k <= Len(g_serviceList) /\ g_serviceList[k] = registered[k].at
    BY <2>2 DEF ListFollows
  <2>3. ASSUME NEW k \in 1 .. Len(registered), client = "careful"
        PROVE  /\ registered[k].at \in live
               /\ Birth(registered[k].at) = registered[k]
    BY <2>3 DEF RegisteredStay
  <2> QED
    BY <2>1, <2>2, <2>3 DEF RegistrationsKept
<1> QED
  BY <1>1, RegistrationInvariant, PTL

(* A service is started exactly when the last call since its creation was  *)
(* a Start, whatever was at its address before.                            *)
THEOREM RegistrationStarted == RegistrationSpec => []StartedAsCalled
<1>1. RegistrationInv => StartedAsCalled
  BY DEF RegistrationInv
<1> QED
  BY <1>1, RegistrationInvariant, PTL
=============================================================================
