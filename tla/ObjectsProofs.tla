--------------------------- MODULE ObjectsProofs ----------------------------
(***************************************************************************)
(* Theorems about MetalDevice and ClientObjects, for any threads, any set  *)
(* of addresses, any length of the arrays and any number of stores.        *)
(*                                                                         *)
(* Devices: until a creation overlaps another call a thread that reads the *)
(* global back finds what it stored (Alone), and releasing threads may     *)
(* leave in the global a device just freed, until their comparisons.       *)
(* While nothing has been freed and no allocation has failed, whatever a   *)
(* creation reads back is a device that exists (Made).                     *)
(*                                                                         *)
(* Objects: HeapInv says that an object of a kind that owns no further     *)
(* blocks owns none, nor does an address without an object, so that a      *)
(* destruction leaves nothing behind.  PipelineInv and EntryInv tie the    *)
(* memory of an object to what clients asked for since it was created.     *)
(***************************************************************************)
EXTENDS MetalDevice, ClientObjects, TLAPS

-----------------------------------------------------------------------------
(* Devices.                                                                *)

(* While no creation has overlapped another call.                          *)
Alone ==
  /\ ~broken
  /\ \A t, u \in Threads : Creating(t) /\ Inside(u) => t = u
  /\ \A t \in Threads : Creating(t) => g_device = own[t]
  /\ \A t \in Threads : pc[t] \notin {"idle", "stored"} => own[t] # NULL
  /\ \A t \in Threads : Holding(t) => own[t] \in live
  /\ \A d \in live : \E t \in Threads : Holding(t) /\ own[t] = d
  /\ \A t, u \in Threads : Holding(t) /\ Holding(u) /\ own[t] = own[u] => t = u
  /\ \/ g_device \in live \union {NULL}
     \/ \E t \in Threads : Releasing(t) /\ g_device = own[t]

(* While every allocation has succeeded and nothing has been freed.        *)
Made ==
  /\ ~broken
  /\ \A t \in Threads : ~Releasing(t)
  /\ \A t \in Threads : pc[t] # "idle" => own[t] \in live
  /\ \A t \in Threads : Creating(t) => g_device \in live

MInv == DeviceTypeOK /\ (~overlapped => Alone) /\ (onlyMade => Made)

LEMMA InitMInv == DeviceInit => MInv
  BY DEF DeviceInit, MInv, DeviceTypeOK, Alone, Made, Places, Creating, Releasing,
         Inside, Holding

(* Every step keeps the types. *)
LEMMA DeviceStepTypeOK ==
  ASSUME DeviceTypeOK, NEW t \in Threads, DeviceStep(t)
  PROVE  DeviceTypeOK'
<1> USE DEF DeviceTypeOK, Places, Goes, Holds, ReadBack
<1>1. CASE CreateStores(t)
  BY <1>1 DEF CreateStores, StartsCreation
<1>2. CASE CreateTests(t)
  BY <1>2 DEF CreateTests
<1>3. CASE CreateFills(t)
  BY <1>3 DEF CreateFills
<1>4. CASE CreateReturns(t)
  BY <1>4 DEF CreateReturns
<1>5. CASE ReleaseIgnoresNull(t)
  BY <1>5 DEF ReleaseIgnoresNull
<1>6. CASE ReleaseFrees(t)
  BY <1>6 DEF ReleaseFrees
<1>7. CASE ReleaseCompares(t)
  BY <1>7 DEF ReleaseCompares
<1>8. CASE ReleaseClears(t)
  BY <1>8 DEF ReleaseClears
<1> QED
  BY <1>1, <1>2, <1>3, <1>4, <1>5, <1>6, <1>7, <1>8 DEF DeviceStep

(* A step of one thread, which leaves the others where they are.           *)
Moves(t) ==
  \E place \in Places, d \in Devices \union {NULL} :
    pc' = [pc EXCEPT ![t] = place] /\ own' = [own EXCEPT ![t] = d]

LEMMA OthersStay ==
  ASSUME DeviceTypeOK, NEW t \in Threads, Moves(t)
  PROVE  \A u \in Threads \ {t} :
           /\ pc'[u] = pc[u] /\ own'[u] = own[u]
           /\ Creating(u)' <=> Creating(u)
           /\ Releasing(u)' <=> Releasing(u)
           /\ Inside(u)' <=> Inside(u)
           /\ Holding(u)' <=> Holding(u)
<1>1. \A u \in Threads \ {t} : pc'[u] = pc[u] /\ own'[u] = own[u]
  BY DEF DeviceTypeOK, Moves
<1> QED
  BY <1>1 DEF Creating, Releasing, Inside, Holding

(* The store of a new device, and the failure to allocate one.             *)
LEMMA CreateStoresAlone ==
  ASSUME MInv, NEW t \in Threads, CreateStores(t), ~overlapped'
  PROVE  Alone'
<1>1. ~overlapped /\ \A u \in Threads : ~Inside(u)
  BY DEF CreateStores, StartsCreation
<1>2. Alone /\ DeviceTypeOK
  BY <1>1 DEF MInv
<1>3. pc[t] = "idle" /\ pc' = [pc EXCEPT ![t] = "stored"] /\ broken' = broken
  BY DEF CreateStores, StartsCreation, Goes
<1>4. ~Holding(t)
  BY <1>3 DEF Holding, Creating
<1>5. PICK d \in Devices \union {NULL} :
        /\ own' = [own EXCEPT ![t] = d]
        /\ g_device' = d
        /\ \/ d \in Devices \ live /\ live' = live \union {d}
           \/ d = NULL /\ live' = live
  BY DEF CreateStores, Holds
<1>6. Moves(t)
  BY <1>3, <1>5 DEF Moves, Places
<1>7. own'[t] = d /\ pc'[t] = "stored" /\ Creating(t)'
  BY <1>2, <1>3, <1>5 DEF DeviceTypeOK, Creating
<1>8. Holding(t)' <=> d # NULL
  BY <1>7 DEF Holding
<1>9. \A u \in Threads \ {t} : ~Inside(u)' /\ ~Creating(u)'
  BY <1>1, <1>2, <1>6, OthersStay DEF Inside
<1>10. \A u \in Threads : pc'[u] \notin {"idle", "stored"} => own'[u] # NULL
  BY <1>2, <1>6, <1>7, OthersStay DEF Alone
<1>11. d \in live' \union {NULL} /\ live \subseteq live' /\ d \notin live
  BY <1>2, <1>5, DevicesAssumption DEF DeviceTypeOK
<1>12. \A u \in Threads : Holding(u)' => own'[u] \in live'
  BY <1>2, <1>6, <1>7, <1>8, <1>11, OthersStay DEF Alone
<1>13. \A e \in live' : \E u \in Threads : Holding(u)' /\ own'[u] = e
  <2> SUFFICES ASSUME NEW e \in live'
               PROVE  \E u \in Threads : Holding(u)' /\ own'[u] = e
    OBVIOUS
  <2>1. CASE e \in live
    <3> PICK u \in Threads : Holding(u) /\ own[u] = e
      BY <1>2, <2>1 DEF Alone
    <3> QED
      BY <1>2, <1>4, <1>6, OthersStay
  <2>2. CASE e \notin live
    BY <1>5, <1>7, <1>8, <2>2, DevicesAssumption
  <2> QED
    BY <2>1, <2>2
<1>14. \A u, v \in Threads : Holding(u)' /\ Holding(v)' /\ own'[u] = own'[v] => u = v
  BY <1>2, <1>6, <1>7, <1>11, OthersStay DEF Alone
<1> QED
  BY <1>2, <1>3, <1>5, <1>7, <1>9, <1>10, <1>11, <1>12, <1>13, <1>14 DEF Alone

(* A thread that reads the global back alone finds what it stored.         *)
LEMMA ReadsItsOwn ==
  ASSUME Alone, NEW t \in Threads, Creating(t)
  PROVE  ReadBack(t) = {own[t]}
  BY DEF Alone, ReadBack

(* A creation alone goes on with the device it has stored, or fails.       *)
LEMMA CreateGoesOnAlone ==
  ASSUME Alone, DeviceTypeOK, NEW t \in Threads, Creating(t),
         NEW place \in {"checked", "filled", "owner"}, own[t] # NULL,
         pc' = [pc EXCEPT ![t] = place],
         UNCHANGED <<live, g_device, own, broken>>
  PROVE  Alone'
<1>1. Moves(t)
  BY DEF Moves, DeviceTypeOK, Places
<1>2. pc'[t] = place
  BY DEF DeviceTypeOK
<1>3. Holding(t) /\ Holding(t)' /\ ~Releasing(t) /\ ~Releasing(t)' /\ Inside(t)
  BY <1>2 DEF Holding, Creating, Releasing, Inside
<1>4. \A u \in Threads : Holding(u)' <=> Holding(u)
  BY <1>1, <1>3, OthersStay
<1>5. \A u \in Threads \ {t} : ~Inside(u) /\ ~Inside(u)' /\ ~Creating(u)'
  BY <1>1, OthersStay DEF Alone, Inside
<1>6. g_device = own[t] /\ g_device \in live
  BY <1>3 DEF Alone
<1>7. \A u \in Threads : pc'[u] \notin {"idle", "stored"} => own'[u] # NULL
  BY <1>1, OthersStay DEF Alone
<1> QED
  BY <1>3, <1>4, <1>5, <1>6, <1>7 DEF Alone

LEMMA CreateTestsAlone ==
  ASSUME MInv, NEW t \in Threads, CreateTests(t), ~overlapped'
  PROVE  Alone'
<1>1. Alone /\ DeviceTypeOK /\ pc[t] = "stored" /\ Creating(t)
  BY DEF MInv, CreateTests, Creating
<1>2. UNCHANGED <<live, g_device, broken>>
  BY DEF CreateTests
<1>3. ReadBack(t) = {own[t]}
  BY <1>1, ReadsItsOwn
<1>4. CASE own[t] # NULL
  <2>1. pc' = [pc EXCEPT ![t] = "checked"] /\ UNCHANGED own
    BY <1>3, <1>4 DEF CreateTests, Goes
  <2> QED
    BY <1>1, <1>2, <1>4, <2>1, CreateGoesOnAlone
<1>5. CASE own[t] = NULL
  <2>1. pc' = [pc EXCEPT ![t] = "idle"] /\ own' = [own EXCEPT ![t] = NULL]
    BY <1>3, <1>5 DEF CreateTests, Goes, Holds
  <2>2. Moves(t)
    BY <2>1 DEF Moves, Places
  <2>3. pc'[t] = "idle" /\ own'[t] = NULL
    BY <1>1, <2>1 DEF DeviceTypeOK
  <2>4. ~Holding(t) /\ ~Holding(t)' /\ ~Inside(t)' /\ ~Creating(t)' /\ Inside(t)
    BY <1>1, <1>5, <2>3 DEF Holding, Inside, Creating, Releasing
  <2>5. \A u \in Threads : ~Creating(u)' /\ ~Releasing(u)
    BY <1>1, <2>2, <2>4, OthersStay DEF Alone, Inside, Creating, Releasing
  <2>6. \A u \in Threads : (Holding(u)' <=> Holding(u)) /\ own'[u] = own[u]
    BY <1>1, <1>5, <2>2, <2>3, <2>4, OthersStay
  <2>7. \A u \in Threads : pc'[u] \notin {"idle", "stored"} => own'[u] # NULL
    BY <1>1, <2>2, <2>3, OthersStay DEF Alone
  <2> QED
    BY <1>1, <1>2, <2>5, <2>6, <2>7 DEF Alone
<1> QED
  BY <1>4, <1>5

LEMMA CreateFillsAlone ==
  ASSUME MInv, NEW t \in Threads, CreateFills(t), ~overlapped'
  PROVE  Alone'
<1>1. Alone /\ DeviceTypeOK /\ pc[t] = "checked" /\ Creating(t)
  BY DEF MInv, CreateFills, Creating
<1>2. ReadBack(t) = {own[t]} /\ own[t] # NULL /\ own[t] \in live /\ ~broken
  BY <1>1, ReadsItsOwn DEF Alone, Holding
<1>3. /\ pc' = [pc EXCEPT ![t] = "filled"] /\ broken' = FALSE
      /\ UNCHANGED <<live, g_device, own>>
  BY <1>2 DEF CreateFills, Goes
<1>4. broken' = broken
  BY <1>1, <1>2, <1>3 DEF DeviceTypeOK
<1> QED
  BY <1>1, <1>2, <1>3, <1>4, CreateGoesOnAlone

LEMMA CreateReturnsAlone ==
  ASSUME MInv, NEW t \in Threads, CreateReturns(t), ~overlapped'
  PROVE  Alone'
<1>1. Alone /\ DeviceTypeOK /\ pc[t] = "filled" /\ Creating(t)
  BY DEF MInv, CreateReturns, Creating
<1>2. ReadBack(t) = {own[t]} /\ own[t] # NULL
  BY <1>1, ReadsItsOwn DEF Alone
<1>3. /\ pc' = [pc EXCEPT ![t] = "owner"] /\ own' = own
      /\ UNCHANGED <<live, g_device, broken>>
  BY <1>1, <1>2 DEF CreateReturns, Goes, Holds, DeviceTypeOK
<1> QED
  BY <1>1, <1>2, <1>3, CreateGoesOnAlone

(* The freed device had no other holder; the global may still name it.     *)
LEMMA ReleaseFreesAlone ==
  ASSUME MInv, NEW t \in Threads, ReleaseFrees(t), ~overlapped'
  PROVE  Alone'
<1>1. ~overlapped /\ \A u \in Threads : ~Creating(u)
  BY DEF ReleaseFrees
<1>2. Alone /\ DeviceTypeOK /\ pc[t] = "owner" /\ own[t] # NULL
  BY <1>1 DEF MInv, ReleaseFrees
<1>3. Holding(t)
  BY <1>2 DEF Holding
<1>4. /\ pc' = [pc EXCEPT ![t] = "freed"]
      /\ live' = live \ {own[t]}
      /\ ~broken'
      /\ UNCHANGED <<g_device, own>>
  BY <1>2, <1>3 DEF ReleaseFrees, Goes, Alone
<1>5. Moves(t)
  BY <1>2, <1>4 DEF Moves, Places, DeviceTypeOK
<1>6. pc'[t] = "freed"
  BY <1>2, <1>4 DEF DeviceTypeOK
<1>7. ~Holding(t)' /\ ~Creating(t)' /\ Releasing(t)' /\ ~Releasing(t)
  BY <1>2, <1>6 DEF Holding, Creating, Releasing
<1>8. \A u \in Threads : ~Creating(u)'
  BY <1>1, <1>2, <1>5, <1>7, OthersStay
<1>9. \A u \in Threads : Holding(u)' => own'[u] \in live' /\ Holding(u)
  BY <1>2, <1>3, <1>4, <1>5, <1>7, OthersStay DEF Alone
<1>10. \A e \in live' : \E u \in Threads : Holding(u)' /\ own'[u] = e
  <2> SUFFICES ASSUME NEW e \in live'
               PROVE  \E u \in Threads : Holding(u)' /\ own'[u] = e
    OBVIOUS
  <2>1. PICK u \in Threads : Holding(u) /\ own[u] = e
    BY <1>2, <1>4 DEF Alone
  <2>2. u # t
    BY <1>4, <2>1
  <2> QED
    BY <1>2, <1>4, <1>5, <2>1, <2>2, OthersStay
<1>11. \A u, v \in Threads : Holding(u)' /\ Holding(v)' /\ own'[u] = own'[v] => u = v
  BY <1>2, <1>4, <1>9 DEF Alone
<1>12. \A u \in Threads : pc'[u] \notin {"idle", "stored"} => own'[u] # NULL
  BY <1>2, <1>4, <1>5, OthersStay DEF Alone
<1>13. \/ g_device' \in live' \union {NULL}
       \/ \E u \in Threads : Releasing(u)' /\ g_device' = own'[u]
  <2>1. CASE g_device = own[t]
    BY <1>4, <1>7, <2>1
  <2>2. CASE g_device # own[t] /\ g_device \in live \union {NULL}
    BY <1>4, <2>2
  <2>3. CASE \E u \in Threads : Releasing(u) /\ g_device = own[u]
    BY <1>2, <1>4, <1>5, <1>7, <2>3, OthersStay
  <2> QED
    BY <1>2, <2>1, <2>2, <2>3 DEF Alone
<1> QED
  BY <1>4, <1>8, <1>9, <1>10, <1>11, <1>12, <1>13 DEF Alone

(* The end of a release, which leaves no trace of its device in the global.*)
LEMMA ReleaseEndsAlone ==
  ASSUME Alone, DeviceTypeOK, NEW t \in Threads, Releasing(t),
         pc' = [pc EXCEPT ![t] = "idle"], own' = [own EXCEPT ![t] = NULL],
         g_device' = NULL \/ (g_device' = g_device /\ own[t] # g_device),
         UNCHANGED <<live, broken>>
  PROVE  Alone'
<1>1. Moves(t)
  BY DEF Moves, Places
<1>2. pc'[t] = "idle" /\ own'[t] = NULL
  BY DEF DeviceTypeOK
<1>3. Inside(t) /\ ~Creating(t) /\ ~Holding(t) /\ ~Holding(t)' /\ ~Creating(t)'
  BY <1>2 DEF Inside, Creating, Releasing, Holding
<1>4. \A u \in Threads : ~Creating(u)'
  BY <1>1, <1>3, OthersStay DEF Alone
<1>5. \A u \in Threads : (Holding(u)' <=> Holding(u)) /\ (u # t => own'[u] = own[u])
  BY <1>1, <1>3, OthersStay
<1>6. \A e \in live' : \E u \in Threads : Holding(u)' /\ own'[u] = e
  BY <1>3, <1>5 DEF Alone
<1>7. \A u \in Threads : pc'[u] \notin {"idle", "stored"} => own'[u] # NULL
  BY <1>1, <1>2, OthersStay DEF Alone
<1>8. \/ g_device' \in live' \union {NULL}
      \/ \E u \in Threads : Releasing(u)' /\ g_device' = own'[u]
  BY <1>1, OthersStay DEF Alone
<1>9. /\ \A u \in Threads : Holding(u)' => own'[u] \in live'
      /\ \A u, v \in Threads : Holding(u)' /\ Holding(v)' /\ own'[u] = own'[v] => u = v
  BY <1>3, <1>5 DEF Alone
<1> QED
  BY <1>4, <1>6, <1>7, <1>8, <1>9 DEF Alone

LEMMA ReleaseComparesAlone ==
  ASSUME MInv, NEW t \in Threads, ReleaseCompares(t), ~overlapped'
  PROVE  Alone'
<1>1. Alone /\ DeviceTypeOK /\ pc[t] = "freed" /\ Releasing(t)
  BY DEF MInv, ReleaseCompares, Releasing
<1>2. UNCHANGED <<live, g_device, broken>>
  BY DEF ReleaseCompares
<1>3. CASE own[t] # g_device
  BY <1>1, <1>2, <1>3, ReleaseEndsAlone DEF ReleaseCompares, Goes, Holds
<1>4. CASE own[t] = g_device
  <2>1. pc' = [pc EXCEPT ![t] = "matched"] /\ own' = own
    BY <1>4 DEF ReleaseCompares, Goes
  <2>2. Moves(t)
    BY <1>1, <2>1 DEF Moves, Places, DeviceTypeOK
  <2>3. pc'[t] = "matched"
    BY <1>1, <2>1 DEF DeviceTypeOK
  <2>4. \A u \in Threads :
          /\ Creating(u)' <=> Creating(u)
          /\ Releasing(u)' <=> Releasing(u)
          /\ Inside(u)' <=> Inside(u)
          /\ Holding(u)' <=> Holding(u)
    BY <1>1, <2>2, <2>3, OthersStay DEF Creating, Releasing, Inside, Holding
  <2>5. \A u \in Threads : pc'[u] \notin {"idle", "stored"} => own'[u] # NULL
    BY <1>1, <2>1, <2>2, OthersStay DEF Alone
  <2> QED
    BY <1>1, <1>2, <2>1, <2>4, <2>5 DEF Alone
<1> QED
  BY <1>3, <1>4

LEMMA ReleaseClearsAlone ==
  ASSUME MInv, NEW t \in Threads, ReleaseClears(t), ~overlapped'
  PROVE  Alone'
<1>1. Alone /\ DeviceTypeOK /\ Releasing(t)
  BY DEF MInv, ReleaseClears, Releasing
<1> QED
  BY <1>1, ReleaseEndsAlone DEF ReleaseClears, Goes, Holds

(* Without releases and failures whatever a creation reads back exists.    *)
LEMMA DeviceStepMade ==
  ASSUME MInv, NEW t \in Threads, DeviceStep(t), onlyMade'
  PROVE  Made'
<1>1. ~ReleaseFrees(t)
  BY DEF ReleaseFrees
<1>2. onlyMade
  BY <1>1 DEF DeviceStep, CreateStores, CreateTests, CreateFills, CreateReturns,
     ReleaseIgnoresNull, ReleaseCompares, ReleaseClears
<1>3. Made /\ DeviceTypeOK
  BY <1>2 DEF MInv
<1>4. NULL \notin live
  BY <1>3, DevicesAssumption DEF DeviceTypeOK
<1>5. CASE CreateStores(t)
  <2>1. PICK d \in Devices : live' = live \union {d} /\ g_device' = d /\ Holds(t, d)
    BY <1>5 DEF CreateStores
  <2>2. pc' = [pc EXCEPT ![t] = "stored"] /\ ~broken'
    BY <1>3, <1>5 DEF CreateStores, StartsCreation, Goes, Made
  <2>3. own' = [own EXCEPT ![t] = d]
    BY <2>1 DEF Holds
  <2>4. Moves(t)
    BY <2>2, <2>3 DEF Moves, Places
  <2>5. pc'[t] = "stored" /\ own'[t] = d
    BY <1>3, <2>2, <2>3 DEF DeviceTypeOK
  <2> QED
    BY <1>3, <2>1, <2>2, <2>4, <2>5, OthersStay DEF Made, Releasing
<1>6. CASE Creating(t) /\ \E d \in live, place \in {"checked", "filled", "owner"} :
             /\ pc' = [pc EXCEPT ![t] = place] /\ own' = [own EXCEPT ![t] = d]
             /\ ~broken' /\ UNCHANGED <<live, g_device>>
  <2>1. PICK d \in live, place \in {"checked", "filled", "owner"} :
          /\ pc' = [pc EXCEPT ![t] = place] /\ own' = [own EXCEPT ![t] = d]
          /\ ~broken' /\ UNCHANGED <<live, g_device>>
    BY <1>6
  <2>2. Moves(t)
    BY <1>3, <2>1 DEF Moves, Places, DeviceTypeOK
  <2>3. pc'[t] = place /\ own'[t] = d
    BY <1>3, <2>1 DEF DeviceTypeOK
  <2>4. g_device' \in live'
    BY <1>3, <1>6, <2>1 DEF Made
  <2> QED
    BY <1>3, <2>1, <2>2, <2>3, <2>4, OthersStay DEF Made, Releasing
<1>7. ASSUME Creating(t)
      PROVE  ReadBack(t) \subseteq live /\ own[t] \in live /\ own = [own EXCEPT ![t] = own[t]]
  BY <1>3, <1>7 DEF Made, ReadBack, Creating, DeviceTypeOK
<1>8. CASE CreateTests(t)
  <2>1. Creating(t)
    BY <1>8 DEF CreateTests, Creating
  <2>2. pc' = [pc EXCEPT ![t] = "checked"] /\ UNCHANGED <<own, live, g_device, broken>>
    BY <1>4, <1>7, <1>8, <2>1 DEF CreateTests, Goes
  <2> QED
    BY <1>3, <1>6, <1>7, <2>1, <2>2 DEF Made
<1>9. CASE CreateFills(t)
  <2>1. Creating(t)
    BY <1>9 DEF CreateFills, Creating
  <2>2. /\ pc' = [pc EXCEPT ![t] = "filled"] /\ ~broken'
        /\ UNCHANGED <<own, live, g_device>>
    BY <1>7, <1>9, <2>1 DEF CreateFills, Goes
  <2> QED
    BY <1>6, <1>7, <2>1, <2>2
<1>10. CASE CreateReturns(t)
  <2>1. Creating(t)
    BY <1>10 DEF CreateReturns, Creating
  <2>2. PICK d \in live : own' = [own EXCEPT ![t] = d]
    BY <1>7, <1>10, <2>1 DEF CreateReturns, Holds
  <2>3. /\ pc' = [pc EXCEPT ![t] = "owner"] /\ ~broken'
        /\ UNCHANGED <<live, g_device>>
    BY <1>3, <1>10 DEF CreateReturns, Goes, Made
  <2> QED
    BY <1>6, <2>1, <2>2, <2>3
<1>11. ~ReleaseIgnoresNull(t) /\ ~ReleaseCompares(t) /\ ~ReleaseClears(t)
  BY <1>3, <1>4 DEF Made, Releasing, ReleaseIgnoresNull, ReleaseCompares, ReleaseClears
<1> QED
  BY <1>1, <1>5, <1>8, <1>9, <1>10, <1>11 DEF DeviceStep

LEMMA NextMInv == MInv /\ [DeviceNext]_mvars => MInv'
<1> SUFFICES ASSUME MInv, [DeviceNext]_mvars PROVE MInv'
  OBVIOUS
<1>1. CASE UNCHANGED mvars
  BY <1>1 DEF MInv, DeviceTypeOK, Alone, Made, Creating, Releasing, Inside, Holding, mvars
<1>2. ASSUME NEW t \in Threads, DeviceStep(t)
      PROVE  MInv'
  <2>1. DeviceTypeOK'
    BY <1>2, DeviceStepTypeOK DEF MInv
  <2>2. onlyMade' => Made'
    BY <1>2, DeviceStepMade
  <2>3. ASSUME ~overlapped' PROVE Alone'
    <3>1. ~ReleaseIgnoresNull(t)
      <4>1. ASSUME ReleaseIgnoresNull(t) PROVE FALSE
        <5>1. Alone /\ pc[t] = "owner" /\ own[t] = NULL
          BY <2>3, <4>1 DEF ReleaseIgnoresNull, MInv
        <5> QED
          BY <5>1 DEF Alone
      <4> QED
        BY <4>1
    <3> QED
      BY <1>2, <2>3, <3>1, CreateStoresAlone, CreateTestsAlone, CreateFillsAlone,
         CreateReturnsAlone, ReleaseFreesAlone, ReleaseComparesAlone,
         ReleaseClearsAlone DEF DeviceStep
  <2> QED
    BY <2>1, <2>2, <2>3 DEF MInv
<1> QED
  BY <1>1, <1>2 DEF DeviceNext

(* Every reachable state satisfies the inductive invariant.                *)
THEOREM MetalDeviceInvariant == DeviceSpec => []MInv
  BY InitMInv, NextMInv, PTL DEF DeviceSpec

(* Until a creation overlaps another call, devices and their owners are    *)
(* one to one, and nothing is written or freed that is not allocated.      *)
THEOREM MetalDeviceOwn == DeviceSpec => []OwnUnlessOverlapped
<1>1. MInv => OwnUnlessOverlapped
  BY DEF MInv, Alone, OwnUnlessOverlapped
<1> QED
  BY <1>1, MetalDeviceInvariant, PTL

(* Until a creation overlaps another call, the global names a device that  *)
(* exists whenever nobody is inside.                                       *)
THEOREM MetalDeviceGlobalLive == DeviceSpec => []GlobalLiveUnlessOverlapped
<1>1. MInv => GlobalLiveUnlessOverlapped
  BY DEF MInv, Alone, GlobalLiveUnlessOverlapped, Inside
<1> QED
  BY <1>1, MetalDeviceInvariant, PTL

(* However creations overlap, each answers a device that exists, as long   *)
(* as none has failed to allocate and nothing has been released.           *)
THEOREM MetalDeviceAnswersExist == DeviceSpec => []AnswersExistWhileOnlyMade
<1>1. MInv => AnswersExistWhileOnlyMade
  BY DEF MInv, Made, AnswersExistWhileOnlyMade
<1> QED
  BY <1>1, MetalDeviceInvariant, PTL

-----------------------------------------------------------------------------
(* The invariant of the objects.                                           *)

(* The kinds of object with one further block, and with any number.        *)
OneBlockKinds == {"buffer", "buffer descriptor", "pool"}
OwningKinds   == OneBlockKinds \union {"data queue", "dictionary"}

(* The kinds that are one block with nothing in it that matters here.      *)
PlainKinds ==
  {"texture", "sampler", "queue", "command", "library", "function", "compute",
   "lock", "simple lock", "descriptor", "user client", "shared lock",
   "device memory", "tree node", "work loop", "condition lock",
   "command queue", "shared queue"}

Kinds == PlainKinds \union OwningKinds \union {"render", "registry entry", "none"}

HeapTypes ==
  /\ heap \subseteq Addresses
  /\ kind \in [Addresses -> Kinds]
  /\ owned \in [Addresses -> SUBSET Addresses]

(* Every allocated block is a structure or a further block, never both, and *)
(* a further block is one object's.                                        *)
Accounted ==
  /\ \A a \in Addresses :
       a \in heap <=> kind[a] # "none" \/ \E g \in Addresses : a \in owned[g]
  /\ \A a, g \in Addresses : a \in owned[g] => kind[a] = "none"
  /\ \A a, f, g \in Addresses : a \in owned[f] /\ a \in owned[g] => f = g

HeapInv ==
  /\ HeapTypes
  /\ Accounted
  /\ \A h \in Addresses : kind[h] \notin OwningKinds => owned[h] = {}
  /\ \A h \in Addresses : kind[h] \in OneBlockKinds => \E d \in Addresses : owned[h] = {d}

Handles == Addresses \union {NULL, "garbage"}

PipelineInv ==
  /\ memory \in [Addresses -> [Words -> Handles]]
  /\ asked \in [Addresses -> [Words -> Handles]]
  /\ PipelineHoldsAsked

EntryInv ==
  /\ allocs \in [Addresses -> Seq(Values \union {"garbage"})]
  /\ stored \in [Addresses -> Seq(Values)]
  /\ EntryHoldsFirst

ObjectsInv == HeapInv /\ PipelineInv /\ EntryInv

-----------------------------------------------------------------------------
(* What the steps do to the heap.                                          *)

Makes(h)       == \E k \in PlainKinds : New(h, k)
MakesOwning(h) ==
  \E k \in OwningKinds, blocks \in SUBSET Addresses :
    /\ NewOwning(h, blocks, k)
    /\ k \in OneBlockKinds => \E d \in Addresses : blocks = {d}
Frees(h) ==
  \E k \in PlainKinds : Free(h, k) /\ (k = "texture" => ~Bound(h))
FreesOwning(h) ==
  \E k \in OwningKinds : FreeOwning(h, k) /\ (k = "buffer" => ~Bound(h))

(* The steps that leave pipelines and entries alone. *)
HeapStep(h) ==
  /\ Makes(h) \/ MakesOwning(h) \/ SecondFails(h) \/ Frees(h) \/ FreesOwning(h)
  /\ UNCHANGED metalvars /\ UNCHANGED iokitvars

PipelineStep(p) ==
  /\ \/ LPnuMetalRenderPipelineCreate(p)
     \/ LPnuMetalRenderPipelineDestroy(p)
     \/ \E i \in 0 .. Slots, b \in OfKind("buffer") \union {NULL} :
          LPnuMetalRenderPipelineSetBuffer(p, i, b)
     \/ \E i \in 0 .. Slots, x \in OfKind("texture") \union {NULL} :
          LPnuMetalRenderPipelineSetTexture(p, i, x)
  /\ UNCHANGED iokitvars

EntryStep(h) ==
  /\ \/ LPNUIORegistryEntryCreate(h)
     \/ LPNUIORegistryEntryDestroy(h)
     \/ \E v \in Values : LPNUIORegistryEntrySetProperty(h, v)
  /\ UNCHANGED metalvars

(* Every step of the Metal layer is one of the first two kinds.            *)
LEMMA MetalSteps ==
  ASSUME MetalNext, UNCHANGED iokitvars
  PROVE  \E h \in Addresses : HeapStep(h) \/ PipelineStep(h)
<1> USE DEF HeapStep, PipelineStep
<1>1. ASSUME NEW h \in Addresses, NEW d \in Addresses, LPnuMetalBufferCreate(h, d)
      PROVE  HeapStep(h)
  <2>1. NewOwning(h, {d}, "buffer") /\ UNCHANGED metalvars
    BY <1>1 DEF LPnuMetalBufferCreate
  <2>2. {d} \in SUBSET Addresses /\ "buffer" \in OwningKinds
    BY DEF OwningKinds, OneBlockKinds
  <2> QED
    BY <2>1, <2>2 DEF MakesOwning
<1>2. ASSUME NEW h \in Addresses, BufferDataFails(h)
      PROVE  HeapStep(h)
  BY <1>2 DEF BufferDataFails
<1>3. ASSUME NEW h \in Addresses, LPnuMetalBufferDestroy(h)
      PROVE  HeapStep(h)
  BY <1>3 DEF LPnuMetalBufferDestroy, FreesOwning, OwningKinds, OneBlockKinds
<1>4. ASSUME NEW h \in Addresses,
             \/ LPnuMetalTextureCreate(h) \/ LPnuMetalSamplerCreate(h)
             \/ LPnuMetalCommandQueueCreate(h) \/ LPnuMetalCommandBufferCreate(h)
             \/ LPnuMetalLibraryCreateFromSource(h)
             \/ LPnuMetalLibraryGetFunction(h)
             \/ LPnuMetalComputePipelineCreate(h)
      PROVE  HeapStep(h)
  BY <1>4
     DEF Makes, PlainKinds, LPnuMetalTextureCreate, LPnuMetalSamplerCreate,
         LPnuMetalCommandQueueCreate, LPnuMetalCommandBufferCreate,
         LPnuMetalLibraryCreateFromSource, LPnuMetalLibraryGetFunction,
         LPnuMetalComputePipelineCreate
<1>5. ASSUME NEW h \in Addresses,
             \/ LPnuMetalTextureDestroy(h) \/ LPnuMetalSamplerDestroy(h)
             \/ LPnuMetalCommandQueueDestroy(h) \/ LPnuMetalCommandBufferDestroy(h)
             \/ LPnuMetalComputePipelineDestroy(h)
      PROVE  HeapStep(h)
  BY <1>5
     DEF Frees, PlainKinds, LPnuMetalTextureDestroy, LPnuMetalSamplerDestroy,
         LPnuMetalCommandQueueDestroy, LPnuMetalCommandBufferDestroy,
         LPnuMetalComputePipelineDestroy
<1> QED
  BY <1>1, <1>2, <1>3, <1>4, <1>5 DEF MetalNext

(* Every step of IOKit is one of the other two.                            *)
LEMMA IOKitSteps ==
  ASSUME IOKitNext, UNCHANGED metalvars
  PROVE  \E h \in Addresses : HeapStep(h) \/ EntryStep(h)
<1> USE DEF HeapStep, EntryStep
<1>1. ASSUME NEW h \in Addresses, NEW d \in Addresses,
             \/ LPNUIOBufferMemoryDescriptorCreate(h, d)
             \/ LPNUIOCommandPoolCreate(h, d) \/ LPNUIODataQueueCreate(h, d)
      PROVE  HeapStep(h)
  <2>1. {d} \in SUBSET Addresses /\ {"buffer descriptor", "pool", "data queue"} \subseteq OwningKinds
    BY DEF OwningKinds, OneBlockKinds
  <2> QED
    BY <1>1, <2>1 DEF MakesOwning, LPNUIOBufferMemoryDescriptorCreate,
                      LPNUIOCommandPoolCreate, LPNUIODataQueueCreate
<1>2. ASSUME NEW h \in Addresses, NEW arrays \in SUBSET Addresses,
             LPNUIODictionaryCreate(h, arrays)
      PROVE  HeapStep(h)
  <2>1. "dictionary" \in OwningKinds /\ "dictionary" \notin OneBlockKinds
    BY DEF OwningKinds, OneBlockKinds
  <2>2. NewOwning(h, arrays, "dictionary")
    BY <1>2 DEF LPNUIODictionaryCreate
  <2>3. MakesOwning(h)
    BY <2>1, <2>2 DEF MakesOwning
  <2> QED
    BY <1>2, <2>3 DEF LPNUIODictionaryCreate
<1>3. ASSUME NEW h \in Addresses,
             BufferFails(h) \/ CommandsFail(h) \/ QueueDataFails(h)
      PROVE  HeapStep(h)
  BY <1>3 DEF BufferFails, CommandsFail, QueueDataFails
<1>4. ASSUME NEW h \in Addresses,
             \/ LPNUIOBufferMemoryDescriptorDestroy(h) \/ LPNUIOCommandPoolDestroy(h)
             \/ LPNUIODataQueueDestroy(h) \/ LPNUIODictionaryDestroy(h)
      PROVE  HeapStep(h)
  <2>1. \E k \in {"buffer descriptor", "pool", "data queue", "dictionary"} :
          FreeOwning(h, k)
    BY <1>4 DEF LPNUIOBufferMemoryDescriptorDestroy, LPNUIOCommandPoolDestroy,
                LPNUIODataQueueDestroy, LPNUIODictionaryDestroy
  <2>2. FreesOwning(h)
    BY <2>1 DEF FreesOwning, OwningKinds, OneBlockKinds
  <2> QED
    BY <1>4, <2>2 DEF LPNUIOBufferMemoryDescriptorDestroy, LPNUIOCommandPoolDestroy,
                      LPNUIODataQueueDestroy, LPNUIODictionaryDestroy
<1>5. ASSUME NEW h \in Addresses,
             \/ LPNUIOLockCreate(h) \/ LPNUIOSimpleLockCreate(h)
             \/ LPNUIOMemoryDescriptorCreate(h) \/ LPNUIOUserClientCreate(h)
             \/ LPNUIOSharedLockCreate(h) \/ LPNUIODeviceMemoryCreate(h)
             \/ LPNUIODeviceTreeCreate(h) \/ LPNUIODeviceTreeAddChild(h)
             \/ LPNUIOWorkLoopCreate(h) \/ LPNUIOConditionLockCreate(h)
             \/ LPNUIOCommandQueueCreate(h) \/ LPNUIOSharedDataQueueCreate(h)
      PROVE  HeapStep(h)
  BY <1>5
     DEF Makes, PlainKinds, LPNUIOLockCreate, LPNUIOSimpleLockCreate,
         LPNUIOMemoryDescriptorCreate, LPNUIOUserClientCreate,
         LPNUIOSharedLockCreate, LPNUIODeviceMemoryCreate,
         LPNUIODeviceTreeCreate, LPNUIODeviceTreeAddChild,
         LPNUIOWorkLoopCreate, LPNUIOConditionLockCreate,
         LPNUIOCommandQueueCreate, LPNUIOSharedDataQueueCreate
<1>6. ASSUME NEW h \in Addresses,
             \/ LPNUIOLockDestroy(h) \/ LPNUIOSimpleLockDestroy(h)
             \/ LPNUIOMemoryDescriptorDestroy(h) \/ LPNUIOUserClientDestroy(h)
             \/ LPNUIOSharedLockDestroy(h) \/ LPNUIODeviceMemoryDestroy(h)
             \/ LPNUIODeviceTreeDestroy(h) \/ LPNUIOWorkLoopDestroy(h)
             \/ LPNUIOConditionLockDestroy(h) \/ LPNUIOCommandQueueDestroy(h)
             \/ LPNUIOSharedDataQueueDestroy(h)
      PROVE  HeapStep(h)
  BY <1>6
     DEF Frees, PlainKinds, LPNUIOLockDestroy, LPNUIOSimpleLockDestroy,
         LPNUIOMemoryDescriptorDestroy, LPNUIOUserClientDestroy,
         LPNUIOSharedLockDestroy, LPNUIODeviceMemoryDestroy,
         LPNUIODeviceTreeDestroy, LPNUIOWorkLoopDestroy,
         LPNUIOConditionLockDestroy, LPNUIOCommandQueueDestroy,
         LPNUIOSharedDataQueueDestroy
<1> QED
  BY <1>1, <1>2, <1>3, <1>4, <1>5, <1>6 DEF IOKitNext

-----------------------------------------------------------------------------
(* The heap.                                                               *)

(* A free address has no object, owns nothing and is nobody's block.       *)
LEMMA FreeAddress ==
  ASSUME HeapInv, NEW h \in Addresses, h \notin heap
  PROVE  kind[h] = "none" /\ owned[h] = {} /\ \A g \in Addresses : h \notin owned[g]
BY DEF HeapInv, Accounted, OwningKinds, OneBlockKinds

(* The address of an object is allocated, and is nobody's block.           *)
LEMMA ObjectAddress ==
  ASSUME HeapInv, NEW h \in Addresses, kind[h] # "none"
  PROVE  h \in heap /\ \A g \in Addresses : h \notin owned[g]
BY DEF HeapInv, Accounted

(* A structure of its own and nothing else.                                *)
LEMMA NewKeepsHeap ==
  ASSUME HeapInv, NEW h \in Addresses, NEW k \in Kinds \ OwningKinds, k # "none",
         New(h, k)
  PROVE  HeapInv'
<1>1. kind[h] = "none" /\ owned[h] = {} /\ \A g \in Addresses : h \notin owned[g]
  BY FreeAddress DEF New
<1>2. /\ heap' = heap \union {h} /\ owned' = owned
      /\ kind' \in [Addresses -> Kinds] /\ kind'[h] = k
      /\ \A g \in Addresses \ {h} : kind'[g] = kind[g]
  BY DEF New, HeapInv, HeapTypes
<1>3. HeapTypes'
  BY <1>2 DEF HeapInv, HeapTypes
<1>4. Accounted'
  BY <1>1, <1>2 DEF HeapInv, Accounted
<1>5. \A g \in Addresses : kind'[g] \notin OwningKinds => owned'[g] = {}
  BY <1>1, <1>2 DEF HeapInv
<1>6. \A g \in Addresses :
        kind'[g] \in OneBlockKinds => \E d \in Addresses : owned'[g] = {d}
  BY <1>2 DEF HeapInv, OwningKinds
<1> QED
  BY <1>3, <1>4, <1>5, <1>6 DEF HeapInv

(* A structure and further blocks, all of them free until now.             *)
LEMMA MakesOwningKeepsHeap ==
  ASSUME HeapInv, NEW h \in Addresses, MakesOwning(h)
  PROVE  HeapInv'
<1> PICK k \in OwningKinds, blocks \in SUBSET Addresses :
      NewOwning(h, blocks, k) /\ (k \in OneBlockKinds => \E d \in Addresses : blocks = {d})
  BY DEF MakesOwning
<1>1. kind[h] = "none" /\ owned[h] = {} /\ \A g \in Addresses : h \notin owned[g]
  BY FreeAddress DEF NewOwning
<1>2. \A b \in blocks : b # h /\ kind[b] = "none" /\ \A g \in Addresses : b \notin owned[g]
  BY FreeAddress DEF NewOwning
<1>3. /\ heap' = heap \union {h} \union blocks
      /\ kind' \in [Addresses -> Kinds] /\ kind'[h] = k
      /\ owned' \in [Addresses -> SUBSET Addresses] /\ owned'[h] = blocks
      /\ \A g \in Addresses \ {h} : kind'[g] = kind[g] /\ owned'[g] = owned[g]
  BY DEF NewOwning, HeapInv, HeapTypes, Kinds
<1>4. k # "none"
  BY DEF OwningKinds, OneBlockKinds
<1>5. HeapTypes'
  BY <1>3 DEF HeapInv, HeapTypes
<1>6. Accounted'
  <2>1. ASSUME NEW a \in Addresses
        PROVE  a \in heap' <=> kind'[a] # "none" \/ \E g \in Addresses : a \in owned'[g]
    <3>1. CASE a = h
      BY <1>3, <1>4, <3>1
    <3>2. CASE a \in blocks
      BY <1>3, <3>2
    <3>3. CASE a # h /\ a \notin blocks
      <4>1. a \in heap' <=> a \in heap
        BY <1>3, <3>3
      <4>2. kind'[a] = kind[a]
        BY <1>3, <3>3
      <4>3. (\E g \in Addresses : a \in owned'[g]) <=> (\E g \in Addresses : a \in owned[g])
        BY <1>1, <1>3, <3>3
      <4> QED
        BY <4>1, <4>2, <4>3 DEF HeapInv, Accounted
    <3> QED
      BY <3>1, <3>2, <3>3
  <2>2. \A a, g \in Addresses : a \in owned'[g] => kind'[a] = "none"
    BY <1>1, <1>2, <1>3 DEF HeapInv, Accounted
  <2>3. \A a, f, g \in Addresses : a \in owned'[f] /\ a \in owned'[g] => f = g
    BY <1>2, <1>3 DEF HeapInv, Accounted
  <2> QED
    BY <2>1, <2>2, <2>3 DEF Accounted
<1>7. \A g \in Addresses : kind'[g] \notin OwningKinds => owned'[g] = {}
  BY <1>3 DEF HeapInv
<1>8. \A g \in Addresses :
        kind'[g] \in OneBlockKinds => \E d \in Addresses : owned'[g] = {d}
  BY <1>3 DEF HeapInv
<1> QED
  BY <1>5, <1>6, <1>7, <1>8 DEF HeapInv

LEMMA FreeKeepsHeap ==
  ASSUME HeapInv, NEW h \in Addresses, NEW k \in Kinds \ OwningKinds, k # "none",
         Free(h, k)
  PROVE  HeapInv'
<1>1. owned[h] = {} /\ h \in heap /\ \A g \in Addresses : h \notin owned[g]
  BY ObjectAddress DEF Free, HeapInv
<1>2. /\ heap' = heap \ {h} /\ owned' = owned
      /\ kind' \in [Addresses -> Kinds] /\ kind'[h] = "none"
      /\ \A g \in Addresses \ {h} : kind'[g] = kind[g]
  BY DEF Free, HeapInv, HeapTypes, Kinds
<1>3. HeapTypes'
  BY <1>2 DEF HeapInv, HeapTypes
<1>4. Accounted'
  BY <1>1, <1>2 DEF HeapInv, Accounted
<1>5. \A g \in Addresses : kind'[g] \notin OwningKinds => owned'[g] = {}
  BY <1>1, <1>2 DEF HeapInv
<1>6. \A g \in Addresses :
        kind'[g] \in OneBlockKinds => \E d \in Addresses : owned'[g] = {d}
  BY <1>2 DEF HeapInv, OneBlockKinds
<1> QED
  BY <1>3, <1>4, <1>5, <1>6 DEF HeapInv

(* The structure and every further block go, and nobody else had them.     *)
LEMMA FreesOwningKeepsHeap ==
  ASSUME HeapInv, NEW h \in Addresses, FreesOwning(h)
  PROVE  HeapInv'
<1> PICK k \in OwningKinds : FreeOwning(h, k)
  BY DEF FreesOwning
<1>1. kind[h] # "none"
  BY DEF FreeOwning, OwningKinds, OneBlockKinds
<1>2. h \in heap /\ \A g \in Addresses : h \notin owned[g]
  BY <1>1, ObjectAddress
<1>3. /\ heap' = heap \ ({h} \union owned[h])
      /\ kind' \in [Addresses -> Kinds] /\ kind'[h] = "none"
      /\ owned' \in [Addresses -> SUBSET Addresses] /\ owned'[h] = {}
      /\ \A g \in Addresses \ {h} : kind'[g] = kind[g] /\ owned'[g] = owned[g]
  BY DEF FreeOwning, HeapInv, HeapTypes, Kinds
<1>4. HeapTypes'
  BY <1>3 DEF HeapInv, HeapTypes
<1>5. Accounted'
  <2>1. ASSUME NEW a \in Addresses
        PROVE  a \in heap' <=> kind'[a] # "none" \/ \E g \in Addresses : a \in owned'[g]
    <3>1. CASE a = h
      BY <1>2, <1>3, <3>1
    <3>2. CASE a \in owned[h]
      BY <1>3, <3>2 DEF HeapInv, Accounted
    <3>3. CASE a # h /\ a \notin owned[h]
      <4>1. a \in heap' <=> a \in heap
        BY <1>3, <3>3
      <4>2. kind'[a] = kind[a]
        BY <1>3, <3>3
      <4>3. (\E g \in Addresses : a \in owned'[g]) <=> (\E g \in Addresses : a \in owned[g])
        BY <1>3, <3>3
      <4> QED
        BY <4>1, <4>2, <4>3 DEF HeapInv, Accounted
    <3> QED
      BY <3>1, <3>2, <3>3
  <2>2. \A a, g \in Addresses : a \in owned'[g] => kind'[a] = "none"
    BY <1>3 DEF HeapInv, Accounted
  <2>3. \A a, f, g \in Addresses : a \in owned'[f] /\ a \in owned'[g] => f = g
    BY <1>3 DEF HeapInv, Accounted
  <2> QED
    BY <2>1, <2>2, <2>3 DEF Accounted
<1>6. \A g \in Addresses : kind'[g] \notin OwningKinds => owned'[g] = {}
  BY <1>3 DEF HeapInv
<1>7. \A g \in Addresses :
        kind'[g] \in OneBlockKinds => \E d \in Addresses : owned'[g] = {d}
  BY <1>3 DEF HeapInv, OneBlockKinds
<1> QED
  BY <1>4, <1>5, <1>6, <1>7 DEF HeapInv

LEMMA HeapStepKeepsHeap ==
  ASSUME HeapInv, NEW h \in Addresses, HeapStep(h)
  PROVE  HeapInv'
<1>1. \A k \in PlainKinds : k \in Kinds \ OwningKinds /\ k # "none"
  BY DEF PlainKinds, Kinds, OwningKinds, OneBlockKinds
<1>2. CASE Makes(h)
  BY <1>1, <1>2, NewKeepsHeap DEF Makes
<1>3. CASE Frees(h)
  BY <1>1, <1>3, FreeKeepsHeap DEF Frees
<1>4. CASE SecondFails(h)
  <2>1. UNCHANGED heapvars
    BY <1>4 DEF SecondFails, heapvars
  <2> QED
    BY <2>1 DEF HeapInv, HeapTypes, Accounted, heapvars
<1> QED
  BY <1>2, <1>3, <1>4, MakesOwningKeepsHeap, FreesOwningKeepsHeap DEF HeapStep

(* The steps on the heap make and destroy no pipeline and no entry, and    *)
(* destroy no buffer and no texture that is bound.                         *)
LEMMA HeapStepKinds ==
  ASSUME HeapInv, NEW h \in Addresses, HeapStep(h), NEW a \in Addresses
  PROVE  /\ kind'[a] = "render" <=> kind[a] = "render"
         /\ kind'[a] = "registry entry" <=> kind[a] = "registry entry"
         /\ \A k \in {"buffer", "texture"} : kind[a] = k /\ Bound(a) => kind'[a] = k
<1>1. kind \in [Addresses -> Kinds]
  BY DEF HeapInv, HeapTypes
<1>2. CASE Makes(h) \/ MakesOwning(h)
  <2>1. h \notin heap /\ \E k \in PlainKinds \union OwningKinds : kind' = [kind EXCEPT ![h] = k]
    BY <1>2 DEF Makes, MakesOwning, New, NewOwning
  <2>2. kind[h] = "none"
    BY <2>1, FreeAddress
  <2> QED
    BY <1>1, <2>1, <2>2 DEF PlainKinds, OwningKinds, OneBlockKinds
<1>3. CASE SecondFails(h)
  BY <1>3 DEF SecondFails
<1>4. CASE Frees(h)
  <2> PICK k \in PlainKinds : Free(h, k) /\ (k = "texture" => ~Bound(h))
    BY <1>4 DEF Frees
  <2> QED
    BY <1>1 DEF Free, PlainKinds
<1>5. CASE FreesOwning(h)
  <2> PICK k \in OwningKinds : FreeOwning(h, k) /\ (k = "buffer" => ~Bound(h))
    BY <1>5 DEF FreesOwning
  <2> QED
    BY <1>1 DEF FreeOwning, OwningKinds, OneBlockKinds
<1> QED
  BY <1>2, <1>3, <1>4, <1>5 DEF HeapStep

-----------------------------------------------------------------------------
(* Pipelines and entries.                                                  *)

(* A pipeline holds what was asked for, and all of it exists.              *)
KeepsAsked(p) ==
  /\ memory[p] = asked[p]
  /\ \A w \in 0 .. Slots - 1 : memory[p][w] \in OfKind("buffer") \union {NULL}
  /\ \A w \in Slots .. 2 * Slots - 1 : memory[p][w] \in OfKind("texture") \union {NULL}
  /\ memory[p][2 * Slots] = NULL

(* The buffers and textures that pipelines name are still there.           *)
BoundStay ==
  \A a \in Addresses, k \in {"buffer", "texture"} :
    kind[a] = k /\ Bound(a) => kind'[a] = k

(* A pipeline no step touches holds what it held, if BoundStay.            *)
LEMMA KeptPipeline ==
  ASSUME BoundStay, NEW p \in OfKind("render"), KeepsAsked(p),
         memory'[p] = memory[p], asked'[p] = asked[p]
  PROVE  KeepsAsked(p)'
<1>1. ASSUME NEW w \in Words, NEW k \in {"buffer", "texture"},
             memory[p][w] \in OfKind(k) \union {NULL}
      PROVE  memory'[p][w] \in OfKind(k)' \union {NULL}
  <2>1. memory[p][w] # NULL => Bound(memory[p][w])
    BY DEF KeepsAsked, Bound
  <2> QED
    BY <1>1, <2>1 DEF OfKind, BoundStay
<1>2. 0 .. Slots - 1 \subseteq Words /\ Slots .. 2 * Slots - 1 \subseteq Words
  BY SlotsAssumption DEF Words
<1> QED
  BY <1>1, <1>2 DEF KeepsAsked

LEMMA PipelinesHold == PipelineHoldsAsked <=> \A p \in OfKind("render") : KeepsAsked(p)
BY DEF PipelineHoldsAsked, KeepsAsked

LEMMA PipelinesHoldNext == PipelineHoldsAsked' <=> \A p \in OfKind("render")' : KeepsAsked(p)'
BY DEF PipelineHoldsAsked, KeepsAsked

(* Where nothing touches a pipeline. *)
LEMMA KeptPipelines ==
  ASSUME PipelineInv, UNCHANGED metalvars, BoundStay,
         OfKind("render")' \subseteq OfKind("render")
  PROVE  PipelineInv'
<1>1. memory' = memory /\ asked' = asked
  BY DEF metalvars
<1>2. \A p \in OfKind("render")' : KeepsAsked(p)'
  BY <1>1, KeptPipeline, PipelinesHold DEF PipelineInv
<1> QED
  BY <1>1, <1>2, PipelinesHoldNext DEF PipelineInv

(* A new pipeline starts with nothing bound; the memory of a freed one is  *)
(* garbage.                                                                *)
LEMMA PipelineLifeKeeps ==
  ASSUME HeapInv, PipelineInv, NEW h \in Addresses,
         LPnuMetalRenderPipelineCreate(h) \/ LPnuMetalRenderPipelineDestroy(h)
  PROVE  PipelineInv' /\ HeapInv'
<1>1. "render" \in Kinds \ OwningKinds /\ "render" # "none"
  BY DEF Kinds, OwningKinds, OneBlockKinds
<1>2. HeapInv'
  BY <1>1, NewKeepsHeap, FreeKeepsHeap
     DEF LPnuMetalRenderPipelineCreate, LPnuMetalRenderPipelineDestroy
<1>3. Empty \in [Words -> Handles] /\ Garbage \in [Words -> Handles]
  BY DEF Empty, Garbage, Handles
<1>4. /\ memory' \in [Addresses -> [Words -> Handles]]
      /\ asked' \in [Addresses -> [Words -> Handles]]
      /\ \A p \in Addresses \ {h} : memory'[p] = memory[p] /\ asked'[p] = asked[p]
  BY <1>3 DEF PipelineInv, LPnuMetalRenderPipelineCreate, LPnuMetalRenderPipelineDestroy
<1>5. /\ kind[h] \in {"none", "render"} /\ kind' \in [Addresses -> Kinds]
      /\ \A a \in Addresses \ {h} : kind'[a] = kind[a]
  BY FreeAddress DEF HeapInv, HeapTypes, New, Free, Kinds,
     LPnuMetalRenderPipelineCreate, LPnuMetalRenderPipelineDestroy
<1>6. BoundStay
  BY <1>5 DEF BoundStay
<1>7. \A p \in OfKind("render")' \ {h} : KeepsAsked(p)'
  <2>1. \A p \in OfKind("render")' \ {h} : p \in OfKind("render") /\ p \in Addresses
    BY <1>5 DEF OfKind
  <2> QED
    BY <1>4, <1>6, <2>1, KeptPipeline, PipelinesHold DEF PipelineInv
<1>8. h \in OfKind("render")' => KeepsAsked(h)'
  <2> SUFFICES ASSUME h \in OfKind("render")' PROVE KeepsAsked(h)'
    OBVIOUS
  <2>1. LPnuMetalRenderPipelineCreate(h)
    BY DEF OfKind, LPnuMetalRenderPipelineDestroy, Free, HeapInv, HeapTypes
  <2>2. memory'[h] = Empty /\ asked'[h] = Empty
    BY <2>1 DEF LPnuMetalRenderPipelineCreate, PipelineInv
  <2>3. \A w \in Words : Empty[w] = NULL
    BY DEF Empty
  <2>4. 0 .. Slots - 1 \subseteq Words /\ Slots .. 2 * Slots - 1 \subseteq Words
        /\ 2 * Slots \in Words
    BY SlotsAssumption DEF Words
  <2> QED
    BY <2>2, <2>3, <2>4 DEF KeepsAsked
<1> QED
  BY <1>2, <1>4, <1>7, <1>8, PipelinesHoldNext DEF PipelineInv

(* A binding writes the word that was asked for, in the array of its kind, *)
(* or nothing: the other array begins where this one ends.                 *)
LEMMA BindingKeeps ==
  ASSUME HeapInv, PipelineInv, NEW p \in Addresses, NEW i \in 0 .. Slots,
         NEW k \in {"buffer", "texture"}, NEW h \in OfKind(k) \union {NULL},
         NEW w, k = "buffer" => w = i, k = "texture" => w = Slots + i,
         kind[p] = "render", UNCHANGED heapvars,
         IF i < Slots THEN Store(p, w, h) ELSE UNCHANGED memory,
         asked' = IF i < Slots THEN [asked EXCEPT ![p][w] = h] ELSE asked
  PROVE  PipelineInv'
<1>1. kind' = kind /\ \A j : OfKind(j)' = OfKind(j)
  BY DEF heapvars, OfKind
<1>2. CASE i < Slots
  <2>1. /\ memory' = [memory EXCEPT ![p][w] = h]
        /\ asked' = [asked EXCEPT ![p][w] = h]
    BY <1>2 DEF Store
  <2>2. w \in Words /\ h \in Handles /\ w # 2 * Slots
    BY <1>2, SlotsAssumption DEF Words, Handles, OfKind
  <2>3. /\ memory' \in [Addresses -> [Words -> Handles]]
        /\ asked' \in [Addresses -> [Words -> Handles]]
        /\ memory'[p][w] = h /\ asked'[p][w] = h
        /\ \A v \in Words \ {w} : /\ memory'[p][v] = memory[p][v]
                                  /\ asked'[p][v] = asked[p][v]
        /\ \A q \in Addresses \ {p} : memory'[q] = memory[q] /\ asked'[q] = asked[q]
    BY <2>1, <2>2 DEF PipelineInv
  <2>4. \A q \in OfKind("render") \ {p} : KeepsAsked(q)'
    BY <1>1, <2>3, PipelinesHold DEF PipelineInv, KeepsAsked, OfKind
  <2>5. KeepsAsked(p)'
    <3>1. KeepsAsked(p) /\ memory[p] = asked[p]
      BY PipelinesHold DEF PipelineInv, OfKind, KeepsAsked
    <3>2. memory'[p] = asked'[p]
      BY <2>1, <3>1 DEF PipelineInv
    <3>3. 0 .. Slots - 1 \subseteq Words /\ Slots .. 2 * Slots - 1 \subseteq Words
          /\ 2 * Slots \in Words
      BY SlotsAssumption DEF Words
    <3>4. /\ k = "buffer" => w \in 0 .. Slots - 1 /\ w \notin Slots .. 2 * Slots - 1
          /\ k = "texture" => w \in Slots .. 2 * Slots - 1 /\ w \notin 0 .. Slots - 1
      BY <1>2, SlotsAssumption
    <3>5. \A v \in 0 .. Slots - 1 : memory'[p][v] \in OfKind("buffer") \union {NULL}
      BY <2>3, <3>1, <3>3, <3>4 DEF KeepsAsked
    <3>6. \A v \in Slots .. 2 * Slots - 1 : memory'[p][v] \in OfKind("texture") \union {NULL}
      BY <2>3, <3>1, <3>3, <3>4 DEF KeepsAsked
    <3>7. memory'[p][2 * Slots] = NULL
      BY <2>2, <2>3, <3>1, <3>3 DEF KeepsAsked
    <3> QED
      BY <1>1, <3>2, <3>5, <3>6, <3>7 DEF KeepsAsked
  <2> QED
    BY <1>1, <2>3, <2>4, <2>5, PipelinesHoldNext DEF PipelineInv
<1>3. CASE ~(i < Slots)
  BY <1>1, <1>3 DEF PipelineInv, PipelineHoldsAsked
<1> QED
  BY <1>2, <1>3

LEMMA KeptEntries ==
  ASSUME EntryInv, UNCHANGED iokitvars,
         \A a \in Addresses : kind'[a] = "registry entry" => kind[a] = "registry entry"
  PROVE  EntryInv'
<1>1. allocs' = allocs /\ stored' = stored
  BY DEF iokitvars
<1>2. OfKind("registry entry")' \subseteq OfKind("registry entry")
  BY DEF OfKind
<1> QED
  BY <1>1, <1>2 DEF EntryInv, EntryHoldsFirst

LEMMA PipelineStepKeeps ==
  ASSUME HeapInv, PipelineInv, NEW p \in Addresses, PipelineStep(p)
  PROVE  HeapInv' /\ PipelineInv'
<1>1. CASE LPnuMetalRenderPipelineCreate(p) \/ LPnuMetalRenderPipelineDestroy(p)
  BY <1>1, PipelineLifeKeeps
<1>2. ASSUME UNCHANGED heapvars
      PROVE  HeapInv'
  BY <1>2 DEF heapvars, HeapInv, HeapTypes, Accounted
<1>3. ASSUME NEW i \in 0 .. Slots, NEW b \in OfKind("buffer") \union {NULL},
             LPnuMetalRenderPipelineSetBuffer(p, i, b)
      PROVE  HeapInv' /\ PipelineInv'
  <2>1. 0 + i = i
    OBVIOUS
  <2>2. asked' = IF i < Slots THEN [asked EXCEPT ![p][i] = b] ELSE asked
    BY <1>3, <2>1 DEF LPnuMetalRenderPipelineSetBuffer, Ask
  <2> QED
    BY <1>2, <1>3, <2>2, BindingKeeps, "buffer" \in {"buffer", "texture"}
       DEF LPnuMetalRenderPipelineSetBuffer
<1>4. ASSUME NEW i \in 0 .. Slots, NEW x \in OfKind("texture") \union {NULL},
             LPnuMetalRenderPipelineSetTexture(p, i, x)
      PROVE  HeapInv' /\ PipelineInv'
  BY <1>2, <1>4, BindingKeeps, "texture" \in {"buffer", "texture"}
     DEF LPnuMetalRenderPipelineSetTexture, Ask
<1> QED
  BY <1>1, <1>3, <1>4 DEF PipelineStep

(* The first Allocs values of a sequence that grows.                       *)
LEMMA FirstOfAppend ==
  ASSUME NEW S, NEW s \in Seq(S), NEW v \in S, NEW n \in Nat
  PROVE  /\ Append(s, v) \in Seq(S) /\ Len(Append(s, v)) = Len(s) + 1
         /\ Len(s) >= n => /\ SubSeq(Append(s, v), 1, n) = SubSeq(s, 1, n)
                           /\ Len(SubSeq(s, 1, n)) = n
         /\ SubSeq(s, 1, Len(s)) = s
<1>1. Append(s, v) \in Seq(S) /\ Len(Append(s, v)) = Len(s) + 1 /\ Len(s) \in Nat
  OBVIOUS
<1>2. ASSUME Len(s) >= n
      PROVE  SubSeq(Append(s, v), 1, n) = SubSeq(s, 1, n)
  <2>1. \A j \in 1 .. n : Append(s, v)[j] = s[j]
    BY <1>2
  <2>2. SubSeq(Append(s, v), 1, n) = [j \in 1 .. n |-> Append(s, v)[j]]
    BY <1>1, <1>2
  <2>3. SubSeq(s, 1, n) = [j \in 1 .. n |-> s[j]]
    BY <1>2
  <2> QED
    BY <2>1, <2>2, <2>3
<1>3. SubSeq(s, 1, Len(s)) = s
  OBVIOUS
<1>4. Len(s) >= n => Len(SubSeq(s, 1, n)) = n
  OBVIOUS
<1> QED
  BY <1>1, <1>2, <1>3, <1>4

(* A new entry is empty, a store without room changes nothing.             *)
LEMMA EntryStepKeeps ==
  ASSUME HeapInv, EntryInv, NEW h \in Addresses, EntryStep(h)
  PROVE  HeapInv' /\ EntryInv'
<1> DEFINE First(s) == SubSeq(s, 1, IF Len(s) < Allocs THEN Len(s) ELSE Allocs)
<1>1. \A g \in OfKind("registry entry") : allocs[g] = First(stored[g])
  BY DEF EntryInv, EntryHoldsFirst
<1>2. ASSUME LPNUIORegistryEntryCreate(h) \/ LPNUIORegistryEntryDestroy(h)
      PROVE  HeapInv' /\ EntryInv'
  <2>1. "registry entry" \in Kinds \ OwningKinds /\ "registry entry" # "none"
    BY DEF Kinds, OwningKinds, OneBlockKinds
  <2>2. HeapInv'
    BY <1>2, <2>1, NewKeepsHeap, FreeKeepsHeap
       DEF LPNUIORegistryEntryCreate, LPNUIORegistryEntryDestroy
  <2>3. <<>> \in Seq(Values) /\ <<>> \in Seq(Values \union {"garbage"})
        /\ Leftover \in Seq(Values \union {"garbage"})
    BY DEF Leftover
  <2>4. /\ allocs' \in [Addresses -> Seq(Values \union {"garbage"})]
        /\ stored' \in [Addresses -> Seq(Values)]
        /\ stored'[h] = <<>>
        /\ LPNUIORegistryEntryCreate(h) => allocs'[h] = <<>>
        /\ \A g \in Addresses \ {h} : allocs'[g] = allocs[g] /\ stored'[g] = stored[g]
    BY <1>2, <2>3 DEF EntryInv, LPNUIORegistryEntryCreate, LPNUIORegistryEntryDestroy
  <2>5. /\ \A g \in OfKind("registry entry")' \ {h} : g \in OfKind("registry entry")
        /\ h \in OfKind("registry entry")' => LPNUIORegistryEntryCreate(h)
    BY <1>2 DEF OfKind, New, Free, HeapInv, HeapTypes,
                LPNUIORegistryEntryCreate, LPNUIORegistryEntryDestroy
  <2>6. First(<<>>) = <<>>
    BY AllocsAssumption
  <2>7. \A g \in OfKind("registry entry")' : allocs'[g] = First(stored'[g])
    BY <1>1, <2>4, <2>5, <2>6 DEF OfKind
  <2> QED
    BY <2>2, <2>4, <2>7 DEF EntryInv, EntryHoldsFirst
<1>3. ASSUME NEW v \in Values, LPNUIORegistryEntrySetProperty(h, v)
      PROVE  HeapInv' /\ EntryInv'
  <2>1. UNCHANGED heapvars /\ h \in OfKind("registry entry")
    BY <1>3 DEF LPNUIORegistryEntrySetProperty, SetProperty, OfKind
  <2>2. HeapInv' /\ OfKind("registry entry")' = OfKind("registry entry")
    BY <2>1 DEF heapvars, HeapInv, HeapTypes, Accounted, OfKind
  <2>3. /\ stored[h] \in Seq(Values) /\ allocs[h] \in Seq(Values \union {"garbage"})
        /\ Len(stored[h]) \in Nat /\ Allocs \in Nat
    BY AllocsAssumption DEF EntryInv
  <2>4. stored' = [stored EXCEPT ![h] = Append(@, v)]
    BY <1>3 DEF LPNUIORegistryEntrySetProperty, SetProperty
  <2>5. Append(stored[h], v) \in Seq(Values) /\ Len(Append(stored[h], v)) = Len(stored[h]) + 1
    BY <2>3, FirstOfAppend
  <2>6. stored' \in [Addresses -> Seq(Values)]
    BY <2>4, <2>5 DEF EntryInv
  <2>7. CASE Len(stored[h]) < Allocs
    <3>1. allocs[h] = stored[h]
      BY <1>1, <2>1, <2>3, <2>7, FirstOfAppend
    <3>2. allocs' = [allocs EXCEPT ![h] = Append(@, v)]
      BY <1>3, <2>7, <3>1 DEF LPNUIORegistryEntrySetProperty, SetProperty
    <3>3. Append(stored[h], v) \in Seq(Values \union {"garbage"})
      BY <2>3, <3>1
    <3>4. First(Append(stored[h], v)) = Append(stored[h], v)
      BY <2>3, <2>5, <2>7, FirstOfAppend
    <3> QED
      BY <1>1, <2>1, <2>2, <2>4, <2>6, <3>1, <3>2, <3>3, <3>4
         DEF EntryInv, EntryHoldsFirst, OfKind
  <2>8. CASE Len(stored[h]) >= Allocs
    <3>1. ~(Len(stored[h]) < Allocs)
      BY <2>3, <2>8
    <3>2. ~(Len(allocs[h]) < Allocs)
      <4>1. allocs[h] = SubSeq(stored[h], 1, Allocs)
        BY <1>1, <2>1, <3>1
      <4>2. Len(SubSeq(stored[h], 1, Allocs)) = Allocs
        BY <2>3, <2>8, FirstOfAppend
      <4> QED
        BY <2>3, <4>1, <4>2
    <3>3. allocs' = allocs
      BY <1>3, <3>2 DEF LPNUIORegistryEntrySetProperty, SetProperty
    <3>4. First(Append(stored[h], v)) = First(stored[h])
      BY <2>3, <2>5, <2>8, FirstOfAppend
    <3> QED
      BY <1>1, <2>1, <2>2, <2>4, <2>6, <3>3, <3>4
         DEF EntryInv, EntryHoldsFirst, OfKind
  <2> QED
    BY <2>3, <2>7, <2>8
<1> QED
  BY <1>2, <1>3 DEF EntryStep

-----------------------------------------------------------------------------
(* The theorems.                                                           *)

LEMMA ObjectsInvInit == Init => ObjectsInv
<1> SUFFICES ASSUME Init
             PROVE  ObjectsInv
  OBVIOUS
<1>1. HeapInv
  BY DEF Init, HeapInit, HeapInv, HeapTypes, Accounted, Kinds, OneBlockKinds
<1>2. PipelineInv
  <2>1. memory \in [Addresses -> [Words -> Handles]] /\ asked \in [Addresses -> [Words -> Handles]]
    BY DEF Init, MetalInit, Garbage, Empty, Handles
  <2>2. OfKind("render") = {}
    BY DEF Init, HeapInit, OfKind
  <2> QED
    BY <2>1, <2>2 DEF PipelineInv, PipelineHoldsAsked
<1>3. EntryInv
  <2>1. OfKind("registry entry") = {}
    BY DEF Init, HeapInit, OfKind
  <2>2. allocs \in [Addresses -> Seq(Values \union {"garbage"})] /\ stored \in [Addresses -> Seq(Values)]
    BY DEF Init, IOKitInit, Leftover
  <2> QED
    BY <2>1, <2>2 DEF EntryInv, EntryHoldsFirst
<1> QED
  BY <1>1, <1>2, <1>3 DEF ObjectsInv

LEMMA ObjectsInvStep ==
  ObjectsInv /\ [Next]_<<heapvars, metalvars, iokitvars>> => ObjectsInv'
<1> SUFFICES ASSUME ObjectsInv, [Next]_<<heapvars, metalvars, iokitvars>>
             PROVE  ObjectsInv'
  OBVIOUS
<1> USE DEF ObjectsInv
<1>1. ASSUME NEW h \in Addresses, HeapStep(h)
      PROVE  ObjectsInv'
  <2>1. HeapInv'
    BY <1>1, HeapStepKeepsHeap
  <2>2. BoundStay /\ OfKind("render")' \subseteq OfKind("render")
    BY <1>1, HeapStepKinds DEF BoundStay, OfKind
  <2>3. \A a \in Addresses : kind'[a] = "registry entry" => kind[a] = "registry entry"
    BY <1>1, HeapStepKinds
  <2>4. UNCHANGED metalvars /\ UNCHANGED iokitvars
    BY <1>1 DEF HeapStep
  <2> QED
    BY <2>1, <2>2, <2>3, <2>4, KeptPipelines, KeptEntries
<1>2. ASSUME NEW p \in Addresses, PipelineStep(p)
      PROVE  ObjectsInv'
  <2>1. HeapInv' /\ PipelineInv'
    BY <1>2, PipelineStepKeeps
  <2>2. \A a \in Addresses : kind'[a] = "registry entry" => kind[a] = "registry entry"
    BY <1>2 DEF PipelineStep, New, Free, heapvars, HeapInv, HeapTypes,
       LPnuMetalRenderPipelineCreate, LPnuMetalRenderPipelineDestroy,
       LPnuMetalRenderPipelineSetBuffer, LPnuMetalRenderPipelineSetTexture
  <2>3. EntryInv'
    BY <1>2, <2>2, KeptEntries DEF PipelineStep
  <2> QED
    BY <2>1, <2>3
<1>3. ASSUME NEW h \in Addresses, EntryStep(h)
      PROVE  ObjectsInv'
  <2>1. HeapInv' /\ EntryInv'
    BY <1>3, EntryStepKeeps
  <2>2. /\ kind[h] \in {"none", "registry entry"}
        /\ kind'[h] \in {"none", "registry entry"}
        /\ \A a \in Addresses \ {h} : kind'[a] = kind[a]
    BY <1>3, FreeAddress
       DEF EntryStep, New, Free, heapvars, HeapInv, HeapTypes, SetProperty,
           LPNUIORegistryEntryCreate, LPNUIORegistryEntryDestroy,
           LPNUIORegistryEntrySetProperty
  <2>3. BoundStay /\ OfKind("render")' \subseteq OfKind("render")
    BY <2>2 DEF BoundStay, OfKind
  <2>4. PipelineInv'
    BY <1>3, <2>3, KeptPipelines DEF EntryStep
  <2> QED
    BY <2>1, <2>4
<1>4. CASE UNCHANGED <<heapvars, metalvars, iokitvars>>
  <2>1. UNCHANGED <<heap, kind, owned, memory, asked, allocs, stored>>
    BY <1>4 DEF heapvars, metalvars, iokitvars
  <2> QED
    BY <2>1 DEF HeapInv, HeapTypes, Accounted, PipelineInv, PipelineHoldsAsked,
                EntryInv, EntryHoldsFirst, OfKind
<1> QED
  BY <1>1, <1>2, <1>3, <1>4, MetalSteps, IOKitSteps DEF Next

(* ObjectsInv holds in every reachable state.                              *)
THEOREM ObjectsInvariant == Spec => []ObjectsInv
BY ObjectsInvInit, ObjectsInvStep, PTL DEF Spec

(* Every allocated block is the structure of one object or a further block *)
(* of one object, and every object's blocks are allocated: none of the     *)
(* failure paths and destructions leaks a block or frees one twice.        *)
THEOREM ObjectsBlocksOwned == Spec => []BlocksOwned
<1>1. HeapInv => BlocksOwned
  <2> SUFFICES ASSUME HeapInv
               PROVE  BlocksOwned
    OBVIOUS
  <2>1. \A a \in Addresses : a \in Objects <=> kind[a] # "none"
    BY DEF Objects, OfKind
  <2>2. \A g \in Addresses : owned[g] # {} => g \in Objects
    BY <2>1 DEF HeapInv, OwningKinds, OneBlockKinds
  <2>3. Objects \subseteq Addresses /\ \A g \in Objects : owned[g] \subseteq Addresses
    BY DEF Objects, HeapInv, HeapTypes
  <2>4. heap = Objects \union UNION {owned[h] : h \in Objects}
    BY <2>1, <2>2, <2>3 DEF HeapInv, HeapTypes, Accounted
  <2>5. \A h \in Objects : owned[h] \intersect Objects = {}
    BY <2>1, <2>3 DEF HeapInv, Accounted
  <2>6. \A g, h \in Objects : owned[g] \intersect owned[h] # {} => g = h
    BY <2>3 DEF HeapInv, Accounted
  <2> QED
    BY <2>4, <2>5, <2>6 DEF BlocksOwned
<1> QED
  BY <1>1, ObjectsInvariant, PTL DEF ObjectsInv

(* What a getter hands out is one object's own block: no structure, no     *)
(* freed block, and nothing that another getter hands out.                 *)
THEOREM ObjectsContentsApart == Spec => []ContentsApart
<1>1. HeapInv => ContentsApart
  <2> SUFFICES ASSUME HeapInv, NEW g \in Getting
               PROVE  /\ HandedOut(g) \in heap \ Objects
                      /\ \A h \in Getting : HandedOut(g) = HandedOut(h) => g = h
                      /\ \A h \in OfKind("data queue") \union OfKind("dictionary") :
                           HandedOut(g) \notin owned[h]
    BY DEF ContentsApart
  <2>1. ASSUME NEW h \in Getting
        PROVE  h \in Addresses /\ HandedOut(h) \in owned[h] /\ HandedOut(h) \in Addresses
    <3>1. h \in Addresses /\ kind[h] \in OneBlockKinds
      BY DEF Getting, OfKind, OneBlockKinds
    <3>2. PICK d \in Addresses : owned[h] = {d}
      BY <3>1 DEF HeapInv
    <3>3. HandedOut(h) = Contents(h)
      BY DEF HandedOut, LPnuMetalBufferGetContents, LPNUIOCommandPoolAllocate,
             LPNUIOBufferMemoryDescriptorGetBuffer
    <3>4. Contents(h) = d
      BY <3>2 DEF Contents
    <3> QED
      BY <3>1, <3>2, <3>3, <3>4
  <2>2. HandedOut(g) \in heap \ Objects
    BY <2>1 DEF HeapInv, Accounted, Objects, OfKind
  <2>3. \A h \in Getting : HandedOut(g) = HandedOut(h) => g = h
    BY <2>1 DEF HeapInv, Accounted
  <2>4. ASSUME NEW h \in OfKind("data queue") \union OfKind("dictionary")
        PROVE  HandedOut(g) \notin owned[h]
    <3>1. h # g /\ h \in Addresses
      BY DEF Getting, OfKind
    <3> QED
      BY <2>1, <3>1 DEF HeapInv, Accounted
  <2> QED
    BY <2>2, <2>3, <2>4
<1> QED
  BY <1>1, ObjectsInvariant, PTL DEF ObjectsInv

(* The memory of a render pipeline is what was last asked for, and no      *)
(* binding reaches the other array or the word after the structure.        *)
THEOREM ObjectsPipelineHoldsAsked == Spec => []PipelineHoldsAsked
BY ObjectsInvariant, PTL DEF ObjectsInv, PipelineInv

(* A registry entry holds the first values it was given since its creation.*)
THEOREM ObjectsEntryHoldsFirst == Spec => []EntryHoldsFirst
BY ObjectsInvariant, PTL DEF ObjectsInv, EntryInv
=============================================================================
