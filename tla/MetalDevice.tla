---------------------------- MODULE MetalDevice -----------------------------
(***************************************************************************)
(* The device of lpnu/metal/lpnu_metal.c and the static g_device that      *)
(* creation goes through: it stores the new device there, and then reads   *)
(* it back to test it, to fill the device in and to hand it out.  Release  *)
(* frees first and compares with g_device afterwards.  Nothing is          *)
(* synchronised.  When another thread is in these functions the accesses   *)
(* race, and a build may use, at each read of a creation, the pointer it   *)
(* has just stored or whatever g_device holds by then.                     *)
(***************************************************************************)
EXTENDS FiniteSets, Pointers

CONSTANTS
  Threads,    \* the callers, with at most one device each
  Devices     \* addresses of LPnuMetalDevice structures

ASSUME DevicesAssumption == NULL \notin Devices

VARIABLES
  live,       \* the devices that are allocated
  g_device,
  pc,         \* where every thread is
  own,        \* the device a thread has allocated, been given, or freed
  broken,     \* null or freed memory was written, or freed again
  overlapped, \* has a creation overlapped another call (history)
  onlyMade    \* has no allocation failed and nothing been freed (history)

mvars == <<live, g_device, pc, own, broken, overlapped, onlyMade>>

(* "stored", "checked", "filled": creation, after the store to g_device,   *)
(* the test and the writes to the device.  "freed", "matched": release,    *)
(* after free and a comparison that found the device.                      *)
Places == {"idle", "stored", "checked", "filled", "owner", "freed", "matched"}

DeviceTypeOK ==
  /\ live \subseteq Devices
  /\ g_device \in Devices \union {NULL}
  /\ pc \in [Threads -> Places]
  /\ own \in [Threads -> Devices \union {NULL}]
  /\ broken \in BOOLEAN
  /\ overlapped \in BOOLEAN
  /\ onlyMade \in BOOLEAN

DeviceInit ==
  /\ live = {}
  /\ g_device = NULL
  /\ pc = [t \in Threads |-> "idle"]
  /\ own = [t \in Threads |-> NULL]
  /\ broken = FALSE
  /\ overlapped = FALSE
  /\ onlyMade = TRUE

-----------------------------------------------------------------------------
(* The operations.                                                         *)

Creating(t)  == pc[t] \in {"stored", "checked", "filled"}
Releasing(t) == pc[t] \in {"freed", "matched"}
Inside(t)    == Creating(t) \/ Releasing(t)

Goes(t, place)  == pc' = [pc EXCEPT ![t] = place]
Holds(t, d)     == own' = [own EXCEPT ![t] = d]

(* What a read of g_device in a creation answers.                          *)
ReadBack(t) == {own[t], g_device}

(* calloc and the store of its result, which may be null.                  *)
StartsCreation(t) ==
  /\ pc[t] = "idle"
  /\ Goes(t, "stored")
  /\ overlapped' = (overlapped \/ \E u \in Threads : Inside(u))
  /\ UNCHANGED broken

(* A fault of creation: a device that exists is shared, without a count.   *)
Fault_CreateStores_Shares(t) ==
  /\ StartsCreation(t)
  /\ \E d \in Devices \ live :
       IF g_device = NULL
       THEN live' = live \union {d} /\ g_device' = d /\ Holds(t, d)
       ELSE Holds(t, g_device) /\ UNCHANGED <<live, g_device>>
  /\ UNCHANGED onlyMade

CreateStores(t) ==
  /\ StartsCreation(t)
  /\ \/ \E d \in Devices \ live :
          /\ live' = live \union {d}
          /\ g_device' = d
          /\ Holds(t, d)
          /\ UNCHANGED onlyMade
     \/ g_device' = NULL /\ Holds(t, NULL) /\ onlyMade' = FALSE /\ UNCHANGED live

(* A null pointer is the failure -2; what was allocated is then lost.      *)
CreateTests(t) ==
  /\ pc[t] = "stored"
  /\ \E d \in ReadBack(t) :
       IF d = NULL THEN Goes(t, "idle") /\ Holds(t, NULL)
                   ELSE Goes(t, "checked") /\ UNCHANGED own
  /\ UNCHANGED <<live, g_device, broken, overlapped, onlyMade>>

(* The type and the name are written through the pointer read back.        *)
CreateFills(t) ==
  /\ pc[t] = "checked"
  /\ \E d \in ReadBack(t) : broken' = (d \notin live)
  /\ Goes(t, "filled")
  /\ UNCHANGED <<live, g_device, own, overlapped, onlyMade>>

(* A fault: the global is given up with the device.                        *)
Fault_CreateReturns_Takes(t) ==
  /\ pc[t] = "filled"
  /\ \E d \in ReadBack(t) : Holds(t, d)
  /\ Goes(t, "owner")
  /\ g_device' = NULL
  /\ UNCHANGED <<live, broken, overlapped, onlyMade>>

(* The pointer is read back once more and handed out, with success.        *)
CreateReturns(t) ==
  /\ pc[t] = "filled"
  /\ \E d \in ReadBack(t) : Holds(t, d)
  /\ Goes(t, "owner")
  /\ UNCHANGED <<live, g_device, broken, overlapped, onlyMade>>

(* Nothing is done for null.                                               *)
ReleaseIgnoresNull(t) ==
  /\ pc[t] = "owner" /\ own[t] = NULL
  /\ Goes(t, "idle")
  /\ UNCHANGED <<live, g_device, own, broken, overlapped, onlyMade>>

ReleaseFrees(t) ==
  /\ pc[t] = "owner" /\ own[t] # NULL
  /\ Goes(t, "freed")
  /\ overlapped' = (overlapped \/ \E u \in Threads : Creating(u))
  /\ live' = live \ {own[t]}
  /\ broken' = (own[t] \notin live)
  /\ onlyMade' = FALSE
  /\ UNCHANGED <<g_device, own>>

(* A fault of release: the newest device is not looked for in the global.  *)
Fault_ReleaseCompares_Forgets(t) ==
  /\ pc[t] = "freed"
  /\ Goes(t, "idle") /\ Holds(t, NULL)
  /\ UNCHANGED <<live, g_device, broken, overlapped, onlyMade>>

ReleaseCompares(t) ==
  /\ pc[t] = "freed"
  /\ IF own[t] = g_device THEN Goes(t, "matched") /\ UNCHANGED own
                          ELSE Goes(t, "idle") /\ Holds(t, NULL)
  /\ UNCHANGED <<live, g_device, broken, overlapped, onlyMade>>

ReleaseClears(t) ==
  /\ pc[t] = "matched"
  /\ g_device' = NULL
  /\ Goes(t, "idle") /\ Holds(t, NULL)
  /\ UNCHANGED <<live, broken, overlapped, onlyMade>>

DeviceStep(t) ==
  \/ CreateStores(t) \/ CreateTests(t) \/ CreateFills(t) \/ CreateReturns(t)
  \/ ReleaseIgnoresNull(t) \/ ReleaseFrees(t)
  \/ ReleaseCompares(t) \/ ReleaseClears(t)

(* A broken process does nothing that could be described.                  *)
DeviceNext == ~broken /\ \E t \in Threads : DeviceStep(t)

DeviceSpec == DeviceInit /\ [][DeviceNext]_mvars

-----------------------------------------------------------------------------
(* Properties.                                                             *)

Holding(t) == (Creating(t) \/ pc[t] = "owner") /\ own[t] # NULL

(* As long as no creation has overlapped another call, devices and their   *)
(* owners are one to one, a creation that succeeds answers a device, and   *)
(* nothing is written or freed that is not allocated, whatever failed      *)
(* creations and releases in any order, also at the same time, do to       *)
(* g_device.                                                               *)
OwnUnlessOverlapped ==
  ~overlapped =>
    /\ ~broken
    /\ \A t \in Threads : pc[t] = "owner" => own[t] # NULL
    /\ live = {own[t] : t \in {u \in Threads : Holding(u)}}
    /\ \A t, u \in Threads : Holding(t) /\ Holding(u) /\ own[t] = own[u] => t = u

(* As long as no creation has overlapped another call, g_device is null or *)
(* a device that exists whenever nobody is inside, also after releases at  *)
(* the same time, the release of a device that is not the newest and the   *)
(* reuse of its address.                                                   *)
GlobalLiveUnlessOverlapped ==
  ~overlapped /\ ~(\E t \in Threads : Inside(t)) => g_device \in live \union {NULL}

(* However creations overlap: as long as none has failed to allocate and   *)
(* nothing has been released, each writes to a device and answers one.     *)
(* Two may be given the same, and a device may be lost.                    *)
AnswersExistWhileOnlyMade ==
  onlyMade =>
    /\ ~broken
    /\ \A t \in Threads : pc[t] = "owner" => own[t] \in live
=============================================================================
