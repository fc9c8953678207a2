------------------------ MODULE ServiceRegistration -------------------------
(***************************************************************************)
(* The life of services outside their tree (IOService models the tree):    *)
(* the state word, the provider, and g_serviceList of                      *)
(* lpnu/iokit/lpnu_iokit.c, the list of at most ListSize pointers that     *)
(* RegisterService appends to.  Nothing is ever taken off the list, not    *)
(* even by Destroy, and the address of a destroyed service may be given to *)
(* a new one.  A "careful" client never destroys a service it registered;  *)
(* a "free" one does as it likes.                                          *)
(***************************************************************************)
EXTENDS Integers, Sequences, SequencesExt, ServiceObjects

CONSTANTS
  Providers,
  ListSize,    \* slots of g_serviceList (256 in the code)
  MaxBorn,     \* bound on the services created at one address
  MaxCalls,    \* bound on the calls of RegisterService
  Clients      \* kinds of client: "careful", "free"

ASSUME ListAssumption == ListSize \in Nat /\ MaxBorn \in Nat /\ MaxCalls \in Nat
ASSUME ProvidersAssumption == NULL \notin Providers

VARIABLES
  client,         \* the kind of client; it does not change
  born,           \* how many services were created at every address (history)
  state,          \* service->state, as the set of its bits
  provider,       \* service->provider
  g_serviceList,  \* the filled part of the list
  registered,     \* every service registered, with its birth (history)
  lastCall        \* the last of Create, Start and Stop for a service (history)

rvars == <<client, live, born, state, provider, g_serviceList, registered, lastCall>>

(* kIOServiceReady is the 40 bit; Start and Stop use the 20 bit. *)
Bits == {"20State", "40State"}
Birth(s) == [at |-> s, birth |-> born[s]]

RegistrationTypeOK ==
  /\ client \in Clients
  /\ live \subseteq Services
  /\ born \in [Services -> 0 .. MaxBorn]
  /\ state \in [Services -> SUBSET Bits]
  /\ provider \in [Services -> Providers \union {NULL}]
  /\ g_serviceList \in Seq(Services)
  /\ registered \in Seq([at : Services, birth : 1 .. MaxBorn])
  /\ lastCall \in [Services -> {"Create", "Start", "Stop"}]

RegistrationInit ==
  /\ client \in Clients
  /\ live = {}
  /\ born = [s \in Services |-> 0]
  /\ state = [s \in Services |-> {}]
  /\ provider = [s \in Services |-> NULL]
  /\ g_serviceList = <<>>
  /\ registered = <<>>
  /\ lastCall = [s \in Services |-> "Create"]

-----------------------------------------------------------------------------
(* The operations.                                                         *)

Called(s, call) == lastCall' = [lastCall EXCEPT ![s] = call]

(* LPNUIOServiceCreate: calloc, then the ready bit; nothing is left of an   *)
(* earlier service here.                                                   *)
CreateService(s) ==
  /\ s \notin live /\ born[s] < MaxBorn
  /\ live' = live \union {s}
  /\ born' = [born EXCEPT ![s] = @ + 1]
  /\ state' = [state EXCEPT ![s] = {"40State"}]
  /\ provider' = [provider EXCEPT ![s] = NULL]
  /\ Called(s, "Create")
  /\ UNCHANGED <<client, g_serviceList, registered>>

(* LPNUIOServiceDestroy: the count is 1 until now, and the list is not      *)
(* looked at.                                                              *)
DestroyService(s) ==
  /\ s \in live
  /\ client = "careful" => Birth(s) \notin ToSet(registered)
  /\ live' = live \ {s}
  /\ UNCHANGED <<client, born, state, provider, g_serviceList, registered, lastCall>>

(* A fault of Start: the word is assigned.                                 *)
Fault_Start_Assigns(s) ==
  /\ s \in live
  /\ state' = [state EXCEPT ![s] = {"20State"}]
  /\ Called(s, "Start")
  /\ UNCHANGED <<client, live, born, provider, g_serviceList, registered>>

LPNUIOServiceStart(s) ==
  /\ s \in live
  /\ state' = [state EXCEPT ![s] = @ \union {"20State"}]
  /\ Called(s, "Start")
  /\ UNCHANGED <<client, live, born, provider, g_serviceList, registered>>

LPNUIOServiceStop(s) ==
  /\ s \in live
  /\ state' = [state EXCEPT ![s] = @ \ {"20State"}]
  /\ Called(s, "Stop")
  /\ UNCHANGED <<client, live, born, provider, g_serviceList, registered>>

LPNUIOServiceAddProvider(s, p) ==
  /\ s \in live
  /\ provider' = [provider EXCEPT ![s] = p]
  /\ UNCHANGED <<client, live, born, state, g_serviceList, registered, lastCall>>

(* Whatever provider it is given, the one that is there goes. *)
LPNUIOServiceRemoveProvider(s, p) == LPNUIOServiceAddProvider(s, NULL)

(* A fault of registration: the count starts again at the end of the list. *)
Fault_Append_StartsAgain(s) ==
  g_serviceList' = IF Len(g_serviceList) < ListSize THEN Append(g_serviceList, s)
                   ELSE [g_serviceList EXCEPT ![1] = s]

(* Without room nothing is listed, and the call still reports success.     *)
AppendListed(s) ==
  g_serviceList' = IF Len(g_serviceList) < ListSize THEN Append(g_serviceList, s)
                   ELSE g_serviceList

LPNUIOServiceRegisterService(s) ==
  /\ s \in live /\ Len(registered) < MaxCalls
  /\ AppendListed(s)
  /\ registered' = Append(registered, Birth(s))
  /\ UNCHANGED <<client, live, born, state, provider, lastCall>>

RegistrationNext ==
  \E s \in Services :
    \/ CreateService(s)
    \/ DestroyService(s)
    \/ LPNUIOServiceStart(s)
    \/ LPNUIOServiceStop(s)
    \/ \E p \in Providers : LPNUIOServiceAddProvider(s, p)
    \/ \E p \in Providers : LPNUIOServiceRemoveProvider(s, p)
    \/ LPNUIOServiceRegisterService(s)

RegistrationSpec == RegistrationInit /\ [][RegistrationNext]_rvars

-----------------------------------------------------------------------------
(* Properties.                                                             *)

(* The list names the first ListSize services ever registered, in order,   *)
(* also those that are gone; later registrations leave it as it is.  With  *)
(* a careful client every pointer of it is the very service that was       *)
(* registered and not a later one at its address.                          *)
RegistrationsKept ==
  /\ Len(g_serviceList) <= ListSize
  /\ \A k \in 1 .. Len(registered) :
       k <= ListSize => /\ k <= Len(g_serviceList)
                        /\ g_serviceList[k] = registered[k].at
                        /\ client = "careful" => /\ g_serviceList[k] \in live
                                                 /\ Birth(g_serviceList[k]) = registered[k]

(* A service is started exactly when the last Start or Stop since its      *)
(* creation was a Start, whatever was at its address before, and stays     *)
(* ready all the while.                                                    *)
StartedAsCalled ==
  \A s \in live :
    /\ "40State" \in state[s]
    /\ "20State" \in state[s] <=> lastCall[s] = "Start"
=============================================================================
