----------------------------- MODULE IOService ------------------------------
(***************************************************************************)
(* The service tree of lpnu/iokit/lpnu_iokit.c.  A service names its       *)
(* parent, its first child and its next sibling by bare pointers; the      *)
(* children of a service are a list linked through `sibling' that AddChild *)
(* prepends to.  RemoveChild clears the parent pointer of the child and    *)
(* leaves the list alone, and Destroy frees without looking at any link:   *)
(* there is no retain, so the reference count is 1 until then.             *)
(*                                                                         *)
(* None of the operations checks its arguments.  A careful client makes up *)
(* for it: it destroys a service only when no live service has a link to   *)
(* it, and adds a child only when it is in no list and the parent is not   *)
(* below it.  Other clients keep to one rule only, to pass services that   *)
(* exist: they destroy services that lists lead to, whose addresses may    *)
(* then be given to others, and add services that are in a list already,   *)
(* to the same parent, to another, or to themselves.                       *)
(*                                                                         *)
(* Any client can keep a book: for every parent the children it has added, *)
(* the newest first.  It knows the list of a parent is spoilt once it has  *)
(* destroyed a child of it, or added one a second time.                    *)
(***************************************************************************)
EXTENDS Integers, FiniteSets, SequencesExt, ServiceObjects

CONSTANT
  Spares      \* addresses that only the services of careful clients are at:
              \* a bound on what the others do

ASSUME ServicesAssumption == IsFiniteSet(Services) /\ NULL \notin Services

VARIABLES
  parent,     \* service->parent
  child,      \* service->child
  sibling,    \* service->sibling
  careful,    \* is the client careful; it does not change
  book,       \* the children added to every service, as long as not spoilt
  spoilt      \* the services whose list the client has spoilt (history)

svars == <<live, parent, child, sibling>>
clientvars == <<careful, book, spoilt>>
tvars == <<svars, clientvars>>

Links == [Services -> Services \union {NULL}]

TreeTypeOK ==
  /\ live \subseteq Services
  /\ parent \in Links /\ child \in Links /\ sibling \in Links
  /\ careful \in BOOLEAN
  /\ book \in [Services -> Seq(Services)]
  /\ spoilt \subseteq live

TreeInit ==
  /\ live = {}
  /\ parent = [s \in Services |-> NULL]
  /\ child = [s \in Services |-> NULL]
  /\ sibling = [s \in Services |-> NULL]
  /\ careful \in BOOLEAN
  /\ book = [s \in Services |-> <<>>]
  /\ spoilt = {}

-----------------------------------------------------------------------------
(* What the links say.                                                     *)

(* No list leads to s. *)
Unlisted(s) == \A u \in live : child[u] # s /\ sibling[u] # s

(* One hop of a walk over the links `next'.                                *)
After(x, next) == IF x = NULL THEN NULL ELSE next[x]

(* The walk of the children of p, hop by hop.  A walk that has not ended   *)
(* after as many hops as there are services runs in a circle.              *)
Hop(p) ==
  LET hop[n \in Nat] ==
        IF n = 0 THEN child[p] ELSE After(hop[n - 1], sibling)
  IN hop
Children(p) ==
  LET hop == Hop(p)
      ended == {n \in 0 .. Cardinality(Services) : hop[n] = NULL}
      end == IF ended = {} THEN Cardinality(Services) + 1
             ELSE CHOOSE n \in ended : \A m \in ended : n <= m
  IN [n \in 1 .. end |-> hop[n - 1]]

(* What can be reached from s over the lists, s included. *)
Below(s) ==
  {u \in Services :
     \A S \in SUBSET Services :
       /\ s \in S
       /\ \A v \in S : /\ child[v] \in S \union {NULL}
                       /\ v # s => sibling[v] \in S \union {NULL}
       => u \in S}

-----------------------------------------------------------------------------
(* The operations.                                                         *)

(* A fault of Create: the memory is not cleared, and keeps the links of    *)
(* the service that was freed there.                                       *)
Fault_Create_KeepsLinks(s) ==
  /\ s \notin live
  /\ live' = live \union {s}
  /\ UNCHANGED <<parent, child, sibling>>

(* calloc: the address may be one that was freed; every link is null.      *)
LPNUIOServiceCreate(s) ==
  /\ s \notin live
  /\ live' = live \union {s}
  /\ parent' = [parent EXCEPT ![s] = NULL]
  /\ child' = [child EXCEPT ![s] = NULL]
  /\ sibling' = [sibling EXCEPT ![s] = NULL]

(* A matching service is a new service: nothing is matched. *)
LPNUIOServiceMatching(s) == LPNUIOServiceCreate(s)

(* The only reference is dropped, and no link is looked at.                *)
LPNUIOServiceDestroy(s) ==
  /\ s \in live
  /\ live' = live \ {s}
  /\ UNCHANGED <<parent, child, sibling>>

(* A fault of AddChild: the head of the list is written before it is read. *)
Fault_AddChild_HeadFirst(p, c) ==
  /\ p \in live /\ c \in live
  /\ parent' = [parent EXCEPT ![c] = p]
  /\ child' = [child EXCEPT ![p] = c]
  /\ sibling' = [sibling EXCEPT ![c] = c]
  /\ UNCHANGED live

LPNUIOServiceAddChild(p, c) ==
  /\ p \in live /\ c \in live
  /\ parent' = [parent EXCEPT ![c] = p]
  /\ sibling' = [sibling EXCEPT ![c] = child[p]]
  /\ child' = [child EXCEPT ![p] = c]
  /\ UNCHANGED live

(* A fault of RemoveChild: it clears the sibling link too.                 *)
Fault_RemoveChild_CutsList(p, c) ==
  /\ p \in live /\ c \in live
  /\ parent' = [parent EXCEPT ![c] = NULL]
  /\ sibling' = [sibling EXCEPT ![c] = NULL]
  /\ UNCHANGED <<live, child>>

(* The parent is not looked at: c need not be a child of p. *)
LPNUIOServiceRemoveChild(p, c) ==
  /\ p \in live /\ c \in live
  /\ parent' = [parent EXCEPT ![c] = NULL]
  /\ UNCHANGED <<live, child, sibling>>

-----------------------------------------------------------------------------
(* The client, which calls and keeps its book.                             *)

MayDestroy(s) == Unlisted(s) /\ \A u \in live : parent[u] # s
MayAdd(p, c) == Unlisted(c) /\ p \notin Below(c)

HavingListed(s) == {p \in live : s \in ToSet(book[p])}

(* The book of the services in S is closed.                                *)
Closed(S) == [p \in Services |-> IF p \in S THEN <<>> ELSE book[p]]

CreatesService(s) ==
  /\ s \in Spares => careful
  /\ LPNUIOServiceCreate(s) \/ LPNUIOServiceMatching(s)
  /\ UNCHANGED clientvars

DestroysService(s) ==
  /\ careful => MayDestroy(s)
  /\ LPNUIOServiceDestroy(s)
  /\ book' = Closed(HavingListed(s) \union {s})
  /\ spoilt' = (spoilt \union HavingListed(s)) \ {s}
  /\ UNCHANGED careful

AddsChild(p, c) ==
  /\ careful => MayAdd(p, c)
  /\ LPNUIOServiceAddChild(p, c)
  /\ spoilt' = spoilt \union HavingListed(c)
  /\ book' = IF p \in spoilt' THEN Closed(HavingListed(c))
             ELSE [Closed(HavingListed(c)) EXCEPT ![p] = <<c>> \o @]
  /\ UNCHANGED careful

RemovesChild(p, c) ==
  /\ LPNUIOServiceRemoveChild(p, c)
  /\ UNCHANGED clientvars

TreeNext ==
  \/ \E s \in Services : CreatesService(s) \/ DestroysService(s)
  \/ \E p, c \in Services : AddsChild(p, c) \/ RemovesChild(p, c)

TreeSpec == TreeInit /\ [][TreeNext]_tvars

-----------------------------------------------------------------------------
(* Properties.                                                             *)

(* With careful clients a tree can always be taken down: some live service *)
(* is in no list, so that after RemoveChild of its children nothing has a  *)
(* link to it.  The lists never close a circle, although nothing is ever   *)
(* unlinked.                                                               *)
TeardownPossible ==
  careful /\ live # {} => \E s \in live : Unlisted(s)

(* With careful clients the linked lists are the sequences of              *)
(* ServiceForest: no list is cut short, runs into another, or loses or     *)
(* gains a child by an operation on another service.                       *)
Forest == INSTANCE ServiceForest WITH
  Nobody <- NULL,
  alive  <- IF careful THEN live ELSE {},
  owner  <- [s \in Services |-> IF careful /\ s \in live THEN parent[s] ELSE NULL],
  kids   <- [p \in Services |-> IF careful /\ p \in live THEN Children(p) ELSE <<>>]
ImplementsForest == Forest!FSpec

(* The walk from the service `first' over the links `next' meets the       *)
(* services of q, in this order, and ends.                                 *)
WalkMeets(first, next, q) ==
  IF q = <<>> THEN first = NULL
  ELSE /\ first = q[1]
       /\ \A k \in 1 .. Len(q) - 1 : next[q[k]] = q[k + 1]
       /\ next[q[Len(q)]] = NULL

(* Whatever the client does, damage stays where it was done: a list that   *)
(* it has not spoilt itself is walked through live services to its end,    *)
(* the newest child first and those that were removed included, whatever   *)
(* was destroyed, created at a used address, or added twice in others.     *)
UnspoiltListsKept ==
  \A p \in live \ spoilt :
    /\ ToSet(book[p]) \subseteq live
    /\ WalkMeets(child[p], sibling, book[p])
=============================================================================
