---------------------------- MODULE IODataQueue -----------------------------
(***************************************************************************)
(* LPNUIODataQueue of lpnu/iokit/lpnu_iokit.c: a byte buffer of a fixed    *)
(* capacity, a write position `head' that wraps, and a uint32 `size' that  *)
(* every enqueue adds to.  Nothing is ever taken out: Dequeue reports      *)
(* success and a size of 0, or kIOReturnNoData while size is 0, and        *)
(* changes nothing, so it is a stuttering step, and `tail' stays 0.        *)
(*                                                                         *)
(* An enqueue copies its bytes to data + head .. without wrapping the copy *)
(* itself.  It relies on its caller for the copy to fit.  Two callers are  *)
(* modelled: a "checked" one, which asks GetSize and GetCapacity first and *)
(* enqueues only what still fits, and a "uniform" one, whose records all   *)
(* have one size that divides the capacity and which does not ask.         *)
(***************************************************************************)
EXTENDS Integers

CONSTANTS
  Capacities,   \* capacities a client creates queues with, none 0
  Word,         \* 2^32 in the code: the range of the uint32 size
  MaxTotal      \* bound on the bytes enqueued in a behaviour

ASSUME CapacitiesAssumption == Capacities \subseteq Nat \ {0}
ASSUME WordAssumption ==
  Word \in Nat /\ MaxTotal \in Nat /\ \A c \in Capacities : c < Word

VARIABLES
  client,       \* the kind of caller
  record,       \* the record size of a uniform caller
  capacity,     \* queue->capacity
  head,         \* queue->head
  size,         \* queue->size
  total         \* bytes enqueued so far (history)

qvars == <<client, record, capacity, head, size, total>>

Divides(r, c) == \E k \in 1 .. c : k * r = c

TypeOK ==
  /\ client \in {"checked", "uniform"}
  /\ capacity \in Capacities
  /\ record \in 1 .. capacity /\ Divides(record, capacity)
  /\ head \in 0 .. capacity - 1
  /\ size \in 0 .. Word - 1
  /\ total \in Nat

LPNUIODataQueueCreate ==
  /\ capacity \in Capacities
  /\ head = 0
  /\ size = 0

Init ==
  /\ LPNUIODataQueueCreate
  /\ client \in {"checked", "uniform"}
  /\ record \in {r \in 1 .. capacity : Divides(r, capacity)}
  /\ total = 0

-----------------------------------------------------------------------------
(* The operations.                                                         *)

LPNUIODataQueueIsFull == size >= capacity
LPNUIODataQueueIsEmpty == size = 0

(* Dequeue takes nothing out; this is what it reports. *)
LPNUIODataQueueDequeue == IF size = 0 THEN "NoData" ELSE "Success"

MayEnqueue(n) ==
  \/ client = "checked" /\ size + n <= capacity
  \/ client = "uniform" /\ n = record

(* A fault of enqueue: the size is that of the last record only.           *)
Fault_Enqueue_SetsSize(n) ==
  /\ n <= capacity
  /\ head' = (head + n) % capacity
  /\ size' = n % Word
  /\ total' = total + n
  /\ UNCHANGED <<client, record, capacity>>

LPNUIODataQueueEnqueue(n) ==
  /\ n <= capacity
  /\ head' = (head + n) % capacity
  /\ size' = (size + n) % Word
  /\ total' = total + n
  /\ UNCHANGED <<client, record, capacity>>

Next ==
  \E n \in 1 .. capacity :
    /\ total + n <= MaxTotal
    /\ MayEnqueue(n)
    /\ LPNUIODataQueueEnqueue(n)

Spec == Init /\ [][Next]_qvars

-----------------------------------------------------------------------------
(* Properties.                                                             *)

(* The copy of every enqueue ends inside the buffer.                       *)
CopyFits == head + (total' - total) <= capacity

(* A checked caller is told the truth: its queue is full exactly when the  *)
(* buffer has no byte left that was never written, and empty, also to a    *)
(* Dequeue, only when nothing was enqueued.  (A uniform caller's size wraps with the word.)   *)
CheckedSizeHonest ==
  client = "checked" =>
    /\ LPNUIODataQueueIsFull <=> total = capacity
    /\ LPNUIODataQueueIsEmpty <=> total = 0
    /\ LPNUIODataQueueDequeue = "NoData" <=> total = 0
=============================================================================
