---------------------------- MODULE LockedQueue -----------------------------
(***************************************************************************)
(* A data queue shared by threads that guard it with an LPNUIOLock.  The   *)
(* queue asks its callers to look before they enqueue (IODataQueue), and   *)
(* looking and enqueuing are two calls: a "locked" caller holds the lock   *)
(* over both.  The lock keeps others out unless two threads race through   *)
(* its test (IOLock), so what it is worth here depends on that.            *)
(*                                                                         *)
(* The other two kinds of caller are those of IODataQueue, without lock.   *)
(***************************************************************************)
EXTENDS IODataQueue, IOLock

VARIABLE
  want        \* the size a thread has checked and not yet enqueued, or 0

lqvars == <<qvars, lvars, want>>

LockedInit ==
  /\ LPNUIODataQueueCreate
  /\ client \in {"checked", "uniform", "locked"}
  /\ record \in {r \in 1 .. capacity : Divides(r, capacity)}
  /\ client = "locked" => record = 1    \* not used
  /\ total = 0
  /\ LockInit
  /\ want = [t \in Threads |-> 0]

-----------------------------------------------------------------------------

Alone == client # "locked" /\ Next /\ UNCHANGED <<lvars, want>>

(* A fault of the caller: it looks before it takes the lock.               *)
Fault_Look_Outside(t, n) ==
  /\ client = "locked"
  /\ pc[t] = "idle" /\ want[t] = 0
  /\ size + n <= capacity /\ total + n <= MaxTotal
  /\ want' = [want EXCEPT ![t] = n]
  /\ UNCHANGED <<qvars, lvars>>

(* GetSize and GetCapacity, inside the lock. *)
Look(t, n) ==
  /\ client = "locked"
  /\ pc[t] = "held" /\ want[t] = 0
  /\ size + n <= capacity /\ total + n <= MaxTotal
  /\ want' = [want EXCEPT ![t] = n]
  /\ UNCHANGED <<qvars, lvars>>

(* The enqueue that was looked for, also inside.  After a race its         *)
(* accesses may interleave with another's; nothing is claimed then, and it *)
(* stays one step.                                                         *)
EnqueueLooked(t) ==
  /\ pc[t] = "held" /\ want[t] # 0
  /\ LPNUIODataQueueEnqueue(want[t])
  /\ want' = [want EXCEPT ![t] = 0]
  /\ UNCHANGED lvars

(* A thread may also take the lock and leave the queue alone. *)
LockStep(t) ==
  /\ client = "locked"
  /\ \/ AcquireStart(t) \/ AcquireTest(t) \/ TryTest(t) \/ AcquireSet(t)
     \/ want[t] = 0 /\ Release(t)
  /\ UNCHANGED <<qvars, want>>

LockedNext ==
  \/ Alone
  \/ \E t \in Threads :
       \/ \E n \in 1 .. capacity : Look(t, n)
       \/ EnqueueLooked(t)
       \/ LockStep(t)

(* The fairness of IOLock, and an enqueue that was looked for is made.     *)
LockedSpec ==
  /\ LockedInit /\ [][LockedNext]_lqvars
  /\ LockFairness
  /\ \A t \in Threads : WF_lqvars(EnqueueLooked(t))

-----------------------------------------------------------------------------
(* The copy of every enqueue ends inside the buffer: what a caller saw     *)
(* when it looked still holds when it enqueues, for a caller alone and for *)
(* threads under the lock, as long as none of them has raced.              *)
GuardedCopiesInside == [][~raced => CopyFits]_lqvars
=============================================================================
