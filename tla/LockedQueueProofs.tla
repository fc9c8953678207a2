------------------------- MODULE LockedQueueProofs --------------------------
(***************************************************************************)
(* Theorems about IOLock, IODataQueue and LockedQueue, for every number of *)
(* threads and every capacity.                                             *)
(*                                                                         *)
(* The lock alone: exclusion without a race needs the threads past their   *)
(* test as well as the holders: at most one thread is in either place, and *)
(* the flag is set exactly while that thread holds the lock.               *)
(*                                                                         *)
(* The queue alone: the write position never leaves the buffer, and a      *)
(* checked caller is told the truth.  As long as its size has not wrapped  *)
(* it is the bytes enqueued, and it cannot wrap because the capacity is    *)
(* smaller than the word.                                                  *)
(*                                                                         *)
(* Both together: the heart of the matter is WantHolds.  What a thread saw *)
(* when it looked stays true until it enqueues, because a thread that      *)
(* wants something is inside the lock, and without a race nobody else is.  *)
(* For a caller whose records have one size, head is a multiple of that    *)
(* size, and so is the capacity: a record that begins inside the buffer    *)
(* also ends there.                                                        *)
(***************************************************************************)
EXTENDS LockedQueue, TLAPS

-----------------------------------------------------------------------------
(* The lock alone.                                                         *)

Inside == {t \in Threads : pc[t] \in {"passed", "held"}}

OneInside ==
  ~raced => /\ \A t, u \in Inside : t = u
            /\ locked = 1 <=> Holders # {}

LInv == LockTypeOK /\ OneInside /\ NeverLeaked

LEMMA LInvInit == LockInit => LInv
<1> SUFFICES ASSUME LockInit
             PROVE  LInv
  OBVIOUS
<1>1. LockTypeOK
  BY DEF LockInit, LockTypeOK, Places
<1>2. Inside = {} /\ Holders = {} /\ locked = 0
  BY DEF LockInit, Inside, Holders
<1> QED
  BY <1>1, <1>2 DEF LInv, OneInside, NeverLeaked

LEMMA LInvStep == LInv /\ [LockNext]_lvars => LInv'
<1> SUFFICES ASSUME LInv, [LockNext]_lvars
             PROVE  LInv'
  OBVIOUS
<1> USE DEF LInv, LockTypeOK, Places, Goto
<1>1. ASSUME NEW t \in Threads, AcquireStart(t)
      PROVE  LInv'
  BY <1>1 DEF AcquireStart, OneInside, Inside, Holders, NeverLeaked
<1>2. ASSUME NEW t \in Threads, AcquireTest(t) \/ TryTest(t)
      PROVE  LInv'
  <2>1. /\ pc[t] \notin {"passed", "held"} /\ locked = 0 /\ locked' = 0
        /\ pc' = [pc EXCEPT ![t] = "passed"]
        /\ raced' = (raced \/ Others(t, "passed"))
    BY <1>2 DEF AcquireTest, TryTest
  <2>2. LockTypeOK'
    BY <2>1
  <2>3. NeverLeaked'
    BY <2>1 DEF NeverLeaked
  <2>4. OneInside'
    <3> SUFFICES ASSUME ~raced'
                 PROVE  /\ \A s, u \in Inside' : s = u
                        /\ locked' = 1 <=> Holders' # {}
      BY DEF OneInside
    <3>1. ~raced /\ ~Others(t, "passed")
      BY <2>1
    <3>2. Holders = {}
      BY <2>1, <3>1 DEF OneInside
    <3>3. Inside = {}
      BY <2>1, <3>1, <3>2 DEF Inside, Holders, Others
    <3>4. Inside' = {t} /\ Holders' = {}
      BY <2>1, <3>3 DEF Inside, Holders
    <3> QED
      BY <2>1, <3>4
  <2> QED
    BY <2>2, <2>3, <2>4
<1>3. ASSUME NEW t \in Threads, AcquireSet(t)
      PROVE  LInv'
  <2>1. t \in Inside /\ t \in Holders' /\ Inside' = Inside
    BY <1>3 DEF AcquireSet, Inside, Holders
  <2> QED
    BY <1>3, <2>1 DEF AcquireSet, OneInside, NeverLeaked
<1>4. ASSUME NEW t \in Threads, Release(t)
      PROVE  LInv'
  <2>1. LockTypeOK' /\ NeverLeaked'
    BY <1>4 DEF Release, NeverLeaked
  <2>2. OneInside'
    <3>1. t \in Inside /\ Inside' = Inside \ {t} /\ Holders' \subseteq Inside'
      BY <1>4 DEF Release, Inside, Holders
    <3> QED
      BY <1>4, <3>1 DEF Release, OneInside
  <2> QED
    BY <2>1, <2>2
<1>5. CASE UNCHANGED lvars
  BY <1>5 DEF lvars, OneInside, Inside, Holders, NeverLeaked
<1> QED
  BY <1>1, <1>2, <1>3, <1>4, <1>5 DEF LockNext

THEOREM LockInvariant == LockSpec => []LInv
<1> QED
  BY LInvInit, LInvStep, PTL DEF LockSpec

(* The flag, the places and the history variable keep their types.         *)
THEOREM LockTypeCorrect == LockSpec => []LockTypeOK
<1>1. LInv => LockTypeOK
  BY DEF LInv
<1> QED
  BY <1>1, LockInvariant, PTL

(* Without a race in the window at most one thread holds the lock.         *)
THEOREM LockExclusiveUnlessRaced == LockSpec => []ExclusiveUnlessRaced
<1>1. LInv => ExclusiveUnlessRaced
  BY DEF LInv, OneInside, ExclusiveUnlessRaced, MutualExclusion, Inside, Holders
<1> QED
  BY <1>1, LockInvariant, PTL

(* Race or not, the flag is never left set without a holder.               *)
THEOREM LockNeverLeaked == LockSpec => []NeverLeaked
<1>1. LInv => NeverLeaked
  BY DEF LInv
<1> QED
  BY <1>1, LockInvariant, PTL

-----------------------------------------------------------------------------
(* The queue alone.                                                        *)

QInv ==
  /\ TypeOK
  /\ client = "checked" => size = total /\ total <= capacity

(* The remainder of a number that is smaller than the modulus, and the     *)
(* range of a remainder.                                                   *)
LEMMA ModRange ==
  ASSUME NEW a \in Nat, NEW m \in Nat \ {0}
  PROVE  a % m \in 0 .. m - 1 /\ (a < m => a % m = a)
  BY SMT

(* The queue is created inside the invariant.                              *)
LEMMA InitQInv == Init => QInv
<1> USE CapacitiesAssumption, WordAssumption
<1> QED
  BY DEF Init, LPNUIODataQueueCreate, QInv, TypeOK

(* An enqueue by either kind of caller keeps it.                           *)
LEMMA NextQInv == QInv /\ [Next]_qvars => QInv'
<1> SUFFICES ASSUME QInv, [Next]_qvars PROVE QInv'
  OBVIOUS
<1> USE CapacitiesAssumption, WordAssumption
<1>1. CASE UNCHANGED qvars
  BY <1>1 DEF QInv, TypeOK, qvars
<1>2. CASE Next
  <2> PICK n \in 1 .. capacity : MayEnqueue(n) /\ LPNUIODataQueueEnqueue(n)
    BY <1>2 DEF Next
  <2>1. /\ head + n \in Nat /\ size + n \in Nat /\ total + n \in Nat
        /\ capacity \in Nat \ {0} /\ Word \in Nat \ {0} /\ capacity < Word
    BY DEF QInv, TypeOK
  <2>2. head' \in 0 .. capacity - 1
    BY <2>1, ModRange DEF LPNUIODataQueueEnqueue
  <2>3. size' \in 0 .. Word - 1
    BY <2>1, ModRange DEF LPNUIODataQueueEnqueue
  <2>4. TypeOK'
    BY <2>1, <2>2, <2>3 DEF QInv, TypeOK, LPNUIODataQueueEnqueue
  <2>5. ASSUME client' = "checked" PROVE size' = total' /\ total' <= capacity'
    <3>1. client = "checked" /\ size + n <= capacity
      BY <2>5 DEF LPNUIODataQueueEnqueue, MayEnqueue
    <3>2. size + n < Word
      BY <3>1, <2>1 DEF QInv, TypeOK
    <3>3. (size + n) % Word = size + n
      BY <3>2, <2>1, ModRange
    <3> QED
      BY <3>1, <3>3, <2>1 DEF QInv, TypeOK, LPNUIODataQueueEnqueue
  <2> QED
    BY <2>4, <2>5 DEF QInv
<1> QED
  BY <1>1, <1>2

(* Every reachable state satisfies the inductive invariant.                *)
THEOREM QueueInvariant == Spec => []QInv
  BY InitQInv, NextQInv, PTL DEF Spec

(* The write position stays inside the buffer and the size inside the      *)
(* machine word, for both kinds of caller.                                 *)
THEOREM QueueTypeCorrect == Spec => []TypeOK
  BY QueueInvariant, PTL DEF QInv

(* A checked caller's queue is full exactly when every byte of the buffer  *)
(* was written once, and empty exactly when nothing was enqueued.          *)
THEOREM QueueCheckedSizeHonest == Spec => []CheckedSizeHonest
<1>1. QInv => CheckedSizeHonest
  BY CapacitiesAssumption
  DEF QInv, TypeOK, CheckedSizeHonest, LPNUIODataQueueIsFull, LPNUIODataQueueIsEmpty,
         LPNUIODataQueueDequeue
<1> QED
  BY <1>1, QueueInvariant, PTL

-----------------------------------------------------------------------------
(* The queue under its lock.                                               *)

Guarded == client = "checked" \/ (client = "locked" /\ ~raced)

QueueTypes ==
  /\ client \in {"checked", "uniform", "locked"}
  /\ capacity \in Capacities
  /\ record \in 1 .. capacity /\ Divides(record, capacity)
  /\ head \in 0 .. capacity - 1
  /\ size \in 0 .. Word - 1
  /\ total \in Nat
  /\ want \in [Threads -> 0 .. capacity]

(* As long as nothing has wrapped, the size, the position and the bytes    *)
(* enqueued are one number.                                                *)
CountersAgree ==
  Guarded => /\ size = total
             /\ total <= capacity
             /\ head = IF total = capacity THEN 0 ELSE total

RecordsAligned == client = "uniform" => \E k \in Nat : head = k * record

WantHolds ==
  \A t \in Threads : want[t] # 0 =>
    /\ client = "locked" /\ pc[t] = "held"
    /\ ~raced => size + want[t] <= capacity

LQInv == QueueTypes /\ CountersAgree /\ RecordsAligned /\ WantHolds /\ LInv

-----------------------------------------------------------------------------
(* Arithmetic.                                                             *)

LEMMA ModAtEnd ==
  ASSUME NEW m \in Nat \ {0}
  PROVE  m % m = 0
BY SMT

LEMMA NextMultiple ==
  ASSUME NEW r \in Nat \ {0}, NEW k \in Nat, NEW j \in Nat, k * r < j * r
  PROVE  k * r + r <= j * r /\ k * r + r = (k + 1) * r
<1>1. k < j
  <2> SUFFICES ASSUME j <= k
               PROVE  j * r <= k * r
    OBVIOUS
  <2>1. (k - j) * r >= 0
    BY SMT
  <2>2. (k - j) * r = k * r - j * r
    BY SMT
  <2>3. k * r \in Nat /\ j * r \in Nat
    BY SMT
  <2> QED
    BY <2>1, <2>2, <2>3
<1>2. (j - k - 1) * r >= 0
  BY <1>1, SMT
<1>3. (j - k - 1) * r = j * r - k * r - r
  BY SMT
<1>4. (k + 1) * r = k * r + r
  BY SMT
<1>5. k * r \in Nat /\ j * r \in Nat
  BY SMT
<1> QED
  BY <1>2, <1>3, <1>4, <1>5

-----------------------------------------------------------------------------
(* The invariant.                                                          *)

LEMMA LQInvInit == LockedInit => LQInv
<1> SUFFICES ASSUME LockedInit
             PROVE  LQInv
  OBVIOUS
<1> USE CapacitiesAssumption, WordAssumption
<1>1. QueueTypes
  BY DEF LockedInit, LPNUIODataQueueCreate, QueueTypes
<1>2. CountersAgree
  BY DEF LockedInit, LPNUIODataQueueCreate, CountersAgree
<1>3. RecordsAligned
  <2>1. head = 0 * record
    BY DEF LockedInit, LPNUIODataQueueCreate
  <2> QED
    BY <2>1 DEF RecordsAligned
<1>4. WantHolds
  BY DEF LockedInit, WantHolds
<1> QED
  BY <1>1, <1>2, <1>3, <1>4, LInvInit DEF LQInv, LockedInit

(* An enqueue that begins and ends inside the buffer keeps the position    *)
(* inside it, and wraps exactly at its end.                                *)
LEMMA EnqueueMoves ==
  ASSUME QueueTypes, NEW n \in 1 .. capacity, LPNUIODataQueueEnqueue(n)
  PROVE  /\ head' \in 0 .. capacity - 1
         /\ size' \in 0 .. Word - 1
         /\ total' = total + n /\ total' \in Nat
         /\ UNCHANGED <<client, record, capacity>>
         /\ head + n < capacity => head' = head + n
         /\ head + n = capacity => head' = 0
         /\ size + n < Word => size' = size + n
<1> USE CapacitiesAssumption, WordAssumption DEF QueueTypes, LPNUIODataQueueEnqueue
<1>1. /\ head + n \in Nat /\ size + n \in Nat /\ total + n \in Nat
      /\ capacity \in Nat \ {0} /\ Word \in Nat \ {0}
  OBVIOUS
<1>2. head' \in 0 .. capacity - 1 /\ size' \in 0 .. Word - 1
  BY <1>1, ModRange
<1>3. /\ head + n < capacity => head' = head + n
      /\ size + n < Word => size' = size + n
  BY <1>1, ModRange
<1>4. head + n = capacity => head' = 0
  BY <1>1, ModAtEnd
<1> QED
  BY <1>1, <1>2, <1>3, <1>4

(* The counters agree after an enqueue of what still fitted.               *)
LEMMA GuardedEnqueue ==
  ASSUME QueueTypes, CountersAgree, Guarded, NEW n \in 1 .. capacity,
         LPNUIODataQueueEnqueue(n), size + n <= capacity
  PROVE  /\ size' = total' /\ total' <= capacity'
         /\ head' = IF total' = capacity' THEN 0 ELSE total'
         /\ CopyFits
<1>1. /\ size = total /\ head = total /\ head + n <= capacity
      /\ size + n < Word
  BY CapacitiesAssumption, WordAssumption DEF QueueTypes, CountersAgree
<1>2. /\ total' = total + n /\ capacity' = capacity /\ size' = size + n
      /\ head + n < capacity => head' = head + n
      /\ head + n = capacity => head' = 0
  BY <1>1, EnqueueMoves
<1>3. /\ capacity \in Nat \ {0} /\ head \in Nat /\ total \in Nat
      /\ n \in Nat \ {0}
  BY CapacitiesAssumption DEF QueueTypes
<1> QED
  BY <1>1, <1>2, <1>3 DEF CopyFits

(* A record of the one size that divides the capacity ends in the buffer.  *)
LEMMA UniformEnqueue ==
  ASSUME QueueTypes, RecordsAligned, client = "uniform",
         LPNUIODataQueueEnqueue(record)
  PROVE  RecordsAligned' /\ CopyFits
<1>1. /\ record \in Nat \ {0} /\ capacity \in Nat \ {0}
      /\ head \in Nat /\ head < capacity /\ record \in 1 .. capacity
  BY CapacitiesAssumption DEF QueueTypes
<1>2. PICK j \in 1 .. capacity : j * record = capacity
  BY DEF QueueTypes, Divides
<1>3. PICK k \in Nat : head = k * record
  BY DEF RecordsAligned
<1>4. head + record <= capacity /\ head + record = (k + 1) * record
  <2>1. j \in Nat /\ k * record < j * record
    BY <1>1, <1>2, <1>3
  <2> QED
    BY <1>1, <1>2, <1>3, <2>1, NextMultiple
<1>5. /\ head + record < capacity => head' = head + record
      /\ head + record = capacity => head' = 0
      /\ total' = total + record /\ record' = record /\ client' = client
  BY <1>1, EnqueueMoves
<1>6. CASE head + record < capacity
  <2>1. head' = (k + 1) * record' /\ k + 1 \in Nat
    BY <1>4, <1>5, <1>6
  <2> QED
    BY <1>4, <1>5, <2>1 DEF RecordsAligned, CopyFits, QueueTypes
<1>7. CASE head + record = capacity
  <2>1. head' = 0 * record'
    BY <1>1, <1>5, <1>7
  <2> QED
    BY <1>4, <1>5, <2>1 DEF RecordsAligned, CopyFits, QueueTypes
<1> QED
  BY <1>1, <1>4, <1>6, <1>7

LEMMA AloneStep ==
  ASSUME LQInv, Alone
  PROVE  LQInv' /\ CopyFits
<1> PICK n \in 1 .. capacity : MayEnqueue(n) /\ LPNUIODataQueueEnqueue(n)
  BY DEF Alone, Next
<1>1. client # "locked" /\ UNCHANGED <<locked, pc, raced, want>>
  BY DEF Alone, lvars
<1>2. LInv'
  BY <1>1, LInvStep DEF LQInv, lvars
<1>3. QueueTypes'
  BY <1>1, EnqueueMoves DEF LQInv, QueueTypes
<1>4. WantHolds'
  BY <1>1 DEF LQInv, WantHolds
<1>5. CASE client = "checked"
  <2>1. Guarded /\ size + n <= capacity
    BY <1>5 DEF Guarded, MayEnqueue
  <2>2. CountersAgree' /\ CopyFits
    BY <2>1, GuardedEnqueue DEF LQInv, CountersAgree
  <2>3. RecordsAligned'
    BY <1>5 DEF RecordsAligned, LPNUIODataQueueEnqueue
  <2> QED
    BY <1>2, <1>3, <1>4, <2>2, <2>3 DEF LQInv
<1>6. CASE client = "uniform"
  <2>1. n = record
    BY <1>6 DEF MayEnqueue
  <2>2. RecordsAligned' /\ CopyFits
    BY <1>6, <2>1, UniformEnqueue DEF LQInv
  <2>3. CountersAgree'
    BY <1>6 DEF CountersAgree, Guarded, LPNUIODataQueueEnqueue
  <2> QED
    BY <1>2, <1>3, <1>4, <2>2, <2>3 DEF LQInv
<1> QED
  BY <1>1, <1>5, <1>6 DEF LQInv, QueueTypes

LEMMA LookStep ==
  ASSUME LQInv, NEW t \in Threads, NEW n \in 1 .. capacity, Look(t, n)
  PROVE  LQInv' /\ total' = total
<1> USE DEF LQInv, Look, qvars, lvars
<1>1. LInv'
  BY LInvStep
<1>2. QueueTypes'
  BY CapacitiesAssumption DEF QueueTypes
<1>3. CountersAgree' /\ RecordsAligned'
  BY DEF CountersAgree, Guarded, RecordsAligned
<1>4. WantHolds'
  BY DEF WantHolds, QueueTypes
<1> QED
  BY <1>1, <1>2, <1>3, <1>4

LEMMA EnqueueLookedStep ==
  ASSUME LQInv, NEW t \in Threads, EnqueueLooked(t)
  PROVE  LQInv' /\ (~raced => CopyFits)
<1> USE DEF LQInv
<1>1. /\ want[t] \in 1 .. capacity /\ client = "locked" /\ pc[t] = "held"
      /\ LPNUIODataQueueEnqueue(want[t]) /\ UNCHANGED <<locked, pc, raced>>
      /\ want' = [want EXCEPT ![t] = 0]
  BY CapacitiesAssumption DEF EnqueueLooked, WantHolds, QueueTypes, lvars
<1>2. LInv'
  BY <1>1, LInvStep DEF lvars
<1>3. QueueTypes'
  <2>1. /\ head' \in 0 .. capacity - 1 /\ size' \in 0 .. Word - 1
        /\ total' \in Nat /\ UNCHANGED <<client, record, capacity>>
    BY <1>1, EnqueueMoves
  <2>2. want' \in [Threads -> 0 .. capacity]
    BY <1>1, CapacitiesAssumption DEF QueueTypes
  <2> QED
    BY <2>1, <2>2 DEF QueueTypes
<1>4. RecordsAligned'
  BY <1>1 DEF RecordsAligned, LPNUIODataQueueEnqueue
<1>5. ~raced => CountersAgree' /\ CopyFits
  <2> SUFFICES ASSUME ~raced
               PROVE  CountersAgree' /\ CopyFits
    OBVIOUS
  <2>1. Guarded /\ size + want[t] <= capacity
    BY <1>1 DEF Guarded, WantHolds, QueueTypes
  <2> QED
    BY <1>1, <2>1, GuardedEnqueue DEF CountersAgree
<1>6. raced => CountersAgree'
  BY <1>1 DEF CountersAgree, Guarded, LPNUIODataQueueEnqueue
<1>7. WantHolds'
  <2> SUFFICES ASSUME NEW u \in Threads, want'[u] # 0
               PROVE  /\ client' = "locked" /\ pc'[u] = "held"
                      /\ ~raced' => size' + want'[u] <= capacity'
    BY DEF WantHolds
  <2>1. u # t /\ want[u] # 0 /\ pc[u] = "held"
    BY <1>1 DEF WantHolds, QueueTypes
  <2>2. raced
    BY <1>1, <2>1 DEF LInv, OneInside, Inside
  <2> QED
    BY <1>1, <2>1, <2>2 DEF LPNUIODataQueueEnqueue
<1> QED
  BY <1>2, <1>3, <1>4, <1>5, <1>6, <1>7

LEMMA LockStepKeeps ==
  ASSUME LQInv, NEW t \in Threads, LockStep(t)
  PROVE  LQInv' /\ total' = total
<1> USE DEF LQInv
<1>1. /\ UNCHANGED <<client, record, capacity, head, size, total, want>>
      /\ client = "locked"
  BY DEF LockStep, qvars
<1>2. LockNext
  BY DEF LockStep, LockNext
<1>3. LInv'
  BY <1>2, LInvStep
<1>4. raced => raced'
  BY DEF LockStep, AcquireStart, AcquireTest, TryTest, AcquireSet, Release
<1>5. QueueTypes' /\ RecordsAligned'
  BY <1>1 DEF QueueTypes, RecordsAligned
<1>6. CountersAgree'
  BY <1>1, <1>4 DEF CountersAgree, Guarded
<1>7. WantHolds'
  <2> SUFFICES ASSUME NEW u \in Threads, want[u] # 0
               PROVE  pc'[u] = "held"
    BY <1>1, <1>4 DEF WantHolds
  <2>1. pc[u] = "held"
    BY DEF WantHolds
  <2> QED
    BY <2>1 DEF LockStep, AcquireStart, AcquireTest, TryTest, AcquireSet,
                Release, Goto, LInv, LockTypeOK
<1> QED
  BY <1>1, <1>3, <1>5, <1>6, <1>7

(* Every step keeps the invariant, and copies inside the buffer unless     *)
(* there has been a race.                                                  *)
LEMMA LQInvStep == LQInv /\ [LockedNext]_lqvars => LQInv' /\ [~raced => CopyFits]_lqvars
<1> SUFFICES ASSUME LQInv, [LockedNext]_lqvars
             PROVE  LQInv' /\ [~raced => CopyFits]_lqvars
  OBVIOUS
<1>1. CASE UNCHANGED lqvars
  <2>1. UNCHANGED <<client, record, capacity, head, size, total, locked, pc,
                    raced, want>>
    BY <1>1 DEF lqvars, qvars, lvars
  <2>2. LInv'
    BY <2>1, LInvStep DEF LQInv, lvars
  <2> QED
    BY <1>1, <2>1, <2>2 DEF LQInv, QueueTypes, CountersAgree, Guarded,
                            RecordsAligned, WantHolds
<1>2. CASE Alone
  BY <1>2, AloneStep
<1>3. ASSUME NEW t \in Threads, EnqueueLooked(t)
      PROVE  LQInv' /\ (~raced => CopyFits)
  BY <1>3, EnqueueLookedStep
<1>4. ASSUME total' = total
      PROVE  CopyFits
  <2>1. capacity \in Nat \ {0} /\ head \in 0 .. capacity - 1 /\ total \in Nat
    BY CapacitiesAssumption DEF LQInv, QueueTypes
  <2> QED
    BY <1>4, <2>1 DEF CopyFits
<1> QED
  BY <1>1, <1>2, <1>3, <1>4, LookStep, LockStepKeeps DEF LockedNext

(* LQInv holds in every reachable state of the queue and its lock.         *)
THEOREM LockedQueueInvariant == LockedSpec => []LQInv
<1>1. LQInv /\ [LockedNext]_lqvars => LQInv'
  BY LQInvStep
<1> QED
  BY <1>1, LQInvInit, PTL DEF LockedSpec

(* Every copy ends inside the buffer, for a caller that looks first, for   *)
(* one whose records fit exactly, and for threads under the lock as long   *)
(* as none of them has raced through its test.                             *)
THEOREM LockedQueueCopiesInside == LockedSpec => GuardedCopiesInside
<1>1. LQInv /\ [LockedNext]_lqvars => [~raced => CopyFits]_lqvars
  BY LQInvStep
<1> QED
  BY <1>1, LockedQueueInvariant, PTL DEF LockedSpec, GuardedCopiesInside

(* A caller that looks first is told the truth about its queue.            *)
THEOREM LockedQueueHonest == LockedSpec => []CheckedSizeHonest
<1>1. LQInv => CheckedSizeHonest
  BY CapacitiesAssumption
     DEF LQInv, CountersAgree, Guarded, QueueTypes, CheckedSizeHonest,
         LPNUIODataQueueIsFull, LPNUIODataQueueIsEmpty,
         LPNUIODataQueueDequeue
<1> QED
  BY <1>1, LockedQueueInvariant, PTL

(* In use by a queue as alone, the lock excludes unless there was a race.  *)
THEOREM LockedQueueExclusive == LockedSpec => []ExclusiveUnlessRaced
<1>1. LQInv => ExclusiveUnlessRaced
  BY DEF LQInv, LInv, OneInside, ExclusiveUnlessRaced, MutualExclusion,
         Inside, Holders
<1> QED
  BY <1>1, LockedQueueInvariant, PTL

(* A queue is not locked for ever: the flag is set only while somebody is  *)
(* inside who will release it, also after a race.                          *)
THEOREM LockedQueueNeverLeaked == LockedSpec => []NeverLeaked
<1>1. LQInv => NeverLeaked
  BY DEF LQInv, LInv
<1> QED
  BY <1>1, LockedQueueInvariant, PTL
=============================================================================
