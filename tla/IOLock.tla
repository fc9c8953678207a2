------------------------------- MODULE IOLock -------------------------------
(***************************************************************************)
(* The spin lock of lpnu/iokit/lpnu_iokit.c (LPNUIOLock; LPNUIOSimpleLock  *)
(* is the same code without TryAcquire).  The lock is a volatile int that  *)
(* an acquirer first reads in a loop and then writes: two accesses, with   *)
(* nothing between them that would keep another thread out.  Every access  *)
(* is a step of its own; an iteration of the loop that reads 1 changes     *)
(* nothing and is a stuttering step.                                       *)
(***************************************************************************)
EXTENDS Integers, FiniteSets

CONSTANT Threads

VARIABLES
  locked,     \* l->locked
  pc,         \* where every thread is
  raced       \* has a thread passed the test while another was between
              \* its test and its write (history)

lvars == <<locked, pc, raced>>

(* "spin": in the loop of Acquire; "passed": has read 0, will write 1;     *)
(* "held": has returned from Acquire, or from TryAcquire with true.        *)
Places == {"idle", "spin", "passed", "held"}

LockTypeOK ==
  /\ locked \in {0, 1}
  /\ pc \in [Threads -> Places]
  /\ raced \in BOOLEAN

LockInit ==
  /\ locked = 0
  /\ pc = [t \in Threads |-> "idle"]
  /\ raced = FALSE

-----------------------------------------------------------------------------
(* The operations, one shared access at a time.                            *)

Goto(t, from, to) == pc[t] = from /\ pc' = [pc EXCEPT ![t] = to]

Others(t, place) == \E u \in Threads \ {t} : pc[u] = place

AcquireStart(t) ==
  /\ Goto(t, "idle", "spin")
  /\ UNCHANGED <<locked, raced>>

(* A fault of the loop: it ends without looking at the lock.               *)
Fault_AcquireTest_Blind(t) ==
  /\ Goto(t, "spin", "passed")
  /\ raced' = (raced \/ Others(t, "passed"))
  /\ UNCHANGED locked

(* A fault of the test: a thread that sees another one spin lets it go     *)
(* first and leaves.                                                       *)
Fault_AcquireTest_BacksOff(t) ==
  /\ Goto(t, "spin", IF Others(t, "spin") THEN "idle" ELSE "passed")
  /\ locked = 0
  /\ raced' = (raced \/ Others(t, "passed"))
  /\ UNCHANGED locked

(* The read of the loop that ends it. *)
AcquireTest(t) ==
  /\ Goto(t, "spin", "passed")
  /\ locked = 0
  /\ raced' = (raced \/ Others(t, "passed"))
  /\ UNCHANGED locked

(* TryAcquire reads once; reading 1 it returns false, a stuttering step.   *)
TryTest(t) ==
  /\ Goto(t, "idle", "passed")
  /\ locked = 0
  /\ raced' = (raced \/ Others(t, "passed"))
  /\ UNCHANGED locked

(* A fault of the write: a caller that fails after having taken the lock.  *)
Fault_AcquireSet_GivesUp(t) ==
  /\ pc[t] = "passed"
  /\ locked' = 1
  /\ pc' = [pc EXCEPT ![t] = IF Others(t, "passed") THEN "idle" ELSE "held"]
  /\ UNCHANGED raced

AcquireSet(t) ==
  /\ Goto(t, "passed", "held")
  /\ locked' = 1
  /\ UNCHANGED raced

(* Release writes 0 whatever the flag is; holders release, nobody else.    *)
Release(t) ==
  /\ Goto(t, "held", "idle")
  /\ locked' = 0
  /\ UNCHANGED raced

LockNext ==
  \E t \in Threads :
    \/ AcquireStart(t)
    \/ AcquireTest(t)
    \/ TryTest(t)
    \/ AcquireSet(t)
    \/ Release(t)

LockSpec == LockInit /\ [][LockNext]_lvars

(* A thread that is running keeps running: it takes its next access, and   *)
(* its critical section ends.  Nobody has to call the lock.                *)
LockFairness ==
  \A t \in Threads :
    /\ WF_lvars(AcquireTest(t))
    /\ WF_lvars(AcquireSet(t))
    /\ WF_lvars(Release(t))

LockFairSpec == LockSpec /\ LockFairness

-----------------------------------------------------------------------------
(* Properties.                                                             *)

Holders == {t \in Threads : pc[t] = "held"}

(* Two threads are never inside the lock.  The file's header says that     *)
(* linking with pthread gives full threading support; the lock does not    *)
(* use pthread, and this does not hold.                                    *)
MutualExclusion == \A t, u \in Holders : t = u

(* The window between test and write is the only way in for a second       *)
(* thread: as long as no thread has tested inside the window of another,   *)
(* at most one holds the lock.                                             *)
ExclusiveUnlessRaced == ~raced => MutualExclusion

(* The lock is never left set without a holder, not even after a race in   *)
(* which one holder has already released it under another.                 *)
NeverLeaked == locked = 1 => Holders # {}

(* A thread waiting in Acquire is never left waiting while nobody holds    *)
(* the lock: some thread gets in.  (Not necessarily this one.)             *)
SomeoneEnters == (\E t \in Threads : pc[t] = "spin") ~> Holders # {}
=============================================================================
