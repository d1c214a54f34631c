--------------------------- MODULE GuestSemaphore ---------------------------
(***************************************************************************)
(* sem_t in runtime/shim_pthread.cpp: a count, a mutex and a condition     *)
(* variable behind each id.  Everything between taking p->m and giving it  *)
(* up, by unlocking or by sleeping, is one step.  The id is left out: see  *)
(* Registry.                                                               *)
(***************************************************************************)
EXTENDS Naturals, FiniteSets

CONSTANTS
  Threads, Sems,
  NoSem,    \* a thread that is not in SemWait
  MaxCount  \* bound on a semaphore's count

SemAssumption ==
  /\ IsFiniteSet(Threads)
  /\ NoSem \notin Sems
  /\ MaxCount \in Nat

VARIABLES
  count,  \* the permits of each semaphore
  in,     \* in[t]: the semaphore whose SemWait t is in
  asleep, \* threads blocked in cv.wait
  woken   \* threads out of it that have not looked at the count again

vars == <<count, in, asleep, woken>>

TypeOK ==
  /\ count \in [Sems -> Nat]
  /\ in \in [Threads -> Sems \cup {NoSem}]
  /\ asleep \in [Sems -> SUBSET Threads]
  /\ woken \in [Sems -> SUBSET Threads]

(* A sem_t in zeroed storage is a semaphore with no permits.               *)
Init ==
  /\ count = [s \in Sems |-> 0]
  /\ in = [t \in Threads |-> NoSem]
  /\ asleep = [s \in Sems |-> {}]
  /\ woken = [s \in Sems |-> {}]

Idle(t) == in[t] = NoSem
Unused(s) == \A t \in Threads : in[t] # s

(* SemInit gives the count; SemDestroy, and the first use after it, 0.     *)
SemInit(t, s, value) ==
  /\ Idle(t) /\ Unused(s)
  /\ count' = [count EXCEPT ![s] = value]
  /\ UNCHANGED <<in, asleep, woken>>

SemDestroy(t, s) == SemInit(t, s, 0)

\* notify_one only when the count leaves zero, as if one waiter at most slept.
NotifyOne_FromZero(s) ==
  \/ /\ asleep[s] = {} \/ count[s] > 0
     /\ UNCHANGED <<asleep, woken>>
  \/ \E u \in asleep[s] :
       /\ count[s] = 0
       /\ asleep' = [asleep EXCEPT ![s] = @ \ {u}]
       /\ woken' = [woken EXCEPT ![s] = @ \cup {u}]

NotifyOne(s) ==
  \/ asleep[s] = {} /\ UNCHANGED <<asleep, woken>>
  \/ \E u \in asleep[s] :
       /\ asleep' = [asleep EXCEPT ![s] = @ \ {u}]
       /\ woken' = [woken EXCEPT ![s] = @ \cup {u}]

SemPost(t, s) ==
  /\ Idle(t)
  /\ count[s] < MaxCount
  /\ count' = [count EXCEPT ![s] = @ + 1]
  /\ NotifyOne(s)
  /\ UNCHANGED in

(* EAGAIN and no change when there is no permit.                           *)
SemTrywait(t, s) ==
  /\ Idle(t)
  /\ count[s] > 0
  /\ count' = [count EXCEPT ![s] = @ - 1]
  /\ UNCHANGED <<in, asleep, woken>>

(* SemWait takes a permit, or sleeps until it is notified and looks again. *)
CallWait(t, s) ==
  /\ Idle(t)
  /\ \/ /\ count[s] > 0
        /\ count' = [count EXCEPT ![s] = @ - 1]
        /\ UNCHANGED <<in, asleep>>
     \/ /\ count[s] = 0
        /\ in' = [in EXCEPT ![t] = s]
        /\ asleep' = [asleep EXCEPT ![s] = @ \cup {t}]
        /\ UNCHANGED count
  /\ UNCHANGED woken

\* A woken thread that takes a permit without looking whether there is one.
Recheck_Unchecked(t, s) ==
  /\ t \in woken[s]
  /\ woken' = [woken EXCEPT ![s] = @ \ {t}]
  /\ count' = [count EXCEPT ![s] = @ - 1]
  /\ in' = [in EXCEPT ![t] = NoSem]
  /\ UNCHANGED asleep

Recheck(t, s) ==
  /\ t \in woken[s]
  /\ woken' = [woken EXCEPT ![s] = @ \ {t}]
  /\ \/ /\ count[s] > 0
        /\ count' = [count EXCEPT ![s] = @ - 1]
        /\ in' = [in EXCEPT ![t] = NoSem]
        /\ UNCHANGED asleep
     \/ /\ count[s] = 0
        /\ asleep' = [asleep EXCEPT ![s] = @ \cup {t}]
        /\ UNCHANGED <<count, in>>

(* cv.wait may return without a notification.                              *)
WakeUnasked(t, s) ==
  /\ t \in asleep[s]
  /\ asleep' = [asleep EXCEPT ![s] = @ \ {t}]
  /\ woken' = [woken EXCEPT ![s] = @ \cup {t}]
  /\ UNCHANGED <<count, in>>

Next ==
  \E t \in Threads, s \in Sems :
    \/ \E value \in 0..MaxCount : SemInit(t, s, value)
    \/ SemDestroy(t, s)
    \/ SemPost(t, s)
    \/ SemTrywait(t, s)
    \/ CallWait(t, s)
    \/ Recheck(t, s)
    \/ WakeUnasked(t, s)

(* A thread that is out of cv.wait is runnable and gets p->m in the end.   *)
Fairness == \A t \in Threads, s \in Sems : WF_vars(Recheck(t, s))

Spec == Init /\ [][Next]_vars
FairSpec == Spec /\ Fairness

-----------------------------------------------------------------------------
(* A thread sleeps in SemWait only while every permit already has a woken
   thread coming for it: posts by several threads at once, trywaits that get
   in first and spurious wake-ups strand nobody (SemPost, SemWait).        *)
NoStrandedWaiter ==
  \A s \in Sems : asleep[s] # {} => count[s] <= Cardinality(woken[s])

(* Permits and waiters do not stay side by side: the permits run out or
   nobody is left in SemWait.                                              *)
PermitsReachWaiters ==
  \A s \in Sems :
    (count[s] > 0 /\ ~Unused(s)) ~> (count[s] = 0 \/ Unused(s))
=============================================================================
