-------------------------- MODULE MCPthreadObjects --------------------------
(***************************************************************************)
(* The pthread objects, mutexes and conditions, read-write locks,          *)
(* semaphores and once controls, next to one another.  They share no state *)
(* beyond the registry each of them models, so a behaviour exercises one   *)
(* of them, its focus, and leaves the others as they began.                *)
(***************************************************************************)
EXTENDS GuestMutex, TLC

CONSTANTS LockThreads, Locks, NoLock, SemThreads, Sems, NoSem, MaxCount,
          OnceThreads, Recovering, Controls

VARIABLES focus,
          rNextId, rItems, rWord, writer, readers, t_write_held, rCall, mode,
          count, in, asleep, woken,
          control, running, spinning, ran, passed, trapped, aborted

rwlockVars == <<rNextId, rItems, rWord, writer, readers, t_write_held, rCall, mode>>
semVars    == <<count, in, asleep, woken>>
onceVars   == <<control, running, spinning, ran, passed, trapped, aborted>>
allVars    == <<focus, vars, rwlockVars, semVars, onceVars>>

Rwlock == INSTANCE GuestRwlock
            WITH Threads <- LockThreads, g_next_id <- rNextId, items <- rItems, word <- rWord,
                 call <- rCall
Sem    == INSTANCE GuestSemaphore WITH Threads <- SemThreads
PtOnce == INSTANCE GuestOnce WITH Threads <- OnceThreads

ASSUME ObjectsAssumption ==
    Rwlock!RwlockAssumption /\ Sem!SemAssumption /\ PtOnce!OnceAssumption

MCInit ==
    /\ focus \in {"mutex", "rwlock", "semaphore", "once"}
    /\ Init /\ (focus = "mutex" \/ \A x \in Objects : word[x] = 0)
    /\ Rwlock!Init /\ (focus = "rwlock" \/ \A l \in Locks : rWord[l] = 0)
    /\ Sem!Init /\ PtOnce!Init

MCNext ==
    /\ UNCHANGED focus
    /\ \/ focus = "mutex"     /\ Next        /\ UNCHANGED <<rwlockVars, semVars, onceVars>>
       \/ focus = "rwlock"    /\ Rwlock!Next /\ UNCHANGED <<vars, semVars, onceVars>>
       \/ focus = "semaphore" /\ Sem!Next    /\ UNCHANGED <<vars, rwlockVars, onceVars>>
       \/ focus = "once"      /\ PtOnce!Next /\ UNCHANGED <<vars, rwlockVars, semVars>>

(* The fairness of the component in focus.                                 *)
MCFairness ==
    /\ \A t \in SemThreads, s \in Sems :
          WF_semVars(focus = "semaphore" /\ Sem!Recheck(t, s))
    /\ \A t \in OnceThreads :
          /\ WF_onceVars(focus = "once" /\ PtOnce!SpinDone(t))
          /\ SF_onceVars(focus = "once" /\ (PtOnce!Finish(t) \/ PtOnce!Trap(t)))

MCSpec == MCInit /\ [][MCNext]_allVars /\ MCFairness

(* Of the threads of GuestMutex.  Sound for the two liveness properties as *)
(* well: no state of their foci holds one of these threads where           *)
(* exchanging them makes another state.                                    *)
ThreadSymmetry == Permutations(Threads)

-----------------------------------------------------------------------------
(* GuestRwlock: a thread that may write shares the lock with nobody, and   *)
(* unlock undoes the kind of lock that was taken.                          *)
WriterExcludes == Rwlock!TypeOK /\ Rwlock!WriterExcludes /\ Rwlock!UnlockMatchesLock

(* GuestSemaphore: no permit lies beside a sleeping waiter nobody woke.    *)
NoStrandedWaiter == Sem!TypeOK /\ Sem!NoStrandedWaiter

(* GuestSemaphore: permits and waiters do not stay side by side.           *)
PermitsReachWaiters == Sem!PermitsReachWaiters

(* GuestOnce: the initialiser runs at most once and nobody returns before  *)
(* it has run to its end.                                                  *)
OnceIsOnce == PtOnce!TypeOK /\ PtOnce!RunsAtMostOnce /\ PtOnce!ReturnsAfterInit

(* GuestOnce: only a trap in an initialiser leaves callers waiting.        *)
OnlyTrapsStrand == PtOnce!OnlyTrapsStrand
=============================================================================
