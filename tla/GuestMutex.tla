----------------------------- MODULE GuestMutex -----------------------------
(***************************************************************************)
(* Mutexes and condition variables of runtime/shim_pthread.cpp.            *)
(*                                                                         *)
(* A pthread_mutex_t or pthread_cond_t holds an id.  Obtain and Release    *)
(* run under g_registry and are single steps here (Registry shows what the *)
(* lock does for them).  The id names a std::recursive_mutex, whatever     *)
(* type the guest asked for, or a std::condition_variable_any.  An entry   *)
(* point obtains the host object in one step and acts on it through a raw  *)
(* pointer in a later one.                                                 *)
(*                                                                         *)
(* holds is the guest's own account of what it has locked: what the calls  *)
(* that returned told it.  owner and depth are the host's account.         *)
(***************************************************************************)
EXTENDS Naturals, FiniteSets

CONSTANTS
  Threads, Mutexes, Conds,
  NoThread, NoMutex, NoCond,
  MaxId,    \* bound on g_next_id
  MaxDepth, \* bound on how often the guest relocks a mutex it holds
  Foreign   \* a word the registry never handed out

ASSUME GuestMutexAssumption ==
  /\ NoThread \notin Threads
  /\ NoMutex \notin Mutexes
  /\ NoCond \notin Conds
  /\ Mutexes \cap Conds = {}
  /\ NoMutex \notin Conds
  /\ NoCond \notin Mutexes
  /\ MaxId \in Nat
  /\ MaxDepth \in Nat
  /\ Foreign \in Nat
  /\ Foreign > MaxId

VARIABLES
  g_next_id, items, word,  \* the registry, as in Registry
  owner, depth,  \* of each host mutex
  sleeping,      \* sleeping[id]: threads blocked in host cond id
  call,          \* each thread's entry point, its arguments and its pointers
  holds          \* holds[t][x]: locks of x that returned to t, less unlocks

registry == <<g_next_id, items, word>>
host == <<owner, depth, sleeping>>
vars == <<registry, host, call, holds>>

Objects == Mutexes \cup Conds
Ids == 1..MaxId
Null == 0
Calls == [at: {"guest", "lock", "trylock", "unlock", "waitMutex", "wait",
               "asleep", "relock", "signal", "broadcast"},
          m: Mutexes \cup {NoMutex}, c: Conds \cup {NoCond},
          mu: {Null} \cup Ids, cv: {Null} \cup Ids]
NoCall == [at |-> "guest", m |-> NoMutex, c |-> NoCond, mu |-> Null, cv |-> Null]

TypeOK ==
  /\ g_next_id \in 1..(MaxId + 1)
  /\ items \subseteq Ids
  /\ word \in [Objects -> {0, Foreign} \cup Ids]
  /\ owner \in [Ids -> Threads \cup {NoThread}]
  /\ depth \in [Ids -> Nat]
  /\ sleeping \in [Ids -> SUBSET Threads]
  /\ call \in [Threads -> Calls]
  /\ holds \in [Threads -> [Mutexes -> Nat]]

(* PTHREAD_MUTEX_INITIALIZER is zeroes; the static initialisers of the other
   mutex types are not, and their words name nothing here.                 *)
Init ==
  /\ g_next_id = 1
  /\ items = {}
  /\ word \in [Objects -> {0, Foreign}]
  /\ \A x \in Conds : word[x] = 0
  /\ owner = [i \in Ids |-> NoThread]
  /\ depth = [i \in Ids |-> 0]
  /\ sleeping = [i \in Ids |-> {}]
  /\ call = [t \in Threads |-> NoCall]
  /\ holds = [t \in Threads |-> [x \in Mutexes |-> 0]]

At(t, step) == call[t].at = step
Idle(t) == call[t] = NoCall
Return(t) == call' = [call EXCEPT ![t] = NoCall]

(* The guest keeps the POSIX contract: it does not initialise or destroy an
   object that is held or that a call is using.                            *)
Unused(x) ==
  \A t \in Threads : /\ x \notin {call[t].m, call[t].c}
                     /\ x \in Mutexes => holds[t][x] = 0

-----------------------------------------------------------------------------
NewObject(x) ==
  /\ g_next_id <= MaxId
  /\ word' = [word EXCEPT ![x] = g_next_id]
  /\ items' = items \cup {g_next_id}
  /\ g_next_id' = g_next_id + 1

\* Obtain that makes a new object even where the word already names one.
Obtain_Always(x, id) == id = g_next_id /\ NewObject(x)

(* Registry<T>::Obtain answers id for the object x.                        *)
Obtain(x, id) ==
  \/ word[x] = 0 /\ id = g_next_id /\ NewObject(x)
  \/ /\ word[x] # 0
     /\ id = (IF word[x] \in items THEN word[x] ELSE Null)
     /\ UNCHANGED registry

(* MutexInit, CondInit: the word is zeroed and obtained anew; the object it
   named before is never released.                                         *)
InitObject(t, x) ==
  /\ Idle(t) /\ Unused(x)
  /\ NewObject(x)
  /\ UNCHANGED <<host, call, holds>>

(* MutexDestroy, CondDestroy.                                              *)
DestroyObject(t, x) ==
  /\ Idle(t) /\ Unused(x)
  /\ items' = items \ {word[x]}
  /\ word' = [word EXCEPT ![x] = 0]
  /\ UNCHANGED <<g_next_id, host, call, holds>>

-----------------------------------------------------------------------------
(* std::recursive_mutex                                                    *)
TakeHost(i, t) ==
  /\ owner[i] \in {NoThread, t}
  /\ owner' = [owner EXCEPT ![i] = t]
  /\ depth' = [depth EXCEPT ![i] = @ + 1]

\* Unlocking as if a mutex could be locked only once.
DropHost_Whole(i) ==
  /\ depth' = [depth EXCEPT ![i] = 0]
  /\ owner' = [owner EXCEPT ![i] = NoThread]

DropHost(i) ==
  /\ depth' = [depth EXCEPT ![i] = @ - 1]
  /\ owner' = [owner EXCEPT ![i] = IF depth[i] = 1 THEN NoThread ELSE @]

(* MutexLock, MutexTrylock and MutexUnlock obtain the object ...           *)
CallMutex(t, x, op) ==
  /\ Idle(t)
  /\ CASE op = "lock" -> holds[t][x] < MaxDepth
       [] op = "trylock" -> holds[t][x] <= MaxDepth
       [] op = "unlock" -> holds[t][x] > 0
  /\ \E id \in {Null} \cup Ids :
       /\ Obtain(x, id)
       /\ call' = [call EXCEPT ![t] = [NoCall EXCEPT !.at = op, !.m = x, !.mu = id]]
  /\ UNCHANGED <<host, holds>>

(* ... and then use the pointer.  Lock and unlock skip a null one and report
   success: the guest goes on as if it held the lock.                      *)
Lock(t) ==
  /\ At(t, "lock")
  /\ IF call[t].mu = Null THEN UNCHANGED <<owner, depth>> ELSE TakeHost(call[t].mu, t)
  /\ holds' = [holds EXCEPT ![t][call[t].m] = @ + 1]
  /\ Return(t)
  /\ UNCHANGED <<registry, sleeping>>

(* EBUSY when another thread owns it, and when there is no object.         *)
Trylock(t) ==
  /\ At(t, "trylock")
  /\ \/ /\ call[t].mu # Null
        /\ TakeHost(call[t].mu, t)
        /\ holds' = [holds EXCEPT ![t][call[t].m] = @ + 1]
     \/ /\ call[t].mu # Null => owner[call[t].mu] \notin {NoThread, t}
        /\ UNCHANGED <<owner, depth, holds>>
  /\ Return(t)
  /\ UNCHANGED <<registry, sleeping>>

Unlock(t) ==
  /\ At(t, "unlock")
  /\ IF call[t].mu = Null THEN UNCHANGED <<owner, depth>> ELSE DropHost(call[t].mu)
  /\ holds' = [holds EXCEPT ![t][call[t].m] = @ - 1]
  /\ Return(t)
  /\ UNCHANGED <<registry, sleeping>>

-----------------------------------------------------------------------------
(* CondWait, CondTimedwait: obtain the cond, then the mutex; EINVAL if one
   is missing ...                                                          *)
CallWait(t, x, y) ==
  /\ Idle(t)
  /\ holds[t][y] > 0
  /\ \E id \in {Null} \cup Ids :
       /\ Obtain(x, id)
       /\ call' = [call EXCEPT ![t] = [at |-> "waitMutex", m |-> y, c |-> x,
                                       mu |-> Null, cv |-> id]]
  /\ UNCHANGED <<host, holds>>

WaitMutex(t) ==
  /\ At(t, "waitMutex")
  /\ \E id \in {Null} \cup Ids :
       /\ Obtain(call[t].m, id)
       /\ call' = [call EXCEPT ![t].at = "wait", ![t].mu = id]
  /\ UNCHANGED <<host, holds>>

WaitRefused(t) ==
  /\ At(t, "wait")
  /\ Null \in {call[t].mu, call[t].cv}
  /\ Return(t)
  /\ UNCHANGED <<registry, host, holds>>

\* Releasing the mutex before the thread is on the condition's list.
Sleep_LateEnqueue(t) ==
  /\ At(t, "wait")
  /\ Null \notin {call[t].mu, call[t].cv}
  /\ IF owner[call[t].mu] = t
     THEN DropHost(call[t].mu) /\ UNCHANGED <<sleeping, call>>
     ELSE /\ sleeping' = [sleeping EXCEPT ![call[t].cv] = @ \cup {t}]
          /\ call' = [call EXCEPT ![t].at = "asleep"]
          /\ UNCHANGED <<owner, depth>>
  /\ UNCHANGED <<registry, holds>>

\* CondWait that unlocks the mutex itself before the wait unlocks it too.
Sleep_DropsTwice(t) ==
  /\ At(t, "wait")
  /\ Null \notin {call[t].mu, call[t].cv}
  /\ depth' = [depth EXCEPT ![call[t].mu] = @ - 2]
  /\ owner' = [owner EXCEPT ![call[t].mu] = NoThread]
  /\ sleeping' = [sleeping EXCEPT ![call[t].cv] = @ \cup {t}]
  /\ call' = [call EXCEPT ![t].at = "asleep"]
  /\ UNCHANGED <<registry, holds>>

(* ... then give the mutex back once and sleep, in one step as far as a
   signal can tell.                                                        *)
Sleep(t) ==
  /\ At(t, "wait")
  /\ Null \notin {call[t].mu, call[t].cv}
  /\ DropHost(call[t].mu)
  /\ sleeping' = [sleeping EXCEPT ![call[t].cv] = @ \cup {t}]
  /\ call' = [call EXCEPT ![t].at = "asleep"]
  /\ UNCHANGED <<registry, holds>>

(* The deadline passes, or the wait ends for no reason.                    *)
WakeUnasked(t) ==
  /\ At(t, "asleep")
  /\ sleeping' = [sleeping EXCEPT ![call[t].cv] = @ \ {t}]
  /\ call' = [call EXCEPT ![t].at = "relock"]
  /\ UNCHANGED <<registry, owner, depth, holds>>

\* Returning from a wait without the mutex.
Relock_Skipped(t) ==
  /\ At(t, "relock")
  /\ Return(t)
  /\ UNCHANGED <<registry, host, holds>>

Relock(t) ==
  /\ At(t, "relock")
  /\ TakeHost(call[t].mu, t)
  /\ Return(t)
  /\ UNCHANGED <<registry, sleeping, holds>>

(* CondSignal and CondBroadcast: obtain the cond ...                       *)
CallNotify(t, x, op) ==
  /\ Idle(t)
  /\ \E id \in {Null} \cup Ids :
       /\ Obtain(x, id)
       /\ call' = [call EXCEPT ![t] = [NoCall EXCEPT !.at = op, !.c = x, !.cv = id]]
  /\ UNCHANGED <<host, holds>>

(* ... then notify one sleeping thread, whichever the host picks, or all.  *)
Notify(t) ==
  /\ call[t].at \in {"signal", "broadcast"}
  /\ LET on == sleeping[call[t].cv] IN
     \E woken \in (IF At(t, "broadcast") \/ on = {} THEN {on} ELSE {{u} : u \in on}) :
       /\ sleeping' = [sleeping EXCEPT ![call[t].cv] = @ \ woken]
       /\ call' = [u \in Threads |->
                     IF u = t THEN NoCall
                     ELSE IF u \in woken THEN [call[u] EXCEPT !.at = "relock"]
                     ELSE call[u]]
  /\ UNCHANGED <<registry, owner, depth, holds>>

-----------------------------------------------------------------------------
Call(t) ==
  \/ \E x \in Objects : InitObject(t, x) \/ DestroyObject(t, x)
  \/ \E x \in Mutexes, op \in {"lock", "trylock", "unlock"} : CallMutex(t, x, op)
  \/ \E x \in Conds, op \in {"signal", "broadcast"} : CallNotify(t, x, op)
  \/ \E x \in Conds, y \in Mutexes : CallWait(t, x, y)

Step(t) ==
  \/ Lock(t) \/ Trylock(t) \/ Unlock(t)
  \/ WaitMutex(t) \/ WaitRefused(t) \/ Sleep(t) \/ WakeUnasked(t) \/ Relock(t)
  \/ Notify(t)

Next == \E t \in Threads : Call(t) \/ Step(t)

Spec == Init /\ [][Next]_vars

-----------------------------------------------------------------------------
(* The locks of x the guest believes t has now: a wait gives one back.     *)
GivenBack(t, x) == call[t].m = x /\ call[t].at \in {"asleep", "relock"}
Held(t, x) == IF GivenBack(t, x) THEN holds[t][x] - 1 ELSE holds[t][x]

(* No two threads are told they have the same mutex: across the lazy
   creation of the object behind it, recursion, destruction and re-use of
   the storage, and the release and retaking inside a wait (MutexLock,
   MutexTrylock, CondWait).  A word the registry does not know is locked by
   nobody, so it is left out; the README lists that hazard.                *)
MutualExclusion ==
  \A x \in Mutexes : word[x] # Foreign =>
    \A t, u \in Threads : Held(t, x) > 0 /\ Held(u, x) > 0 => t = u

(* The host's lock and the guest's account of it agree to the level: no
   unlock or wait leaves a mutex owned by a thread that has finished with
   it, and none gives back more than was taken (MutexUnlock, CondWait).    *)
HostAgrees ==
  \A x \in Mutexes, t \in Threads : word[x] \in items =>
    /\ owner[word[x]] = t <=> Held(t, x) > 0
    /\ owner[word[x]] = t => depth[word[x]] = Held(t, x)

(* A thread that has given up its mutex inside CondWait is woken by the next
   signal, and all of them by a broadcast: there is no moment between the
   release and the sleep in which a notification is lost.                  *)
Released(u, x) ==
  /\ call[u].c = x
  /\ call[u].at \in {"wait", "asleep"}
  /\ call[u].mu # Null
  /\ owner[call[u].mu] # u
Leaves(u) == At(u, "asleep") /\ ~At(u, "asleep")'
NoLostWakeup ==
  [][\A t \in Threads :
       /\ At(t, "signal") /\ Idle(t)' /\ (\E u \in Threads : Released(u, call[t].c))
            => \E u \in Threads : Leaves(u)
       /\ At(t, "broadcast") /\ Idle(t)'
            => \A u \in Threads : Released(u, call[t].c) => Leaves(u)]_vars

(* The abstract view: monitors, with no registry and no pointers.          *)
HostOf(x, f, none) == IF word[x] \in items THEN f[word[x]] ELSE none
AM == INSTANCE AbstractMonitor
        WITH holder <- [x \in Mutexes |-> HostOf(x, owner, NoThread)],
             level <- [x \in Mutexes |-> HostOf(x, depth, 0)],
             waiting <- [x \in Conds |-> HostOf(x, sleeping, {})]
Monitor == AM!Spec
=============================================================================
