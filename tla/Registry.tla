------------------------------ MODULE Registry ------------------------------
(***************************************************************************)
(* The handle registry of runtime/shim_pthread.cpp.                        *)
(*                                                                         *)
(* A guest's pthread_mutex_t, pthread_cond_t, sem_t ... is opaque storage  *)
(* in which the shim keeps one 32-bit word: the id of the host object that *)
(* stands behind it, or zero for "not created yet".  Obtain() creates the  *)
(* object on first use, Release() forgets it.  Both run under g_registry;  *)
(* this module has one action per statement that touches shared state, so  *)
(* that what the lock is for can be seen.  The MutexInit / CondInit / ...  *)
(* entry points clear the word before they take the lock.                  *)
(*                                                                         *)
(* The maps of the different kinds of object are one set here: their ids   *)
(* come from the same counter.                                             *)
(***************************************************************************)
EXTENDS Naturals, FiniteSets

CONSTANTS
  Threads,   \* guest threads
  Words,     \* the guest's pthread objects, each holding one 32-bit word
  NoThread,  \* g_registry is free
  NoWord,    \* a thread that is not in a registry call
  MaxId,     \* bound on g_next_id
  Foreign    \* what a word holds that was neither zeroed nor filled in here:
             \* it may be a number that the ids come to

ASSUME RegistryAssumption ==
  /\ NoThread \notin Threads
  /\ NoWord \notin Words
  /\ MaxId \in Nat
  /\ Foreign \in Nat \ {0}

VARIABLES
  g_registry, \* the thread that holds the lock, or NoThread
  g_next_id,  \* the next id to hand out
  items,      \* the ids that have an object
  word,       \* word[w]: the id the guest's storage holds
  pc,         \* where each thread is in Obtain or Release
  arg,        \* the word it was called with
  got         \* history: the objects Obtain returned for w since its last reset

vars == <<g_registry, g_next_id, items, word, pc, arg, got>>

Ids == 1..MaxId
Null == 0

ObtainSteps == {"obtain", "test", "take", "insert", "find"}
ReleaseSteps == {"release", "erase", "clear"}
InLock == {"test", "take", "insert", "find", "erase", "clear"}

TypeOK ==
  /\ g_registry \in Threads \cup {NoThread}
  /\ g_next_id \in 1..(MaxId + 1)
  /\ items \subseteq Ids
  /\ word \in [Words -> {0, Foreign} \cup Ids]
  /\ pc \in [Threads -> {"idle"} \cup ObtainSteps \cup ReleaseSteps]
  /\ arg \in [Threads -> Words \cup {NoWord}]
  /\ got \in [Words -> SUBSET ({Null} \cup Ids)]

(* Guest storage is zeroed memory, a static initialiser that is not all
   zeroes, or stack garbage: the last two are "Foreign".                   *)
Init ==
  /\ g_registry = NoThread
  /\ g_next_id = 1
  /\ items = {}
  /\ word \in [Words -> {0, Foreign}]
  /\ pc = [t \in Threads |-> "idle"]
  /\ arg = [t \in Threads |-> NoWord]
  /\ got = [w \in Words |-> {}]

Go(t, to) == pc' = [pc EXCEPT ![t] = to]

(* The guest's side of the contract: an object is not initialised or
   destroyed while another call on it is in progress.                      *)
Unused(w) == \A t \in Threads : arg[t] # w
NotResetting(w) == \A t \in Threads : arg[t] = w => pc[t] \in ObtainSteps

(* The bound: every call that may need an id finds one.                    *)
IdsLeft ==
  g_next_id + Cardinality({t \in Threads : arg[t] # NoWord}) <= MaxId

-----------------------------------------------------------------------------
(* lock, unlock, signal ... : every entry point starts with Obtain(slot).  *)
CallObtain(t, w) ==
  /\ pc[t] = "idle"
  /\ IdsLeft
  /\ NotResetting(w)
  /\ Go(t, "obtain")
  /\ arg' = [arg EXCEPT ![t] = w]
  /\ UNCHANGED <<g_registry, g_next_id, items, word, got>>

(* MutexInit and its like: *m = 0, then Obtain.  Whatever object the word
   named before stays in the map with nothing to name it.                  *)
CallInit(t, w) ==
  /\ pc[t] = "idle"
  /\ IdsLeft
  /\ Unused(w)
  /\ Go(t, "obtain")
  /\ arg' = [arg EXCEPT ![t] = w]
  /\ word' = [word EXCEPT ![w] = 0]
  /\ got' = [got EXCEPT ![w] = {}]
  /\ UNCHANGED <<g_registry, g_next_id, items>>

CallRelease(t, w) ==
  /\ pc[t] = "idle"
  /\ Unused(w)
  /\ Go(t, "release")
  /\ arg' = [arg EXCEPT ![t] = w]
  /\ UNCHANGED <<g_registry, g_next_id, items, word, got>>

\* Without the lock_guard, two threads run the body of Obtain at once.
Acquire_NoLock(t) ==
  /\ pc[t] \in {"obtain", "release"}
  /\ g_registry' = t
  /\ Go(t, IF pc[t] = "obtain" THEN "test" ELSE "erase")
  /\ UNCHANGED <<g_next_id, items, word, arg, got>>

Acquire(t) ==
  /\ pc[t] \in {"obtain", "release"}
  /\ g_registry = NoThread
  /\ g_registry' = t
  /\ Go(t, IF pc[t] = "obtain" THEN "test" ELSE "erase")
  /\ UNCHANGED <<g_next_id, items, word, arg, got>>

(* if (the word is zero)                                                   *)
Test(t) ==
  /\ pc[t] = "test"
  /\ Go(t, IF word[arg[t]] = 0 THEN "take" ELSE "find")
  /\ UNCHANGED <<g_registry, g_next_id, items, word, arg, got>>

\* A counter per kind of object would hand the same id out twice.
Take_NotCounted(t) ==
  /\ pc[t] = "take"
  /\ g_next_id <= MaxId
  /\ word' = [word EXCEPT ![arg[t]] = g_next_id]
  /\ Go(t, "insert")
  /\ UNCHANGED <<g_registry, g_next_id, items, arg, got>>

(* word = g_next_id++                                                      *)
Take(t) ==
  /\ pc[t] = "take"
  /\ g_next_id <= MaxId
  /\ word' = [word EXCEPT ![arg[t]] = g_next_id]
  /\ g_next_id' = g_next_id + 1
  /\ Go(t, "insert")
  /\ UNCHANGED <<g_registry, items, arg, got>>

(* items[*slot] = make_unique<T>()                                         *)
Insert(t) ==
  /\ pc[t] = "insert"
  /\ items' = items \cup {word[arg[t]]}
  /\ Go(t, "find")
  /\ UNCHANGED <<g_registry, g_next_id, word, arg, got>>

Lookup(id) == IF id \in items THEN id ELSE Null

(* find, return and drop the lock.                                         *)
Find(t) ==
  /\ pc[t] = "find"
  /\ got' = [got EXCEPT ![arg[t]] = @ \cup {Lookup(word[arg[t]])}]
  /\ g_registry' = NoThread
  /\ Go(t, "idle")
  /\ arg' = [arg EXCEPT ![t] = NoWord]
  /\ UNCHANGED <<g_next_id, items, word>>

Erase(t) ==
  /\ pc[t] = "erase"
  /\ items' = items \ {word[arg[t]]}
  /\ Go(t, "clear")
  /\ UNCHANGED <<g_registry, g_next_id, word, arg, got>>

\* Release that erases the object and leaves its id in the guest's word.
Clear_NotZeroed(t) ==
  /\ pc[t] = "clear"
  /\ g_registry' = NoThread
  /\ Go(t, "idle")
  /\ got' = [got EXCEPT ![arg[t]] = {}]
  /\ arg' = [arg EXCEPT ![t] = NoWord]
  /\ UNCHANGED <<g_next_id, items, word>>

(* Zero the guest's word and drop the lock.                                *)
Clear(t) ==
  /\ pc[t] = "clear"
  /\ word' = [word EXCEPT ![arg[t]] = 0]
  /\ got' = [got EXCEPT ![arg[t]] = {}]
  /\ g_registry' = NoThread
  /\ Go(t, "idle")
  /\ arg' = [arg EXCEPT ![t] = NoWord]
  /\ UNCHANGED <<g_next_id, items>>

-----------------------------------------------------------------------------
Call(t) == \E w \in Words : CallObtain(t, w) \/ CallInit(t, w) \/ CallRelease(t, w)

Step(t) ==
  \/ Acquire(t)
  \/ Test(t)
  \/ Take(t)
  \/ Insert(t)
  \/ Find(t)
  \/ Erase(t)
  \/ Clear(t)

Next == \E t \in Threads : Call(t) \/ Step(t)

Spec == Init /\ [][Next]_vars

-----------------------------------------------------------------------------
(* The ids handed out have not come to the number foreign storage holds.
   Nothing in the code keeps them apart: g_next_id counts up without bound,
   and Bionic's recursive initialiser is the number 0x4000.                *)
Apart == g_next_id <= Foreign

(* Every thread that uses a pthread object between two resets of it is given
   the same host object, however many of them use it first at once
   (Registry<T>::Obtain).  Without this two threads lock two different
   mutexes and both hold "the" lock.  The one exception is a foreign word
   that was answered with nothing until an id came to its number.          *)
OneObjectPerWord ==
  \A w \in Words : Cardinality(got[w]) <= 1 \/ (word[w] = Foreign /\ ~Apart)

(* Two pthread objects share no host object, whatever order they were
   created, destroyed and created again in, but the one whose id is the
   number of a foreign word, once the ids have come to it (g_next_id).     *)
NoSharedObject ==
  \A v, w \in Words : v # w =>
    got[v] \cap got[w] \subseteq {Null} \cup (IF Apart THEN {} ELSE {Foreign})

(* What the registry is for: two pthread objects never share.              *)
NeverShared == \A v, w \in Words : v # w => got[v] \cap got[w] \subseteq {Null}

(* A call is refused for want of an object only when the word holds what
   foreign storage holds: the registry always finds what it filled in
   itself, whatever is destroyed through a foreign word that an id has come
   to.                                                                     *)
FindsItsOwn == \A w \in Words : Null \in got[w] => word[w] = Foreign

(* A word that names an object keeps naming it until the guest resets it:
   no Obtain, by any thread, ever rewrites a word that is not zero.        *)
WordIsStable ==
  [][\A w \in Words :
        word[w] \in items /\ word'[w] # word[w] =>
          \E t \in Threads : \/ pc[t] = "clear" /\ arg[t] = w
                             \/ pc[t] = "idle" /\ arg'[t] = w]_vars

(* The abstract view: each pthread object is unbound, or bound to a host
   object of its own that it keeps until the guest resets it (Registry<T>),
   every step of the way until the ids come to a foreign word's number.    *)
BoundTo(w) == IF word[w] \in items THEN word[w] ELSE Null
Bindings == [w \in Words |-> BoundTo(w)]
HB == INSTANCE HandleBinding
        WITH Objects <- Words, Handles <- Ids, Unbound <- Null, bound <- Bindings
Binding == HB!Init /\ [][Apart' => HB!Next]_Bindings
=============================================================================
