---------------------------- MODULE GuestRwlock ----------------------------
(***************************************************************************)
(* pthread_rwlock_t in runtime/shim_pthread.cpp.  POSIX has one unlock for *)
(* readers and writers and std::shared_mutex has two, so each thread keeps *)
(* a list, t_write_held, of the ids it has locked for writing; unlock      *)
(* looks the lock's id up in it.                                           *)
(***************************************************************************)
EXTENDS Naturals

CONSTANTS
  Threads, Locks,
  NoThread, NoLock,
  MaxId,   \* bound on g_next_id
  Foreign  \* a word the registry never handed out

RwlockAssumption ==
  /\ NoThread \notin Threads
  /\ NoLock \notin Locks
  /\ MaxId \in Nat
  /\ Foreign \in Nat
  /\ Foreign > MaxId

VARIABLES
  g_next_id, items, word,  \* the registry, as in Registry
  writer,       \* writer[id]: the thread that has host lock id exclusively
  readers,      \* readers[id]: the threads that share it
  t_write_held, \* t_write_held[t]: the ids in t's list
  call,         \* each thread's entry point, its argument and its pointer
  mode          \* mode[t][l]: what the calls that returned told t it has

registry == <<g_next_id, items, word>>
vars == <<registry, writer, readers, t_write_held, call, mode>>

Ids == 1..MaxId
Null == 0
Calls == [at: {"guest", "rdlock", "wrlock", "unlock"},
          l: Locks \cup {NoLock}, p: {Null} \cup Ids]
NoCall == [at |-> "guest", l |-> NoLock, p |-> Null]

TypeOK ==
  /\ g_next_id \in 1..(MaxId + 1)
  /\ items \subseteq Ids
  /\ word \in [Locks -> {0, Foreign} \cup Ids]
  /\ writer \in [Ids -> Threads \cup {NoThread}]
  /\ readers \in [Ids -> SUBSET Threads]
  /\ t_write_held \in [Threads -> SUBSET Ids]
  /\ call \in [Threads -> Calls]
  /\ mode \in [Threads -> [Locks -> {"none", "read", "write"}]]

Init ==
  /\ g_next_id = 1
  /\ items = {}
  /\ word \in [Locks -> {0, Foreign}]
  /\ writer = [i \in Ids |-> NoThread]
  /\ readers = [i \in Ids |-> {}]
  /\ t_write_held = [t \in Threads |-> {}]
  /\ call = [t \in Threads |-> NoCall]
  /\ mode = [t \in Threads |-> [l \in Locks |-> "none"]]

At(t, step) == call[t].at = step
Idle(t) == call[t] = NoCall
Unused(l) == \A t \in Threads : call[t].l # l /\ mode[t][l] = "none"

Return(t, new) ==
  /\ call' = [call EXCEPT ![t] = NoCall]
  /\ mode' = [mode EXCEPT ![t][call[t].l] = new]
  /\ UNCHANGED registry

NewObject(l) ==
  /\ g_next_id <= MaxId
  /\ word' = [word EXCEPT ![l] = g_next_id]
  /\ items' = items \cup {g_next_id}
  /\ g_next_id' = g_next_id + 1

\* Obtain that makes a new object even where the word already names one.
Obtain_Always(l, id) == id = g_next_id /\ NewObject(l)

Obtain(l, id) ==
  \/ word[l] = 0 /\ id = g_next_id /\ NewObject(l)
  \/ /\ word[l] # 0
     /\ id = (IF word[l] \in items THEN word[l] ELSE Null)
     /\ UNCHANGED registry

(* RwlockInit, RwlockDestroy: by the guest's contract, on a lock that is
   neither held nor in use.                                                *)
RwlockInit(t, l) ==
  /\ Idle(t) /\ Unused(l)
  /\ NewObject(l)
  /\ UNCHANGED <<writer, readers, t_write_held, call, mode>>

RwlockDestroy(t, l) ==
  /\ Idle(t) /\ Unused(l)
  /\ items' = items \ {word[l]}
  /\ word' = [word EXCEPT ![l] = 0]
  /\ UNCHANGED <<g_next_id, writer, readers, t_write_held, call, mode>>

(* Every entry point obtains the host lock first.  A thread locks what it
   does not have and unlocks what it has.                                  *)
Enter(t, l, op) ==
  /\ Idle(t)
  /\ (op = "unlock") = (mode[t][l] # "none")
  /\ \E id \in {Null} \cup Ids :
       /\ Obtain(l, id)
       /\ call' = [call EXCEPT ![t] = [at |-> op, l |-> l, p |-> id]]
  /\ UNCHANGED <<writer, readers, t_write_held, mode>>

(* lock_shared, or nothing at all behind an unknown word.                  *)
RwlockRdlock(t) ==
  /\ At(t, "rdlock")
  /\ \/ call[t].p = Null /\ UNCHANGED readers
     \/ /\ call[t].p # Null
        /\ writer[call[t].p] = NoThread
        /\ readers' = [readers EXCEPT ![call[t].p] = @ \cup {t}]
  /\ Return(t, "read")
  /\ UNCHANGED <<writer, t_write_held>>

\* The id is not put on the list.
RwlockWrlock_NotNoted(t) ==
  /\ At(t, "wrlock")
  /\ \/ call[t].p = Null /\ UNCHANGED writer
     \/ /\ call[t].p # Null
        /\ writer[call[t].p] = NoThread /\ readers[call[t].p] = {}
        /\ writer' = [writer EXCEPT ![call[t].p] = t]
  /\ Return(t, "write")
  /\ UNCHANGED <<readers, t_write_held>>

(* lock, then the word is read again for the list.                         *)
RwlockWrlock(t) ==
  /\ At(t, "wrlock")
  /\ \/ call[t].p = Null /\ UNCHANGED <<writer, t_write_held>>
     \/ /\ call[t].p # Null
        /\ writer[call[t].p] = NoThread /\ readers[call[t].p] = {}
        /\ writer' = [writer EXCEPT ![call[t].p] = t]
        /\ t_write_held' = [t_write_held EXCEPT ![t] = @ \cup {word[call[t].l]}]
  /\ Return(t, "write")
  /\ UNCHANGED readers

(* The list says which of the two unlocks to make; EINVAL, with nothing
   done, for an unknown word.                                              *)
RwlockUnlock(t) ==
  /\ At(t, "unlock")
  /\ IF call[t].p = Null THEN UNCHANGED <<writer, readers, t_write_held>>
     ELSE IF word[call[t].l] \in t_write_held[t]
     THEN /\ t_write_held' = [t_write_held EXCEPT ![t] = @ \ {word[call[t].l]}]
          /\ writer' = [writer EXCEPT ![call[t].p] = NoThread]
          /\ UNCHANGED readers
     ELSE /\ readers' = [readers EXCEPT ![call[t].p] = @ \ {t}]
          /\ UNCHANGED <<writer, t_write_held>>
  /\ Return(t, "none")

Next ==
  \E t \in Threads :
    \/ \E l \in Locks :
         \/ RwlockInit(t, l)
         \/ RwlockDestroy(t, l)
         \/ \E op \in {"rdlock", "wrlock", "unlock"} : Enter(t, l, op)
    \/ RwlockRdlock(t)
    \/ RwlockWrlock(t)
    \/ RwlockUnlock(t)

Spec == Init /\ [][Next]_vars

-----------------------------------------------------------------------------
(* A thread that was told it may write shares the lock with nobody, over any
   history of creating, destroying and re-using the storage (RwlockWrlock,
   RwlockRdlock).  A word the registry does not know is left out: nothing is
   locked behind it.                                                       *)
WriterExcludes ==
  \A l \in Locks : word[l] # Foreign =>
    \A t, u \in Threads : mode[t][l] = "write" /\ mode[u][l] # "none" => t = u

(* Unlock undoes the kind of lock that was taken: what the host lock says of
   a thread is what the thread was told, so no reader is left behind by a
   writer's unlock nor the other way round (RwlockUnlock, t_write_held).   *)
UnlockMatchesLock ==
  \A l \in Locks, t \in Threads : word[l] \in items =>
    /\ writer[word[l]] = t <=> mode[t][l] = "write"
    /\ t \in readers[word[l]] <=> mode[t][l] = "read"
=============================================================================
