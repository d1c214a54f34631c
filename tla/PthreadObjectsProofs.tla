------------------------ MODULE PthreadObjectsProofs ------------------------
(***************************************************************************)
(* Proofs about mutexes and condition variables, read-write locks,         *)
(* semaphores and once controls, for any number of threads, objects, ids   *)
(* and levels of recursion.  The harness runs one component at a time, so  *)
(* its behaviours are the component's with stuttering, and each invariant  *)
(* is proved of the component's own steps.                                 *)
(***************************************************************************)
EXTENDS MCPthreadObjects, Sequences, FiniteSetTheorems, TLAPS

(* GuestMutex.  That two threads never hold one mutex is a fact about host *)
(* mutexes; the guest's side of it rests on every pointer a call carries   *)
(* being the one its word still names (Pointers), on no two words naming   *)
(* one object (Words), on a fresh object being free (Unborn) and on the    *)
(* two accounts of who holds what agreeing at every step (Account).        *)
Ptr(x) == IF word[x] = Foreign THEN Null ELSE word[x]

WordsOK ==
  /\ \A x \in Objects : word[x] \in Ids => word[x] \in items /\ word[x] < g_next_id
  /\ \A x, y \in Objects : word[x] \in Ids /\ word[y] = word[x] => x = y
  /\ \A x \in Conds : word[x] # Foreign

(* An id not handed out yet names a host object in its first state.        *)
Unborn ==
  \A i \in Ids : i >= g_next_id => owner[i] = NoThread /\ depth[i] = 0 /\ sleeping[i] = {}

MutexSteps == {"lock", "trylock", "unlock", "wait", "asleep", "relock"}
CondSteps == {"waitMutex", "wait", "asleep", "relock", "signal", "broadcast"}
HoldingSteps == {"unlock", "waitMutex", "wait", "asleep", "relock"}

PointersOK(t) ==
  /\ At(t, "guest") => Idle(t)
  /\ call[t].at \in MutexSteps =>
       call[t].m \in Mutexes /\ word[call[t].m] # 0 /\ call[t].mu = Ptr(call[t].m)
  /\ call[t].at \in CondSteps =>
       call[t].c \in Conds /\ word[call[t].c] # 0 /\ call[t].cv = Ptr(call[t].c)
  /\ call[t].at \in HoldingSteps =>
       call[t].m \in Mutexes /\ holds[t][call[t].m] > 0
  /\ call[t].at \in {"asleep", "relock"} => call[t].mu # Null

Pointers == \A t \in Threads : PointersOK(t)

(* Nobody holds a mutex that no call has obtained.                         *)
HeldKnown == \A t \in Threads, x \in Mutexes : holds[t][x] > 0 => word[x] # 0

Account ==
  \A x \in Mutexes : word[x] \in Ids =>
    /\ \A t \in Threads : /\ owner[word[x]] = t <=> Held(t, x) > 0
                          /\ owner[word[x]] = t => depth[word[x]] = Held(t, x)
    /\ owner[word[x]] = NoThread => depth[word[x]] = 0

Sleepers ==
  \A t \in Threads, i \in Ids :
    t \in sleeping[i] <=> At(t, "asleep") /\ call[t].cv = i

IInv ==
  /\ TypeOK
  /\ WordsOK
  /\ Unborn
  /\ Pointers
  /\ HeldKnown
  /\ Account
  /\ Sleepers

-----------------------------------------------------------------------------
(* No object, no call and no lock to begin with.                           *)
LEMMA InitIInv == Init => IInv
<1> SUFFICES ASSUME Init PROVE IInv
  OBVIOUS
<1> USE GuestMutexAssumption DEF Init, At, Idle, NoCall, Null
<1>1. TypeOK
  BY DEF TypeOK, Calls, Objects, Ids
<1>2. WordsOK
  BY DEF WordsOK, Objects, Ids
<1>3. Unborn /\ Sleepers
  BY DEF Unborn, Sleepers, Ids
<1>4. Pointers /\ HeldKnown
  BY DEF Pointers, PointersOK, HeldKnown, MutexSteps, CondSteps, HoldingSteps
<1>5. Account
  BY DEF Account, Held, GivenBack, Objects, Ids
<1> QED
  BY <1>1, <1>2, <1>3, <1>4, <1>5 DEF IInv

(* A call that moves on within a wait is still a call.                     *)
LEMMA CallMoves ==
  ASSUME NEW k \in Calls, NEW step \in {"asleep", "relock"}
  PROVE  [k EXCEPT !.at = step] \in Calls
  BY DEF Calls

(* What making an object does to the registry and to the words.            *)
LEMMA NewObjectOK ==
  ASSUME IInv, NEW x \in Objects, NewObject(x)
  PROVE  /\ WordsOK'
         /\ g_next_id \in Ids
         /\ g_next_id' = g_next_id + 1
         /\ items' \subseteq Ids
         /\ g_next_id' \in 1..(MaxId + 1)
         /\ word' \in [Objects -> {0, Foreign} \cup Ids]
         /\ word'[x] = g_next_id
         /\ \A y \in Objects \ {x} : word'[y] = word[y]
<1>1. /\ g_next_id \in Ids
      /\ g_next_id' = g_next_id + 1 /\ g_next_id' \in 1..(MaxId + 1)
  BY GuestMutexAssumption DEF IInv, TypeOK, NewObject, Ids
<1>2. /\ word' = [word EXCEPT ![x] = g_next_id] /\ items' = items \cup {g_next_id}
      /\ word \in [Objects -> {0, Foreign} \cup Ids] /\ items \subseteq Ids
  BY DEF IInv, TypeOK, NewObject
<1>3. items' \subseteq Ids /\ word' \in [Objects -> {0, Foreign} \cup Ids]
  BY <1>1, <1>2
<1>4. word'[x] = g_next_id /\ \A y \in Objects \ {x} : word'[y] = word[y]
  BY <1>2
<1>5. WordsOK'
  <2>1. /\ \A y \in Objects : word[y] \in Ids => word[y] \in items /\ word[y] < g_next_id
        /\ \A y, z \in Objects : word[y] \in Ids /\ word[z] = word[y] => y = z
        /\ \A y \in Conds : word[y] # Foreign
    BY DEF IInv, WordsOK
  <2>2. ASSUME NEW y \in Objects, word'[y] \in Ids
        PROVE  word'[y] \in items' /\ word'[y] < g_next_id'
    <3>1. CASE y = x
      BY <1>1, <1>2, <1>4, <3>1 DEF Ids
    <3>2. CASE y # x
      BY <1>1, <1>2, <1>4, <2>1, <2>2, <3>2 DEF Ids
    <3> QED
      BY <3>1, <3>2
  <2>3. ASSUME NEW y \in Objects, NEW z \in Objects, word'[y] \in Ids, word'[z] = word'[y]
        PROVE  y = z
    <3>1. \A w \in Objects \ {x} : word'[w] \in Ids => word'[w] # g_next_id
      BY <1>1, <1>4, <2>1 DEF Ids
    <3>2. CASE y = x \/ z = x
      BY <1>4, <2>3, <3>1, <3>2
    <3>3. CASE y # x /\ z # x
      BY <1>4, <2>1, <2>3, <3>3
    <3> QED
      BY <3>2, <3>3
  <2>4. \A y \in Conds : word'[y] # Foreign
    <3>1. Foreign \notin Ids
      BY GuestMutexAssumption DEF Ids
    <3> QED
      BY <1>1, <1>4, <2>1, <3>1 DEF Objects
  <2> QED
    BY <2>2, <2>3, <2>4 DEF WordsOK
<1> QED
  BY <1>1, <1>3, <1>4, <1>5

(* What Obtain does: the word is known afterwards and the answer is its
   object; no other word changes, and this one only if it was zero.        *)
LEMMA ObtainOK ==
  ASSUME IInv, NEW x \in Objects, NEW id, Obtain(x, id)
  PROVE  /\ WordsOK'
         /\ g_next_id' \in 1..(MaxId + 1)
         /\ items' \subseteq Ids
         /\ word' \in [Objects -> {0, Foreign} \cup Ids]
         /\ word'[x] # 0
         /\ id = Ptr(x)'
         /\ \A y \in Objects : word'[y] # word[y] =>
              word[y] = 0 /\ word'[y] = g_next_id /\ g_next_id \in Ids
         /\ g_next_id' >= g_next_id
<1>1. CASE word[x] = 0 /\ id = g_next_id /\ NewObject(x)
  <2>1. /\ WordsOK' /\ g_next_id \in Ids /\ g_next_id' = g_next_id + 1
        /\ items' \subseteq Ids /\ g_next_id' \in 1..(MaxId + 1)
        /\ word' \in [Objects -> {0, Foreign} \cup Ids]
        /\ word'[x] = g_next_id /\ \A y \in Objects \ {x} : word'[y] = word[y]
    BY <1>1, NewObjectOK
  <2>2. g_next_id # 0 /\ g_next_id # Foreign /\ g_next_id' >= g_next_id
    BY <2>1, GuestMutexAssumption DEF Ids
  <2> QED
    BY <1>1, <2>1, <2>2 DEF Ptr
<1>2. CASE /\ word[x] # 0
           /\ id = (IF word[x] \in items THEN word[x] ELSE Null)
           /\ UNCHANGED registry
  <2>1. word' = word /\ items' = items /\ g_next_id' = g_next_id
    BY <1>2 DEF registry
  <2>2. TypeOK /\ WordsOK
    BY DEF IInv
  <2>3. id = Ptr(x)
    BY <1>2, <2>2, GuestMutexAssumption DEF TypeOK, WordsOK, Ptr, Ids, Null
  <2>4. WordsOK' /\ g_next_id' >= g_next_id
    BY <2>1, <2>2 DEF WordsOK, TypeOK
  <2> QED
    BY <1>2, <2>1, <2>2, <2>3, <2>4 DEF Ptr, TypeOK
<1> QED
  BY <1>1, <1>2 DEF Obtain

-----------------------------------------------------------------------------
(* A call that only obtains objects: what the host knows and what the guest
   holds stay as they are, and the other threads' calls too.               *)
LEMMA ObtainKeeps ==
  ASSUME IInv, NEW x \in Objects, NEW id, Obtain(x, id), NEW t \in Threads,
         UNCHANGED <<host, holds>>, NEW k \in Calls, call' = [call EXCEPT ![t] = k],
         k.at \notin {"asleep", "relock"}, ~At(t, "asleep"), ~At(t, "relock")
  PROVE  TypeOK' /\ WordsOK' /\ Unborn' /\ HeldKnown' /\ Account' /\ Sleepers'
<1>1. /\ WordsOK' /\ items' \subseteq Ids
      /\ g_next_id' \in 1..(MaxId + 1) /\ g_next_id' >= g_next_id
      /\ word' \in [Objects -> {0, Foreign} \cup Ids]
      /\ \A y \in Objects : word'[y] # word[y] =>
           word[y] = 0 /\ word'[y] = g_next_id /\ g_next_id \in Ids
  BY ObtainOK
<1>2. owner' = owner /\ depth' = depth /\ sleeping' = sleeping /\ holds' = holds
  BY DEF host
<1>3. TypeOK /\ Unborn /\ HeldKnown /\ Account /\ Sleepers
  BY DEF IInv
<1>4. TypeOK'
  BY <1>1, <1>2, <1>3 DEF TypeOK
<1>5. Unborn'
  BY <1>1, <1>2, <1>3 DEF TypeOK, Unborn, Ids
<1>6. HeldKnown'
  BY <1>1, <1>2, <1>3, GuestMutexAssumption DEF TypeOK, HeldKnown, Objects, Ids
<1>7. \A u \in Threads, y \in Mutexes : Held(u, y)' = Held(u, y)
  BY <1>2, <1>3 DEF TypeOK, Held, GivenBack, At
<1>8. Account'
  <2> SUFFICES ASSUME NEW y \in Mutexes, word'[y] \in Ids
               PROVE  /\ \A u \in Threads : /\ owner[word'[y]] = u <=> Held(u, y) > 0
                                            /\ owner[word'[y]] = u => depth[word'[y]] = Held(u, y)
                      /\ owner[word'[y]] = NoThread => depth[word'[y]] = 0
    BY <1>2, <1>7 DEF Account
  <2>1. CASE word'[y] = word[y]
    BY <1>3, <2>1 DEF Account
  <2>2. CASE word'[y] # word[y]
    <3>1. word[y] = 0 /\ word'[y] = g_next_id /\ g_next_id \in Ids
      BY <1>1, <2>2 DEF Objects
    <3>2. owner[word'[y]] = NoThread /\ depth[word'[y]] = 0
      BY <1>3, <3>1 DEF Unborn, TypeOK, Ids
    <3>3. \A u \in Threads : ~(Held(u, y) > 0)
      BY <1>3, <3>1 DEF HeldKnown, Held, TypeOK
    <3> QED
      BY <3>2, <3>3, GuestMutexAssumption
  <2> QED
    BY <2>1, <2>2
<1>9. Sleepers'
  BY <1>2, <1>3 DEF Sleepers, At, TypeOK
<1> QED
  BY <1>1, <1>4, <1>5, <1>6, <1>8, <1>9

(* The pointers of the other threads outlive it.                           *)
LEMMA ObtainKeepsPointers ==
  ASSUME IInv, NEW x \in Objects, NEW id, Obtain(x, id), NEW t \in Threads,
         holds' = holds, NEW k \in Calls, call' = [call EXCEPT ![t] = k],
         NEW u \in Threads \ {t}
  PROVE  PointersOK(u)'
<1>1. \A y \in Objects : word[y] # 0 => word'[y] = word[y]
  BY ObtainOK
<1>2. call'[u] = call[u]
  BY DEF IInv, TypeOK
<1>3. PointersOK(u)
  BY DEF IInv, Pointers
<1> QED
  BY <1>1, <1>2, <1>3 DEF PointersOK, Objects, Ptr, At, Idle

(* A mutex entry point obtains its object.                                 *)
LEMMA CallMutexOK ==
  ASSUME IInv, NEW t \in Threads, NEW x \in Mutexes,
         NEW op \in {"lock", "trylock", "unlock"}, CallMutex(t, x, op)
  PROVE  IInv'
<1>1. PICK id \in {Null} \cup Ids :
        /\ Obtain(x, id)
        /\ call' = [call EXCEPT ![t] = [NoCall EXCEPT !.at = op, !.m = x, !.mu = id]]
  BY DEF CallMutex
<1> DEFINE k == [NoCall EXCEPT !.at = op, !.m = x, !.mu = id]
<1>2. x \in Objects /\ k \in Calls /\ call[t] = NoCall
  BY DEF Objects, Calls, NoCall, CallMutex, Idle
<1>3. UNCHANGED <<host, holds>> /\ (op = "unlock" => holds[t][x] > 0)
  BY DEF CallMutex
<1>4. TypeOK' /\ WordsOK' /\ Unborn' /\ HeldKnown' /\ Account' /\ Sleepers'
  <2>1. k.at \notin {"asleep", "relock"} /\ ~At(t, "asleep") /\ ~At(t, "relock")
    BY <1>2 DEF At, NoCall
  <2> HIDE DEF k
  <2>2. call' = [call EXCEPT ![t] = k]
    BY <1>1 DEF k
  <2> QED
    BY <1>1, <1>2, <1>3, <2>1, <2>2, ObtainKeeps
<1>5. \A u \in Threads \ {t} : PointersOK(u)'
  BY <1>1, <1>2, <1>3, ObtainKeepsPointers
<1>6. PointersOK(t)'
  <2>1. call'[t] = k
    BY <1>1 DEF IInv, TypeOK
  <2>2. word'[x] # 0 /\ id = Ptr(x)'
    BY <1>1, <1>2, ObtainOK
  <2> QED
    BY <1>3, <2>1, <2>2 DEF PointersOK, MutexSteps, CondSteps, HoldingSteps, At, Ptr, NoCall
<1> QED
  BY <1>4, <1>5, <1>6 DEF IInv, Pointers

(* A wait obtains its condition.                                           *)
LEMMA CallWaitOK ==
  ASSUME IInv, NEW t \in Threads, NEW x \in Conds, NEW y \in Mutexes, CallWait(t, x, y)
  PROVE  IInv'
<1>1. PICK id \in {Null} \cup Ids :
        /\ Obtain(x, id)
        /\ call' = [call EXCEPT ![t] = [at |-> "waitMutex", m |-> y, c |-> x,
                                       mu |-> Null, cv |-> id]]
  BY DEF CallWait
<1> DEFINE k == [at |-> "waitMutex", m |-> y, c |-> x, mu |-> Null, cv |-> id]
<1>2. x \in Objects /\ k \in Calls /\ call[t] = NoCall
  BY DEF Objects, Calls, CallWait, Idle
<1>3. UNCHANGED <<host, holds>> /\ holds[t][y] > 0
  BY DEF CallWait
<1>4. TypeOK' /\ WordsOK' /\ Unborn' /\ HeldKnown' /\ Account' /\ Sleepers'
  <2>1. k.at \notin {"asleep", "relock"} /\ ~At(t, "asleep") /\ ~At(t, "relock")
    BY <1>2 DEF At, NoCall
  <2> HIDE DEF k
  <2>2. call' = [call EXCEPT ![t] = k]
    BY <1>1 DEF k
  <2> QED
    BY <1>1, <1>2, <1>3, <2>1, <2>2, ObtainKeeps
<1>5. \A u \in Threads \ {t} : PointersOK(u)'
  BY <1>1, <1>2, <1>3, ObtainKeepsPointers
<1>6. PointersOK(t)'
  <2>1. call'[t] = k
    BY <1>1 DEF IInv, TypeOK
  <2>2. word'[x] # 0 /\ id = Ptr(x)'
    BY <1>1, <1>2, ObtainOK
  <2> QED
    BY <1>3, <2>1, <2>2 DEF PointersOK, MutexSteps, CondSteps, HoldingSteps, At, Ptr
<1> QED
  BY <1>4, <1>5, <1>6 DEF IInv, Pointers

(* A wait obtains its mutex.                                               *)
LEMMA WaitMutexOK ==
  ASSUME IInv, NEW t \in Threads, WaitMutex(t)
  PROVE  IInv'
<1>1. PICK id \in {Null} \cup Ids :
        /\ Obtain(call[t].m, id)
        /\ call' = [call EXCEPT ![t].at = "wait", ![t].mu = id]
  BY DEF WaitMutex
<1> DEFINE k == [call[t] EXCEPT !.at = "wait", !.mu = id]
<1>2. PICK x \in Mutexes : x = call[t].m /\ x \in Objects
  BY DEF IInv, Pointers, PointersOK, HoldingSteps, WaitMutex, At, Objects
<1>3. /\ k \in Calls /\ At(t, "waitMutex")
      /\ holds[t][x] > 0 /\ PointersOK(t)
      /\ UNCHANGED <<host, holds>>
  <2>1. At(t, "waitMutex") /\ PointersOK(t) /\ UNCHANGED <<host, holds>>
    BY DEF WaitMutex, IInv, Pointers
  <2>2. holds[t][x] > 0
    BY <1>2, <2>1 DEF PointersOK, HoldingSteps, At
  <2>3. k \in Calls
    BY DEF Calls, IInv, TypeOK
  <2> QED
    BY <2>1, <2>2, <2>3
<1>4. TypeOK' /\ WordsOK' /\ Unborn' /\ HeldKnown' /\ Account' /\ Sleepers'
  <2>1. k.at \notin {"asleep", "relock"} /\ ~At(t, "asleep") /\ ~At(t, "relock")
    BY <1>3 DEF At, IInv, TypeOK, Calls
  <2>2. call' = [call EXCEPT ![t] = k]
    BY <1>1 DEF IInv, TypeOK
  <2> HIDE DEF k
  <2> QED
    BY <1>1, <1>2, <1>3, <2>1, <2>2, ObtainKeeps
<1>5. \A u \in Threads \ {t} : PointersOK(u)'
  <2>1. call' = [call EXCEPT ![t] = k]
    BY <1>1 DEF IInv, TypeOK
  <2> HIDE DEF k
  <2> QED
    BY <1>1, <1>2, <1>3, <2>1, ObtainKeepsPointers
<1>6. PointersOK(t)'
  <2>1. /\ call'[t].at = "wait" /\ call'[t].m = x /\ call'[t].mu = id
        /\ call'[t].c = call[t].c /\ call'[t].cv = call[t].cv
    BY <1>1, <1>2 DEF IInv, TypeOK, Calls
  <2>2. word'[x] # 0 /\ id = Ptr(x)'
    BY <1>1, <1>2, ObtainOK
  <2>3. \A y \in Objects : word[y] # 0 => word'[y] = word[y]
    BY <1>1, <1>2, ObtainOK
  <2>4. /\ call[t].c \in Conds /\ word[call[t].c] # 0
        /\ call[t].cv = Ptr(call[t].c)
    BY <1>3 DEF PointersOK, CondSteps, At
  <2> QED
    BY <1>3, <2>1, <2>2, <2>3, <2>4
       DEF PointersOK, MutexSteps, CondSteps, HoldingSteps, At, Ptr, Objects
<1> QED
  BY <1>4, <1>5, <1>6 DEF IInv, Pointers

(* A signal or a broadcast obtains its condition.                          *)
LEMMA CallNotifyOK ==
  ASSUME IInv, NEW t \in Threads, NEW x \in Conds,
         NEW op \in {"signal", "broadcast"}, CallNotify(t, x, op)
  PROVE  IInv'
<1>1. PICK id \in {Null} \cup Ids :
        /\ Obtain(x, id)
        /\ call' = [call EXCEPT ![t] = [NoCall EXCEPT !.at = op, !.c = x, !.cv = id]]
  BY DEF CallNotify
<1> DEFINE k == [NoCall EXCEPT !.at = op, !.c = x, !.cv = id]
<1>2. x \in Objects /\ k \in Calls /\ call[t] = NoCall
  BY DEF Objects, Calls, NoCall, CallNotify, Idle
<1>3. UNCHANGED <<host, holds>>
  BY DEF CallNotify
<1>4. TypeOK' /\ WordsOK' /\ Unborn' /\ HeldKnown' /\ Account' /\ Sleepers'
  <2>1. k.at \notin {"asleep", "relock"} /\ ~At(t, "asleep") /\ ~At(t, "relock")
    BY <1>2 DEF At, NoCall
  <2> HIDE DEF k
  <2>2. call' = [call EXCEPT ![t] = k]
    BY <1>1 DEF k
  <2> QED
    BY <1>1, <1>2, <1>3, <2>1, <2>2, ObtainKeeps
<1>5. \A u \in Threads \ {t} : PointersOK(u)'
  BY <1>1, <1>2, <1>3, ObtainKeepsPointers
<1>6. PointersOK(t)'
  <2>1. call'[t] = k
    BY <1>1 DEF IInv, TypeOK
  <2>2. word'[x] # 0 /\ id = Ptr(x)'
    BY <1>1, <1>2, ObtainOK
  <2> QED
    BY <2>1, <2>2 DEF PointersOK, MutexSteps, CondSteps, HoldingSteps, At, Ptr, NoCall
<1> QED
  BY <1>4, <1>5, <1>6 DEF IInv, Pointers

(* pthread_mutex_init, pthread_cond_init: nobody uses the object.          *)
LEMMA InitObjectOK ==
  ASSUME IInv, NEW t \in Threads, NEW x \in Objects, InitObject(t, x)
  PROVE  IInv'
<1>1. /\ NewObject(x) /\ Unused(x)
      /\ owner' = owner /\ depth' = depth /\ sleeping' = sleeping
      /\ call' = call /\ holds' = holds
  BY DEF InitObject, host
<1>2. IInv /\ TypeOK /\ WordsOK /\ Unborn /\ Pointers /\ HeldKnown /\ Account /\ Sleepers
  BY DEF IInv
<1>3. /\ WordsOK' /\ g_next_id \in Ids /\ g_next_id' = g_next_id + 1
      /\ items' \subseteq Ids /\ g_next_id' \in 1..(MaxId + 1)
      /\ word' \in [Objects -> {0, Foreign} \cup Ids]
      /\ word'[x] = g_next_id
      /\ \A y \in Objects \ {x} : word'[y] = word[y]
  BY <1>1, NewObjectOK
<1>4. TypeOK'
  BY <1>1, <1>2, <1>3 DEF TypeOK
<1>5. Unborn'
  BY <1>1, <1>2, <1>3 DEF TypeOK, Unborn, Ids
<1>6. Pointers'
  BY <1>1, <1>2, <1>3
     DEF Pointers, PointersOK, Unused, MutexSteps, CondSteps, HoldingSteps, Objects, Ptr, At, Idle
<1>7. HeldKnown'
  BY <1>1, <1>2, <1>3 DEF HeldKnown, Unused, Objects, TypeOK
<1>8. Account'
  <2> SUFFICES ASSUME NEW y \in Mutexes, word'[y] \in Ids
               PROVE  /\ \A u \in Threads : owner[word'[y]] = u <=> Held(u, y) > 0
                      /\ \A u \in Threads : owner[word'[y]] = u => depth[word'[y]] = Held(u, y)
                      /\ owner[word'[y]] = NoThread => depth[word'[y]] = 0
    BY <1>1 DEF Account, Held, GivenBack, At
  <2>1. CASE y # x
    BY <1>2, <1>3, <2>1 DEF Account, Objects
  <2>2. CASE y = x
    <3>1. owner[word'[y]] = NoThread /\ depth[word'[y]] = 0
      BY <1>2, <1>3, <2>2 DEF Unborn, TypeOK, Ids
    <3>2. \A u \in Threads : ~(Held(u, y) > 0)
      BY <1>1, <1>2, <2>2 DEF Held, Unused, TypeOK
    <3> QED
      BY <3>1, <3>2, GuestMutexAssumption
  <2> QED
    BY <2>1, <2>2
<1>9. Sleepers'
  BY <1>1, <1>2 DEF Sleepers, At
<1> QED
  BY <1>3, <1>4, <1>5, <1>6, <1>7, <1>8, <1>9 DEF IInv

(* pthread_mutex_destroy, pthread_cond_destroy.                            *)
LEMMA DestroyObjectOK ==
  ASSUME IInv, NEW t \in Threads, NEW x \in Objects, DestroyObject(t, x)
  PROVE  IInv'
<1>1. /\ Unused(x)
      /\ items' = items \ {word[x]} /\ word' = [word EXCEPT ![x] = 0]
      /\ owner' = owner /\ depth' = depth /\ sleeping' = sleeping
      /\ call' = call /\ holds' = holds /\ g_next_id' = g_next_id
  BY DEF DestroyObject, host
<1>2. TypeOK /\ WordsOK /\ Unborn /\ Pointers /\ HeldKnown /\ Account /\ Sleepers
  BY DEF IInv
<1>3. /\ word' \in [Objects -> {0, Foreign} \cup Ids] /\ word'[x] = 0
      /\ \A y \in Objects \ {x} : word'[y] = word[y]
  BY <1>1, <1>2 DEF TypeOK
<1>4. TypeOK'
  BY <1>1, <1>2, <1>3 DEF TypeOK
<1>5. WordsOK'
  BY <1>1, <1>2, <1>3, GuestMutexAssumption DEF WordsOK, Objects, Ids
<1>6. Unborn'
  BY <1>1, <1>2 DEF Unborn
<1>7. Pointers'
  BY <1>1, <1>2, <1>3
     DEF Pointers, PointersOK, Unused, MutexSteps, CondSteps, HoldingSteps, Objects, Ptr, At, Idle
<1>8. HeldKnown'
  BY <1>1, <1>2, <1>3 DEF HeldKnown, Unused, Objects, TypeOK
<1>9. Account'
  <2>1. \A y \in Mutexes : word'[y] \in Ids => word'[y] = word[y]
    BY <1>3 DEF Objects, Ids
  <2> QED
    BY <1>1, <1>2, <2>1 DEF Account, Held, GivenBack, At
<1>10. Sleepers'
  BY <1>1, <1>2 DEF Sleepers, At
<1> QED
  BY <1>4, <1>5, <1>6, <1>7, <1>8, <1>9, <1>10 DEF IInv

-----------------------------------------------------------------------------
(* A step of t within a call on the mutex m moves nobody else's account.   *)
LEMMA HeldElsewhere ==
  ASSUME TypeOK, NEW t \in Threads, NEW m \in Mutexes, call[t].m = m,
         call'[t].m \in {m, NoMutex},
         \A u \in Threads \ {t} : call'[u].m = call[u].m /\ holds'[u] = holds[u],
         \A u \in Threads \ {t} :
           call'[u].at \in {"asleep", "relock"} <=> call[u].at \in {"asleep", "relock"},
         \A y \in Mutexes \ {m} : holds'[t][y] = holds[t][y]
  PROVE  \A u \in Threads, y \in Mutexes :
           u # t \/ y # m => Held(u, y)' = Held(u, y)
  BY GuestMutexAssumption DEF Held, GivenBack

(* The two accounts keep agreeing when the owner of m changes and so does
   what its caller holds of it.                                            *)
LEMMA AccountMoves ==
  ASSUME IInv, word' = word, NEW t \in Threads, NEW m \in Mutexes,
         NEW i \in Ids, word[m] = i, NEW h \in Nat, Held(t, m)' = h,
         \A u \in Threads, y \in Mutexes : u # t \/ y # m => Held(u, y)' = Held(u, y),
         owner[i] \in {NoThread, t},
         owner' = [owner EXCEPT ![i] = IF h > 0 THEN t ELSE NoThread],
         depth' = [depth EXCEPT ![i] = h]
  PROVE  Account'
<1> SUFFICES ASSUME NEW y \in Mutexes, word[y] \in Ids
             PROVE  /\ \A u \in Threads : owner'[word[y]] = u <=> Held(u, y)' > 0
                    /\ \A u \in Threads : owner'[word[y]] = u => depth'[word[y]] = Held(u, y)'
                    /\ owner'[word[y]] = NoThread => depth'[word[y]] = 0
  BY DEF Account
<1>1. Account /\ WordsOK /\ TypeOK
  BY DEF IInv
<1>2. CASE y # m
  <2>1. word[y] # i
    BY <1>1, <1>2 DEF WordsOK, Objects
  <2>2. owner'[word[y]] = owner[word[y]] /\ depth'[word[y]] = depth[word[y]]
    BY <1>1, <2>1 DEF TypeOK
  <2>3. \A u \in Threads : Held(u, y)' = Held(u, y)
    BY <1>2
  <2> QED
    BY <1>1, <2>2, <2>3 DEF Account
<1>3. CASE y = m
  <2>1. owner'[i] = (IF h > 0 THEN t ELSE NoThread) /\ depth'[i] = h
    BY <1>1 DEF TypeOK
  <2>2. \A u \in Threads \ {t} : ~(Held(u, m) > 0)
    BY <1>1, GuestMutexAssumption DEF Account
  <2>3. \A u \in Threads \ {t} : ~(Held(u, m)' > 0)
    BY <2>2
  <2> QED
    BY <1>3, <2>1, <2>3, GuestMutexAssumption
<1> QED
  BY <1>2, <1>3

(* A step that changes nobody's holdings keeps the accounts equal.         *)
LEMMA AccountStays ==
  ASSUME Account, word' = word, owner' = owner, depth' = depth,
         \A u \in Threads, y \in Mutexes :
           word[y] \in Ids => Held(u, y)' = Held(u, y)
  PROVE  Account'
  BY DEF Account

(* What is known of t when it locks, unlocks or returns from a wait.       *)
LEMMA InMutexCall ==
  ASSUME IInv, NEW t \in Threads, call[t].at \in MutexSteps
  PROVE  /\ call[t].m \in Mutexes /\ word[call[t].m] # 0
         /\ call[t].mu = Ptr(call[t].m)
         /\ call[t].mu # Null => call[t].mu \in Ids /\ word[call[t].m] = call[t].mu
                                /\ call[t].mu < g_next_id
         /\ call[t].mu = Null => word[call[t].m] = Foreign
<1>1. PointersOK(t) /\ TypeOK /\ WordsOK
  BY DEF IInv, Pointers
<1> QED
  BY <1>1, GuestMutexAssumption DEF PointersOK, TypeOK, WordsOK, Ptr, Objects, Ids, Null

(* Parts of the invariant that a step of t on its mutex alone keeps.       *)
LEMMA MutexStepKeeps ==
  ASSUME IInv, NEW t \in Threads, UNCHANGED <<registry, sleeping>>,
         call' = [call EXCEPT ![t] = NoCall], ~At(t, "asleep"),
         \A j \in Ids : j >= g_next_id => owner'[j] = owner[j] /\ depth'[j] = depth[j],
         \A u \in Threads \ {t} : holds'[u] = holds[u]
  PROVE  WordsOK' /\ Unborn' /\ Pointers' /\ Sleepers'
<1>1. TypeOK /\ WordsOK /\ Unborn /\ Pointers /\ Sleepers
  BY DEF IInv
<1>2. g_next_id' = g_next_id /\ items' = items /\ word' = word /\ sleeping' = sleeping
  BY DEF registry
<1>3. WordsOK'
  BY <1>1, <1>2 DEF WordsOK
<1>4. Unborn'
  BY <1>1, <1>2 DEF Unborn, TypeOK, Ids
<1>5. call'[t] = NoCall /\ \A u \in Threads \ {t} : call'[u] = call[u]
  BY <1>1 DEF TypeOK
<1>6. Pointers'
  BY <1>1, <1>2, <1>5 DEF Pointers, PointersOK, At, Idle, NoCall, Ptr,
       MutexSteps, CondSteps, HoldingSteps
<1>7. Sleepers'
  BY <1>1, <1>2, <1>5 DEF Sleepers, At, NoCall
<1> QED
  BY <1>3, <1>4, <1>6, <1>7

(* A lock of t's mutex that succeeds, in a call that ends with it.         *)
LEMMA TakeOK ==
  ASSUME IInv, NEW t \in Threads, NEW m \in Mutexes, NEW i \in Ids,
         call[t].at \in {"lock", "trylock"}, call[t].m = m, call[t].mu = i,
         TakeHost(i, t), holds' = [holds EXCEPT ![t][m] = @ + 1],
         Return(t), UNCHANGED <<registry, sleeping>>
  PROVE  IInv'
<1>1. TypeOK /\ WordsOK /\ HeldKnown /\ Account /\ call' = [call EXCEPT ![t] = NoCall]
  BY DEF IInv, Return
<1>2. word[m] = i /\ i < g_next_id /\ word[m] # 0
  BY InMutexCall, GuestMutexAssumption DEF MutexSteps, Ids, Null
<1>3. word' = word /\ g_next_id' = g_next_id /\ items' = items
  BY DEF registry
<1>4. TypeOK'
  BY <1>1, <1>3 DEF TypeOK, TakeHost, NoCall, Calls
<1>5. HeldKnown'
  BY <1>1, <1>2, <1>3 DEF HeldKnown, TypeOK
<1>6. \A u \in Threads, y \in Mutexes : u # t \/ y # m => Held(u, y)' = Held(u, y)
  BY <1>1, HeldElsewhere DEF TypeOK, NoCall
<1>7. Held(t, m) = holds[t][m] /\ Held(t, m)' = holds[t][m] + 1
  BY <1>1, GuestMutexAssumption DEF Held, GivenBack, TypeOK, NoCall
<1>8. owner[i] \in {NoThread, t} /\ depth[i] = holds[t][m]
  <2>1. CASE owner[i] = t
    BY <1>1, <1>2, <1>7, <2>1 DEF Account
  <2>2. CASE owner[i] = NoThread
    <3>1. depth[i] = 0 /\ ~(Held(t, m) > 0)
      BY <1>1, <1>2, <2>2, GuestMutexAssumption DEF Account
    <3> QED
      BY <1>1, <1>7, <2>2, <3>1 DEF TypeOK
  <2> QED
    BY <2>1, <2>2 DEF TakeHost
<1>9. Account'
  <2>1. PICK h \in Nat : h = holds[t][m] + 1
    BY <1>1 DEF TypeOK
  <2>2. h > 0 /\ Held(t, m)' = h
    BY <1>1, <1>7, <2>1 DEF TypeOK
  <2>3. owner' = [owner EXCEPT ![i] = IF h > 0 THEN t ELSE NoThread]
    BY <2>2 DEF TakeHost
  <2>4. depth' = [depth EXCEPT ![i] = h]
    BY <1>8, <2>1 DEF TakeHost
  <2> QED
    BY <1>2, <1>3, <1>6, <1>8, <2>2, <2>3, <2>4, AccountMoves
<1>10. WordsOK' /\ Unborn' /\ Pointers' /\ Sleepers'
  <2>1. \A j \in Ids : j >= g_next_id => owner'[j] = owner[j] /\ depth'[j] = depth[j]
    BY <1>1, <1>2 DEF TakeHost, TypeOK, Ids
  <2> QED
    BY <1>1, <2>1, MutexStepKeeps DEF At, TypeOK
<1> QED
  BY <1>4, <1>5, <1>9, <1>10 DEF IInv

(* A call that ends without touching a host mutex: the word is unknown, or
   a trylock fails.                                                        *)
LEMMA EmptyOK ==
  ASSUME IInv, NEW t \in Threads, NEW m \in Mutexes, NEW h \in Nat,
         call[t].at \in {"lock", "trylock", "unlock"}, call[t].m = m,
         h = holds[t][m] \/ word[m] = Foreign,
         UNCHANGED <<owner, depth>>, holds' = [holds EXCEPT ![t][m] = h],
         Return(t), UNCHANGED <<registry, sleeping>>
  PROVE  IInv'
<1>1. TypeOK /\ HeldKnown /\ Account /\ call' = [call EXCEPT ![t] = NoCall]
  BY DEF IInv, Return
<1>2. word[m] # 0
  <2>1. call[t].at \in MutexSteps
    BY DEF MutexSteps
  <2> QED
    BY <2>1, InMutexCall
<1>3. word' = word /\ g_next_id' = g_next_id /\ items' = items
  BY DEF registry
<1>4. TypeOK'
  BY <1>1, <1>3 DEF TypeOK, NoCall, Calls
<1>5. HeldKnown'
  BY <1>1, <1>2, <1>3 DEF HeldKnown, TypeOK
<1>6. \A u \in Threads, y \in Mutexes : u # t \/ y # m => Held(u, y)' = Held(u, y)
  BY <1>1, HeldElsewhere DEF TypeOK, NoCall
<1>7. h = holds[t][m] => Held(t, m)' = Held(t, m)
  BY <1>1, GuestMutexAssumption DEF Held, GivenBack, TypeOK, NoCall
<1>8. Account'
  BY <1>1, <1>3, <1>6, <1>7, AccountStays, GuestMutexAssumption DEF Ids
<1>9. WordsOK' /\ Unborn' /\ Pointers' /\ Sleepers'
  BY <1>1, MutexStepKeeps DEF At, TypeOK
<1> QED
  BY <1>4, <1>5, <1>8, <1>9 DEF IInv

(* lock() takes a level on the host and one for the guest.                 *)
LEMMA LockOK ==
  ASSUME IInv, NEW t \in Threads, Lock(t)
  PROVE  IInv'
<1>1. PICK m \in Mutexes : m = call[t].m
  BY InMutexCall DEF Lock, At, MutexSteps
<1>2. /\ call[t].at = "lock" /\ Return(t) /\ UNCHANGED <<registry, sleeping>>
      /\ holds' = [holds EXCEPT ![t][m] = @ + 1]
  BY <1>1 DEF Lock, At
<1>3. CASE call[t].mu = Null
  <2>1. word[m] = Foreign
    BY <1>1, <1>2, <1>3, InMutexCall DEF MutexSteps
  <2>2. PICK h \in Nat : h = holds[t][m] + 1
    BY DEF IInv, TypeOK
  <2>3. UNCHANGED <<owner, depth>> /\ holds' = [holds EXCEPT ![t][m] = h]
    BY <1>2, <1>3, <2>2 DEF Lock, IInv, TypeOK
  <2> QED
    BY <1>1, <1>2, <2>1, <2>3, EmptyOK
<1>4. CASE call[t].mu # Null
  <2>1. PICK i \in Ids : i = call[t].mu
    BY <1>2, <1>4, InMutexCall DEF MutexSteps
  <2>2. TakeHost(i, t)
    BY <1>4, <2>1 DEF Lock
  <2> QED
    BY <1>1, <1>2, <2>1, <2>2, TakeOK
<1> QED
  BY <1>3, <1>4

(* try_lock() does so or does nothing.                                     *)
LEMMA TrylockOK ==
  ASSUME IInv, NEW t \in Threads, Trylock(t)
  PROVE  IInv'
<1>1. PICK m \in Mutexes : m = call[t].m
  BY InMutexCall DEF Trylock, At, MutexSteps
<1>2. call[t].at = "trylock" /\ Return(t) /\ UNCHANGED <<registry, sleeping>>
  BY DEF Trylock, At
<1>3. CASE /\ call[t].mu # Null
           /\ TakeHost(call[t].mu, t)
           /\ holds' = [holds EXCEPT ![t][call[t].m] = @ + 1]
  <2>1. PICK i \in Ids : i = call[t].mu
    BY <1>2, <1>3, InMutexCall DEF MutexSteps
  <2>2. TakeHost(i, t) /\ holds' = [holds EXCEPT ![t][m] = @ + 1]
    BY <1>1, <1>3, <2>1
  <2> QED
    BY <1>1, <1>2, <2>1, <2>2, TakeOK
<1>4. CASE UNCHANGED <<owner, depth, holds>>
  <2>1. PICK h \in Nat : h = holds[t][m]
    BY DEF IInv, TypeOK
  <2>2. holds' = [holds EXCEPT ![t][m] = h]
    BY <1>4, <2>1 DEF IInv, TypeOK
  <2> QED
    BY <1>1, <1>2, <1>4, <2>1, <2>2, EmptyOK
<1> QED
  BY <1>3, <1>4 DEF Trylock

(* unlock() gives one level back on both sides.                            *)
LEMMA UnlockOK ==
  ASSUME IInv, NEW t \in Threads, Unlock(t)
  PROVE  IInv'
<1>1. PICK m \in Mutexes : m = call[t].m
  BY InMutexCall DEF Unlock, At, MutexSteps
<1>2. /\ call[t].at = "unlock" /\ Return(t) /\ UNCHANGED <<registry, sleeping>>
      /\ holds' = [holds EXCEPT ![t][m] = @ - 1]
  BY <1>1 DEF Unlock, At
<1>3. /\ TypeOK /\ WordsOK /\ HeldKnown /\ Account
      /\ call' = [call EXCEPT ![t] = NoCall] /\ holds[t][m] > 0
  BY <1>1, <1>2 DEF IInv, Pointers, PointersOK, HoldingSteps, Return
<1>4. CASE call[t].mu = Null
  <2>1. word[m] = Foreign
    BY <1>1, <1>2, <1>4, InMutexCall DEF MutexSteps
  <2>2. PICK h \in Nat : h = holds[t][m] - 1
    BY <1>3 DEF TypeOK
  <2>3. UNCHANGED <<owner, depth>> /\ holds' = [holds EXCEPT ![t][m] = h]
    BY <1>2, <1>3, <1>4, <2>2 DEF Unlock, TypeOK
  <2> QED
    BY <1>1, <1>2, <2>1, <2>3, EmptyOK
<1>5. CASE call[t].mu # Null
  <2>1. PICK i \in Ids : i = call[t].mu /\ word[m] = i /\ i < g_next_id
    BY <1>1, <1>2, <1>5, InMutexCall DEF MutexSteps
  <2>2. DropHost(i)
    BY <1>5, <2>1 DEF Unlock
  <2>3. word' = word /\ g_next_id' = g_next_id /\ items' = items /\ sleeping' = sleeping
    BY <1>2 DEF registry
  <2>4. Held(t, m) = holds[t][m] /\ Held(t, m)' = holds[t][m] - 1
    BY <1>1, <1>2, <1>3, GuestMutexAssumption DEF Held, GivenBack, TypeOK, NoCall
  <2>5. owner[i] = t /\ depth[i] = holds[t][m]
    BY <1>3, <2>1, <2>4 DEF Account
  <2>6. TypeOK'
    BY <1>2, <1>3, <2>1, <2>2, <2>3, <2>5 DEF TypeOK, DropHost, NoCall, Calls
  <2>7. HeldKnown'
    BY <1>2, <1>3, <2>3 DEF HeldKnown, TypeOK
  <2>8. Account'
    <3>1. \A u \in Threads, y \in Mutexes : u # t \/ y # m => Held(u, y)' = Held(u, y)
      BY <1>1, <1>2, <1>3, HeldElsewhere DEF TypeOK, NoCall
    <3>2. PICK h \in Nat : h = holds[t][m] - 1
      BY <1>3 DEF TypeOK
    <3>3. /\ owner' = [owner EXCEPT ![i] = IF h > 0 THEN t ELSE NoThread]
          /\ depth' = [depth EXCEPT ![i] = h]
      <4>1. (IF depth[i] = 1 THEN NoThread ELSE owner[i]) = (IF h > 0 THEN t ELSE NoThread)
        BY <1>3, <2>5, <3>2 DEF TypeOK
      <4>2. depth[i] - 1 = h
        BY <2>5, <3>2
      <4> QED
        BY <2>2, <2>5, <3>2, <4>1, <4>2 DEF DropHost
    <3>4. Held(t, m)' = h /\ owner[i] \in {NoThread, t}
      BY <2>4, <2>5, <3>2
    <3> QED
      BY <2>1, <2>3, <3>1, <3>3, <3>4, AccountMoves
  <2>9. WordsOK' /\ Unborn' /\ Pointers' /\ Sleepers'
    <3>1. \A j \in Ids : j >= g_next_id => owner'[j] = owner[j] /\ depth'[j] = depth[j]
      BY <1>3, <2>1, <2>2 DEF DropHost, TypeOK, Ids
    <3> QED
      BY <1>2, <1>3, <3>1, MutexStepKeeps DEF At, TypeOK
  <2> QED
    BY <2>6, <2>7, <2>8, <2>9 DEF IInv
<1> QED
  BY <1>4, <1>5

-----------------------------------------------------------------------------
(* EINVAL leaves everything as it was.                                     *)
LEMMA WaitRefusedOK ==
  ASSUME IInv, NEW t \in Threads, WaitRefused(t)
  PROVE  IInv'
<1>1. /\ TypeOK /\ WordsOK /\ Unborn /\ Pointers /\ HeldKnown /\ Account /\ Sleepers
      /\ At(t, "wait") /\ call' = [call EXCEPT ![t] = NoCall]
  BY DEF IInv, WaitRefused, Return
<1>2. /\ word' = word /\ g_next_id' = g_next_id /\ items' = items
      /\ owner' = owner /\ depth' = depth /\ sleeping' = sleeping /\ holds' = holds
  BY DEF WaitRefused, registry, host
<1>3. TypeOK'
  BY <1>1, <1>2 DEF TypeOK, NoCall, Calls
<1>4. \A u \in Threads, y \in Mutexes : Held(u, y)' = Held(u, y)
  BY <1>1, <1>2 DEF Held, GivenBack, TypeOK, NoCall, At
<1>5. WordsOK' /\ HeldKnown' /\ Account'
  BY <1>1, <1>2, <1>4 DEF WordsOK, HeldKnown, Account
<1>6. Unborn' /\ Pointers' /\ Sleepers'
  BY <1>1, <1>2, MutexStepKeeps DEF At, WaitRefused
<1> QED
  BY <1>3, <1>5, <1>6 DEF IInv

(* What is known of t in and around its sleep.                             *)
LEMMA InWait ==
  ASSUME IInv, NEW t \in Threads, call[t].at \in {"wait", "asleep", "relock"},
         Null \notin {call[t].mu, call[t].cv} \/ call[t].at # "wait"
  PROVE  \E m \in Mutexes, i \in Ids, c \in Ids :
           /\ call[t].m = m /\ call[t].mu = i /\ word[m] = i /\ i < g_next_id
           /\ call[t].cv = c /\ c < g_next_id
           /\ holds[t][m] > 0
<1>1. PointersOK(t) /\ TypeOK /\ WordsOK
  BY DEF IInv, Pointers
<1>2. call[t].m \in Mutexes /\ holds[t][call[t].m] > 0
  BY <1>1 DEF PointersOK, HoldingSteps
<1>3. call[t].mu \in Ids /\ word[call[t].m] = call[t].mu /\ call[t].mu < g_next_id
  <2>1. call[t].mu # Null
    BY <1>1 DEF PointersOK
  <2> QED
    BY <2>1, InMutexCall DEF MutexSteps
<1>4. call[t].cv \in Ids /\ call[t].cv < g_next_id
  <2>1. /\ call[t].c \in Conds /\ word[call[t].c] # 0
        /\ call[t].cv = Ptr(call[t].c)
    BY <1>1 DEF PointersOK, CondSteps
  <2> QED
    BY <1>1, <2>1 DEF WordsOK, Ptr, TypeOK, Objects
<1> QED
  BY <1>2, <1>3, <1>4

(* Going to sleep gives back one level and joins the sleepers.             *)
LEMMA SleepOK ==
  ASSUME IInv, NEW t \in Threads, Sleep(t)
  PROVE  IInv'
<1>1. PICK m \in Mutexes, i \in Ids, c \in Ids :
        /\ call[t].m = m /\ call[t].mu = i /\ word[m] = i /\ i < g_next_id
        /\ call[t].cv = c /\ c < g_next_id
        /\ holds[t][m] > 0
  BY InWait DEF Sleep, At
<1>2. TypeOK /\ WordsOK /\ Unborn /\ Pointers /\ HeldKnown /\ Account /\ Sleepers
  BY DEF IInv
<1>3. /\ At(t, "wait") /\ DropHost(i)
      /\ sleeping' = [sleeping EXCEPT ![c] = @ \cup {t}]
      /\ call' = [call EXCEPT ![t].at = "asleep"]
      /\ word' = word /\ g_next_id' = g_next_id /\ items' = items /\ holds' = holds
  BY <1>1 DEF Sleep, registry
<1>4. /\ call'[t] = [call[t] EXCEPT !.at = "asleep"]
      /\ \A u \in Threads \ {t} : call'[u] = call[u]
      /\ call[t] \in Calls
  BY <1>2, <1>3 DEF TypeOK
<1>5. /\ call'[t].at = "asleep" /\ call'[t].m = m /\ call'[t].mu = i
      /\ call'[t].c = call[t].c /\ call'[t].cv = c
  BY <1>1, <1>4 DEF Calls
<1>6. Held(t, m) = holds[t][m] /\ Held(t, m)' = holds[t][m] - 1
  BY <1>1, <1>3, <1>5 DEF Held, GivenBack, At
<1>7. owner[i] = t /\ depth[i] = holds[t][m]
  BY <1>1, <1>2, <1>6 DEF Account
<1>8. TypeOK'
  <2>1. call' \in [Threads -> Calls]
    BY <1>2, <1>3, <1>4, CallMoves DEF TypeOK
  <2>2. owner' \in [Ids -> Threads \cup {NoThread}] /\ depth' \in [Ids -> Nat]
    BY <1>1, <1>2, <1>3, <1>7 DEF TypeOK, DropHost
  <2>3. sleeping' \in [Ids -> SUBSET Threads]
    BY <1>2, <1>3 DEF TypeOK
  <2> QED
    BY <1>2, <1>3, <2>1, <2>2, <2>3 DEF TypeOK
<1>9. WordsOK' /\ HeldKnown'
  BY <1>2, <1>3 DEF WordsOK, HeldKnown
<1>10. Unborn'
  BY <1>1, <1>2, <1>3 DEF Unborn, DropHost, TypeOK, Ids
<1>11. Pointers'
  BY <1>1, <1>2, <1>3, <1>4, <1>5, GuestMutexAssumption
     DEF Pointers, PointersOK, At, Idle, Ptr, MutexSteps, CondSteps, HoldingSteps, Ids, Null
<1>12. Account'
  <2>1. \A u \in Threads, y \in Mutexes : u # t \/ y # m => Held(u, y)' = Held(u, y)
    BY <1>1, <1>2, <1>3, <1>4, <1>5, HeldElsewhere
  <2>2. PICK h \in Nat : h = holds[t][m] - 1
    BY <1>1, <1>2 DEF TypeOK
  <2>3. /\ owner' = [owner EXCEPT ![i] = IF h > 0 THEN t ELSE NoThread]
        /\ depth' = [depth EXCEPT ![i] = h]
    <3>1. (IF depth[i] = 1 THEN NoThread ELSE owner[i]) = (IF h > 0 THEN t ELSE NoThread)
      BY <1>2, <1>7, <2>2 DEF TypeOK
    <3>2. depth[i] - 1 = h
      BY <1>7, <2>2
    <3> QED
      BY <1>3, <1>7, <2>2, <3>1, <3>2 DEF DropHost
  <2>4. Held(t, m)' = h /\ owner[i] \in {NoThread, t}
    BY <1>6, <1>7, <2>2
  <2> QED
    BY <1>1, <1>3, <2>1, <2>3, <2>4, AccountMoves
<1>13. Sleepers'
  BY <1>1, <1>2, <1>3, <1>4, <1>5 DEF Sleepers, At, TypeOK
<1> QED
  BY <1>8, <1>9, <1>10, <1>11, <1>12, <1>13 DEF IInv

(* A wake-up nobody asked for leaves the sleepers.                         *)
LEMMA WakeUnaskedOK ==
  ASSUME IInv, NEW t \in Threads, WakeUnasked(t)
  PROVE  IInv'
<1>1. PICK m \in Mutexes, i \in Ids, c \in Ids :
        /\ call[t].m = m /\ call[t].mu = i /\ word[m] = i /\ i < g_next_id
        /\ call[t].cv = c /\ c < g_next_id
        /\ holds[t][m] > 0
  BY InWait DEF WakeUnasked, At
<1>2. TypeOK /\ WordsOK /\ Unborn /\ Pointers /\ HeldKnown /\ Account /\ Sleepers
  BY DEF IInv
<1>3. /\ At(t, "asleep")
      /\ sleeping' = [sleeping EXCEPT ![c] = @ \ {t}]
      /\ call' = [call EXCEPT ![t].at = "relock"]
      /\ word' = word /\ g_next_id' = g_next_id /\ items' = items
      /\ owner' = owner /\ depth' = depth /\ holds' = holds
  BY <1>1 DEF WakeUnasked, registry
<1>4. /\ \A u \in Threads \ {t} : call'[u] = call[u]
      /\ call'[t].at = "relock" /\ call'[t].m = m /\ call'[t].mu = i
      /\ call'[t].c = call[t].c /\ call'[t].cv = c
  BY <1>1, <1>2, <1>3 DEF TypeOK, Calls
<1>5. TypeOK'
  BY <1>2, <1>3, CallMoves DEF TypeOK
<1>6. WordsOK' /\ HeldKnown'
  BY <1>2, <1>3 DEF WordsOK, HeldKnown
<1>7. Unborn'
  BY <1>2, <1>3 DEF Unborn, TypeOK, Ids
<1>8. Pointers'
  BY <1>1, <1>2, <1>3, <1>4
     DEF Pointers, PointersOK, At, Idle, Ptr, MutexSteps, CondSteps, HoldingSteps
<1>9. Account'
  <2>1. \A u \in Threads, y \in Mutexes : Held(u, y)' = Held(u, y)
    BY <1>1, <1>3, <1>4 DEF Held, GivenBack, At
  <2> QED
    BY <1>2, <1>3, <2>1, AccountStays
<1>10. Sleepers'
  BY <1>1, <1>2, <1>3, <1>4 DEF Sleepers, At, TypeOK
<1> QED
  BY <1>5, <1>6, <1>7, <1>8, <1>9, <1>10 DEF IInv

(* The wait takes its level back and returns.                              *)
LEMMA RelockOK ==
  ASSUME IInv, NEW t \in Threads, Relock(t)
  PROVE  IInv'
<1>1. PICK m \in Mutexes, i \in Ids :
        /\ call[t].m = m /\ call[t].mu = i /\ word[m] = i /\ i < g_next_id
        /\ holds[t][m] > 0
  BY InWait DEF Relock, At
<1>2. TypeOK /\ WordsOK /\ HeldKnown /\ Account
  BY DEF IInv
<1>3. /\ At(t, "relock") /\ TakeHost(i, t)
      /\ UNCHANGED <<registry, sleeping>>
      /\ call' = [call EXCEPT ![t] = NoCall] /\ holds' = holds
      /\ word' = word /\ g_next_id' = g_next_id /\ items' = items
  BY <1>1 DEF Relock, Return, registry
<1>4. TypeOK'
  BY <1>2, <1>3 DEF TypeOK, TakeHost, NoCall, Calls
<1>5. HeldKnown'
  BY <1>2, <1>3 DEF HeldKnown
<1>6. Held(t, m) = holds[t][m] - 1 /\ Held(t, m)' = holds[t][m]
  BY <1>1, <1>2, <1>3, GuestMutexAssumption DEF Held, GivenBack, At, NoCall, TypeOK
<1>7. owner[i] \in {NoThread, t} /\ depth[i] = holds[t][m] - 1
  <2>1. CASE owner[i] = t
    BY <1>1, <1>2, <1>6, <2>1 DEF Account
  <2>2. CASE owner[i] = NoThread
    <3>1. depth[i] = 0 /\ ~(Held(t, m) > 0)
      BY <1>1, <1>2, <2>2, GuestMutexAssumption DEF Account
    <3> QED
      BY <1>1, <1>2, <1>6, <2>2, <3>1 DEF TypeOK
  <2> QED
    BY <1>3, <2>1, <2>2 DEF TakeHost
<1>8. Account'
  <2>1. \A u \in Threads, y \in Mutexes : u # t \/ y # m => Held(u, y)' = Held(u, y)
    BY <1>1, <1>2, <1>3, HeldElsewhere DEF TypeOK, NoCall
  <2>2. PICK h \in Nat : h = holds[t][m] /\ h > 0
    BY <1>1, <1>2 DEF TypeOK
  <2>3. owner' = [owner EXCEPT ![i] = IF h > 0 THEN t ELSE NoThread]
    BY <1>3, <2>2 DEF TakeHost
  <2>4. depth' = [depth EXCEPT ![i] = h]
    <3>1. depth[i] + 1 = h
      BY <1>1, <1>2, <1>7, <2>2 DEF TypeOK
    <3> QED
      BY <1>3, <3>1 DEF TakeHost
  <2> QED
    BY <1>1, <1>3, <1>6, <1>7, <2>1, <2>2, <2>3, <2>4, AccountMoves
<1>9. WordsOK' /\ Unborn' /\ Pointers' /\ Sleepers'
  <2>1. \A j \in Ids : j >= g_next_id => owner'[j] = owner[j] /\ depth'[j] = depth[j]
    BY <1>1, <1>2, <1>3 DEF TakeHost, TypeOK, Ids
  <2> QED
    BY <1>3, <2>1, MutexStepKeeps DEF At
<1> QED
  BY <1>4, <1>5, <1>8, <1>9 DEF IInv

(* A notification moves sleepers on to retaking their mutex.               *)
LEMMA NotifyOK ==
  ASSUME IInv, NEW t \in Threads, Notify(t)
  PROVE  IInv'
<1>1. TypeOK /\ WordsOK /\ Unborn /\ Pointers /\ HeldKnown /\ Account /\ Sleepers
  BY DEF IInv
<1>2. PICK c \in Ids : c = call[t].cv
  <2>1. call[t].c \in Conds /\ word[call[t].c] # 0 /\ call[t].cv = Ptr(call[t].c)
    BY <1>1 DEF Notify, Pointers, PointersOK, CondSteps
  <2> QED
    BY <1>1, <2>1 DEF WordsOK, Ptr, TypeOK, Objects
<1>3. PICK roused \in SUBSET sleeping[c] :
        /\ sleeping' = [sleeping EXCEPT ![c] = @ \ roused]
        /\ call' = [u \in Threads |->
                      IF u = t THEN NoCall
                      ELSE IF u \in roused THEN [call[u] EXCEPT !.at = "relock"]
                      ELSE call[u]]
  <2> DEFINE Picks == IF At(t, "broadcast") \/ sleeping[c] = {} THEN {sleeping[c]}
                      ELSE {{u} : u \in sleeping[c]}
  <2>1. \A roused \in Picks : roused \in SUBSET sleeping[c]
    OBVIOUS
  <2>2. \E roused \in Picks :
          /\ sleeping' = [sleeping EXCEPT ![c] = @ \ roused]
          /\ call' = [u \in Threads |->
                        IF u = t THEN NoCall
                        ELSE IF u \in roused THEN [call[u] EXCEPT !.at = "relock"]
                        ELSE call[u]]
    BY <1>2 DEF Notify
  <2> HIDE DEF Picks
  <2> QED
    BY <2>1, <2>2
<1>4. /\ word' = word /\ g_next_id' = g_next_id /\ items' = items
      /\ owner' = owner /\ depth' = depth /\ holds' = holds
  BY DEF Notify, registry
<1>5. \A u \in roused : u \in Threads /\ At(u, "asleep") /\ call[u].cv = c /\ u # t
  BY <1>1, <1>3 DEF Sleepers, TypeOK, Notify, At
<1>6. /\ call'[t] = NoCall
      /\ \A u \in Threads \ {t} :
           /\ call'[u].m = call[u].m /\ call'[u].mu = call[u].mu
           /\ call'[u].c = call[u].c /\ call'[u].cv = call[u].cv
           /\ call'[u].at = IF u \in roused THEN "relock" ELSE call[u].at
           /\ u \notin roused => call'[u] = call[u]
  BY <1>1, <1>3 DEF TypeOK, Calls
<1>7. TypeOK'
  <2>1. call' \in [Threads -> Calls]
    <3>1. NoCall \in Calls
      BY DEF NoCall, Calls
    <3>2. \A u \in Threads : call[u] \in Calls /\ [call[u] EXCEPT !.at = "relock"] \in Calls
      BY <1>1, CallMoves DEF TypeOK
    <3> QED
      BY <1>3, <3>1, <3>2
  <2>2. sleeping' \in [Ids -> SUBSET Threads]
    BY <1>1, <1>3 DEF TypeOK
  <2> QED
    BY <1>1, <1>4, <2>1, <2>2 DEF TypeOK
<1>8. WordsOK' /\ HeldKnown'
  BY <1>1, <1>4 DEF WordsOK, HeldKnown
<1>9. Unborn'
  BY <1>1, <1>3, <1>4 DEF Unborn, TypeOK, Ids
<1>10. Pointers'
  <2>1. PointersOK(t)'
    BY <1>6 DEF PointersOK, At, Idle, NoCall, MutexSteps, CondSteps, HoldingSteps
  <2>2. ASSUME NEW u \in Threads \ {t} PROVE PointersOK(u)'
    <3>1. PointersOK(u)
      BY <1>1 DEF Pointers
    <3>2. CASE u \in roused
      BY <1>4, <1>5, <1>6, <3>1, <3>2
         DEF PointersOK, At, Ptr, MutexSteps, CondSteps, HoldingSteps
    <3>3. CASE u \notin roused
      BY <1>4, <1>6, <3>1, <3>3 DEF PointersOK, At, Idle, Ptr
    <3> QED
      BY <3>2, <3>3
  <2> QED
    BY <2>1, <2>2 DEF Pointers
<1>11. Account'
  <2>1. \A u \in Threads, y \in Mutexes : Held(u, y)' = Held(u, y)
    BY <1>4, <1>5, <1>6, GuestMutexAssumption DEF Held, GivenBack, At, Notify, NoCall
  <2> QED
    BY <1>1, <1>4, <2>1, AccountStays
<1>12. Sleepers'
  BY <1>1, <1>3, <1>5, <1>6 DEF Sleepers, At, TypeOK, NoCall, Notify
<1> QED
  BY <1>7, <1>8, <1>9, <1>10, <1>11, <1>12 DEF IInv

(* Nothing happens.                                                        *)
LEMMA StutterOK ==
  ASSUME IInv, UNCHANGED vars
  PROVE  IInv'
<1>1. /\ word' = word /\ g_next_id' = g_next_id /\ items' = items /\ call' = call
      /\ owner' = owner /\ depth' = depth /\ sleeping' = sleeping /\ holds' = holds
  BY DEF vars, registry, host
<1> QED
  BY <1>1 DEF IInv, TypeOK, WordsOK, Unborn, Pointers, PointersOK, HeldKnown, Account,
              Sleepers, At, Idle, Ptr, Held, GivenBack

(* The inductive invariant holds in every reachable state.                 *)
THEOREM Invariance == Spec => []IInv
<1>1. IInv /\ [Next]_vars => IInv'
  <2> SUFFICES ASSUME IInv, [Next]_vars PROVE IInv'
    OBVIOUS
  <2>1. ASSUME NEW t \in Threads, Call(t) PROVE IInv'
    BY <2>1, InitObjectOK, DestroyObjectOK, CallMutexOK, CallNotifyOK, CallWaitOK DEF Call
  <2>2. ASSUME NEW t \in Threads, Step(t) PROVE IInv'
    BY <2>2, LockOK, TrylockOK, UnlockOK, WaitMutexOK, WaitRefusedOK, SleepOK,
       WakeUnaskedOK, RelockOK, NotifyOK DEF Step
  <2> QED
    BY <2>1, <2>2, StutterOK DEF Next
<1> QED
  BY InitIInv, <1>1, PTL DEF Spec

-----------------------------------------------------------------------------
(* Every variable keeps its type, the depth of a host mutex and the guest's
   own count of locks among them: neither is ever taken below zero.        *)
THEOREM Typing == Spec => []TypeOK
<1>1. IInv => TypeOK
  BY DEF IInv
<1> QED
  BY <1>1, Invariance, PTL

(* The host's account of a mutex and the guest's agree to the level, so no
   unlock or wait leaves a mutex owned by a thread that has finished with
   it (MutexUnlock, CondWait).                                             *)
THEOREM Agreement == Spec => []HostAgrees
<1>1. IInv => HostAgrees
  BY DEF IInv, HostAgrees, Account, TypeOK
<1> QED
  BY <1>1, Invariance, PTL

(* No two threads are told they have the same mutex (MutexLock,
   MutexTrylock, CondWait).                                                *)
THEOREM Exclusion == Spec => []MutualExclusion
<1>1. ASSUME IInv, NEW x \in Mutexes, word[x] # Foreign,
             NEW t \in Threads, NEW u \in Threads, Held(t, x) > 0, Held(u, x) > 0
      PROVE  t = u
  <2>1. Account /\ HeldKnown /\ TypeOK
    BY <1>1 DEF IInv
  <2>2. holds[t][x] > 0
    BY <1>1, <2>1 DEF Held, TypeOK
  <2>3. word[x] \in Ids
    BY <1>1, <2>1, <2>2 DEF HeldKnown, TypeOK, Objects
  <2> QED
    BY <1>1, <2>1, <2>3 DEF Account
<1>2. IInv => MutualExclusion
  BY <1>1 DEF MutualExclusion
<1> QED
  BY <1>2, Invariance, PTL

-----------------------------------------------------------------------------
(* Whoever has given up its mutex inside a wait is on the condition's list:
   while a thread is still to sleep, the host says it owns the mutex.      *)
LEMMA ReleasedSleeps ==
  ASSUME IInv, NEW t \in Threads, call[t].at \in {"signal", "broadcast"},
         NEW u \in Threads, Released(u, call[t].c)
  PROVE  /\ call[t].cv \in Ids /\ u # t
         /\ At(u, "asleep") /\ u \in sleeping[call[t].cv]
<1>1. PointersOK(t) /\ PointersOK(u) /\ TypeOK /\ WordsOK /\ Account /\ Sleepers
  BY DEF IInv, Pointers
<1>2. /\ call[u].c = call[t].c /\ call[u].at \in {"wait", "asleep"}
      /\ call[u].mu # Null /\ owner[call[u].mu] # u
  BY DEF Released
<1>3. call[t].c \in Conds /\ call[t].cv = Ptr(call[t].c) /\ word[call[t].c] # 0
  BY <1>1 DEF PointersOK, CondSteps
<1>4. call[t].cv \in Ids /\ call[u].cv = call[t].cv
  BY <1>1, <1>2, <1>3 DEF PointersOK, CondSteps, WordsOK, TypeOK, Ptr, Objects
<1>5. call[u].at # "wait"
  <2> SUFFICES ASSUME call[u].at = "wait" PROVE FALSE
    OBVIOUS
  <2>1. PICK m \in Mutexes : m = call[u].m
    BY <1>1 DEF PointersOK, HoldingSteps
  <2>2. word[m] = call[u].mu /\ word[m] \in Ids
    BY <1>2, <2>1, InMutexCall DEF MutexSteps
  <2>3. holds[u][m] > 0 /\ Held(u, m) = holds[u][m]
    BY <1>1, <2>1 DEF PointersOK, HoldingSteps, Held, GivenBack
  <2> QED
    BY <1>1, <1>2, <2>2, <2>3 DEF Account
<1> QED
  BY <1>1, <1>2, <1>4, <1>5 DEF Sleepers, At

(* No step but its own ends the call of a thread that notifies.            *)
LEMMA OnlyNotifyReturns ==
  ASSUME IInv, Next, NEW t \in Threads, call[t].at \in {"signal", "broadcast"}, Idle(t)'
  PROVE  Notify(t)
<1>1. call[t] # NoCall /\ call'[t] = NoCall /\ TypeOK
  BY DEF NoCall, Idle, IInv
<1>2. ASSUME NEW u \in Threads, Call(u) PROVE FALSE
  <2>1. Idle(u) /\ (call' = call \/ \E k : call' = [call EXCEPT ![u] = k])
    BY <1>2 DEF Call, InitObject, DestroyObject, CallMutex, CallNotify, CallWait
  <2> QED
    BY <1>1, <2>1 DEF Idle, TypeOK
<1>3. ASSUME NEW u \in Threads, Step(u), ~Notify(u) PROVE FALSE
  <2>1. /\ \E k : call' = [call EXCEPT ![u] = k]
        /\ call[u].at \notin {"signal", "broadcast"}
    <3>1. CASE Lock(u) \/ Trylock(u) \/ Unlock(u) \/ WaitRefused(u) \/ Relock(u)
      BY <3>1 DEF Lock, Trylock, Unlock, WaitRefused, Relock, At, Return
    <3>2. CASE WaitMutex(u) \/ Sleep(u) \/ WakeUnasked(u)
      BY <3>2, <1>1 DEF WaitMutex, Sleep, WakeUnasked, At, TypeOK
    <3> QED
      BY <1>3, <3>1, <3>2 DEF Step
  <2> QED
    BY <1>1, <2>1 DEF TypeOK
<1>4. ASSUME NEW u \in Threads, Notify(u), u # t PROVE FALSE
  <2>1. call'[t] = call[t] \/ call'[t].at = "relock"
    BY <1>1, <1>4 DEF Notify, TypeOK, Calls
  <2> QED
    BY <1>1, <2>1 DEF NoCall
<1> QED
  BY <1>2, <1>3, <1>4 DEF Next

(* A notification is never lost: a thread that has given its mutex back in
   CondWait is there for the next signal, and all are for a broadcast.     *)
THEOREM WakesTheReleased == Spec => NoLostWakeup
<1> DEFINE Woken ==
      \A t \in Threads :
        /\ At(t, "signal") /\ Idle(t)' /\ (\E u \in Threads : Released(u, call[t].c))
             => \E u \in Threads : Leaves(u)
        /\ At(t, "broadcast") /\ Idle(t)'
             => \A u \in Threads : Released(u, call[t].c) => Leaves(u)
<1>1. IInv /\ [Next]_vars => [Woken]_vars
  <2> SUFFICES ASSUME IInv, Next, NEW t \in Threads, call[t].at \in {"signal", "broadcast"},
                      Idle(t)', NEW u \in Threads, Released(u, call[t].c)
               PROVE  /\ \E v \in Threads : Leaves(v)
                      /\ At(t, "broadcast") => Leaves(u)
    BY DEF At
  <2>1. /\ call[t].cv \in Ids /\ u # t /\ At(u, "asleep") /\ u \in sleeping[call[t].cv]
        /\ Notify(t) /\ TypeOK
    BY ReleasedSleeps, OnlyNotifyReturns DEF IInv
  <2> DEFINE on == sleeping[call[t].cv]
  <2>2. PICK roused \in (IF At(t, "broadcast") \/ on = {} THEN {on} ELSE {{v} : v \in on}) :
          call' = [v \in Threads |->
                     IF v = t THEN NoCall
                     ELSE IF v \in roused THEN [call[v] EXCEPT !.at = "relock"]
                     ELSE call[v]]
    BY <2>1 DEF Notify
  <2>3. \A v \in roused : v \in on /\ v \in Threads /\ At(v, "asleep")
    BY <2>1, <2>2 DEF IInv, Sleepers, TypeOK
  <2>4. \A v \in roused : Leaves(v)
    BY <2>1, <2>2, <2>3 DEF Leaves, At, NoCall, TypeOK, Calls
  <2>5. /\ \E v \in roused : TRUE
        /\ At(t, "broadcast") => u \in roused
    BY <2>1, <2>2
  <2> QED
    BY <2>3, <2>4, <2>5
<1> QED
  BY <1>1, Invariance, PTL DEF Spec, NoLostWakeup

-----------------------------------------------------------------------------
(* The monitor as the mapping of GuestMutex shows it.                      *)
Holder == [x \in Mutexes |-> HostOf(x, owner, NoThread)]
Level == [x \in Mutexes |-> HostOf(x, depth, 0)]
Waiting == [x \in Conds |-> HostOf(x, sleeping, {})]
Seen == <<Holder, Level, Waiting>>

(* A word names an object, and no other word does.                         *)
LEMMA Named ==
  ASSUME IInv, NEW x \in Objects, word[x] \in Ids
  PROVE  word[x] \in items /\ \A y \in Objects : word[y] = word[x] => y = x
  BY DEF IInv, WordsOK

(* An object that nobody uses looks like a new one.                        *)
LEMMA UnusedLooksNew ==
  ASSUME IInv, NEW x \in Objects, Unused(x)
  PROVE  /\ HostOf(x, sleeping, {}) = {}
         /\ x \in Mutexes => HostOf(x, owner, NoThread) = NoThread /\ HostOf(x, depth, 0) = 0
<1>1. TypeOK /\ WordsOK /\ Pointers /\ Account /\ Sleepers
  BY DEF IInv
<1>2. CASE word[x] \notin items
  BY <1>2 DEF HostOf
<1>3. CASE word[x] \in items
  <2>1. word[x] \in Ids
    BY <1>1, <1>3 DEF TypeOK
  <2>2. ASSUME x \in Mutexes PROVE owner[word[x]] = NoThread /\ depth[word[x]] = 0
    <3>1. \A t \in Threads : ~(Held(t, x) > 0)
      BY <1>1, <2>2 DEF Unused, Held, GivenBack, TypeOK
    <3>2. owner[word[x]] \in Threads \cup {NoThread}
      BY <1>1, <2>1 DEF TypeOK
    <3> QED
      BY <1>1, <2>1, <2>2, <3>1, <3>2 DEF Account
  <2>3. ASSUME NEW t \in sleeping[word[x]] PROVE FALSE
    <3>1. t \in Threads /\ At(t, "asleep") /\ call[t].cv = word[x] /\ PointersOK(t)
      BY <1>1, <2>1 DEF Sleepers, TypeOK, Pointers
    <3>2. call[t].c \in Objects /\ word[call[t].c] = word[x]
      BY <1>1, <2>1, <3>1, GuestMutexAssumption
         DEF PointersOK, CondSteps, At, Ptr, Ids, Null, Objects, WordsOK
    <3> QED
      BY <2>1, <3>1, <3>2, Named DEF Unused
  <2> QED
    BY <1>3, <2>1, <2>2, <2>3, Named DEF HostOf
<1> QED
  BY <1>2, <1>3

(* Nor does the monitor see an id that is handed out for the first time.   *)
LEMMA NewLooksNew ==
  ASSUME IInv, NEW x \in Objects, NewObject(x), UNCHANGED host,
         HostOf(x, sleeping, {}) = {},
         x \in Mutexes => HostOf(x, owner, NoThread) = NoThread /\ HostOf(x, depth, 0) = 0
  PROVE  Seen' = Seen
<1>1. /\ g_next_id \in Ids /\ word'[x] = g_next_id
      /\ \A y \in Objects \ {x} : word'[y] = word[y]
  BY NewObjectOK
<1>2. /\ items' = items \cup {g_next_id}
      /\ owner' = owner /\ depth' = depth /\ sleeping' = sleeping
  BY DEF NewObject, host
<1>3. owner[g_next_id] = NoThread /\ depth[g_next_id] = 0 /\ sleeping[g_next_id] = {}
  BY <1>1 DEF IInv, Unborn, TypeOK, Ids
<1>4. \A y \in Objects : word[y] # g_next_id
  BY <1>1 DEF IInv, WordsOK, Ids
<1>5. ASSUME NEW y \in Objects
      PROVE  /\ HostOf(y, sleeping, {})' = HostOf(y, sleeping, {})
             /\ y \in Mutexes => /\ HostOf(y, owner, NoThread)' = HostOf(y, owner, NoThread)
                                 /\ HostOf(y, depth, 0)' = HostOf(y, depth, 0)
  <2>1. CASE y = x
    BY <1>1, <1>2, <1>3, <2>1 DEF HostOf
  <2>2. CASE y # x
    BY <1>1, <1>2, <1>4, <2>2 DEF HostOf
  <2> QED
    BY <2>1, <2>2
<1> QED
  BY <1>5 DEF Seen, Holder, Level, Waiting, Objects

(* The steps that only look an object up leave the monitor as it is.       *)
LEMMA ObtainUnseen ==
  ASSUME IInv, NEW x \in Objects, NEW id, Obtain(x, id), UNCHANGED host
  PROVE  Seen' = Seen
<1>1. CASE word[x] = 0 /\ NewObject(x)
  <2>1. 0 \notin items
    BY DEF IInv, TypeOK, Ids
  <2> QED
    BY <1>1, <2>1, NewLooksNew DEF HostOf
<1>2. CASE UNCHANGED registry
  BY <1>2 DEF registry, host, Seen, Holder, Level, Waiting, HostOf
<1> QED
  BY <1>1, <1>2 DEF Obtain

(* A step of one host mutex is a step of one mutex of the monitor: of its
   holder ...                                                              *)
LEMMA SeenHolder ==
  ASSUME IInv, NEW m \in Mutexes, NEW i \in Ids, word[m] = i, UNCHANGED registry,
         NEW a, owner' = [owner EXCEPT ![i] = a]
  PROVE  Holder[m] = owner[i] /\ Holder' = [Holder EXCEPT ![m] = a]
<1>1. word' = word /\ items' = items /\ TypeOK
  BY DEF registry, IInv
<1>2. i \in items /\ \A y \in Mutexes : word[y] = i => y = m
  BY Named DEF Objects
<1>3. \A y \in Mutexes : word[y] \in items => word[y] \in Ids
  BY <1>1 DEF TypeOK
<1>4. ASSUME NEW y \in Mutexes
      PROVE  HostOf(y, owner, NoThread)' = IF y = m THEN a ELSE HostOf(y, owner, NoThread)
  BY <1>1, <1>2, <1>3 DEF HostOf, TypeOK
<1>5. Holder[m] = owner[i]
  BY <1>2 DEF Holder, HostOf
<1>6. Holder' = [Holder EXCEPT ![m] = a]
  BY <1>4 DEF Holder
<1> QED
  BY <1>5, <1>6

(* ... and of its level.                                                   *)
LEMMA SeenLevel ==
  ASSUME IInv, NEW m \in Mutexes, NEW i \in Ids, word[m] = i, UNCHANGED registry,
         NEW d, depth' = [depth EXCEPT ![i] = d]
  PROVE  Level[m] = depth[i] /\ Level' = [Level EXCEPT ![m] = d]
<1>1. word' = word /\ items' = items /\ TypeOK
  BY DEF registry, IInv
<1>2. i \in items /\ \A y \in Mutexes : word[y] = i => y = m
  BY Named DEF Objects
<1>3. \A y \in Mutexes : word[y] \in items => word[y] \in Ids
  BY <1>1 DEF TypeOK
<1>4. ASSUME NEW y \in Mutexes
      PROVE  HostOf(y, depth, 0)' = IF y = m THEN d ELSE HostOf(y, depth, 0)
  BY <1>1, <1>2, <1>3 DEF HostOf, TypeOK
<1>5. Level[m] = depth[i]
  BY <1>2 DEF Level, HostOf
<1>6. Level' = [Level EXCEPT ![m] = d]
  BY <1>4 DEF Level
<1> QED
  BY <1>5, <1>6

(* And a step of one host condition a step of one condition.               *)
LEMMA SeenCond ==
  ASSUME IInv, NEW c \in Conds, NEW i \in Ids, word[c] = i, UNCHANGED registry,
         NEW S, sleeping' = [sleeping EXCEPT ![i] = S]
  PROVE  Waiting[c] = sleeping[i] /\ Waiting' = [Waiting EXCEPT ![c] = S]
<1>1. word' = word /\ items' = items /\ TypeOK
  BY DEF registry, IInv
<1>2. i \in items /\ \A y \in Conds : word[y] = i => y = c
  BY Named DEF Objects
<1>3. \A y \in Conds : word[y] \in items => word[y] \in Ids
  BY <1>1 DEF TypeOK
<1>4. ASSUME NEW y \in Conds
      PROVE  HostOf(y, sleeping, {})' = IF y = c THEN S ELSE HostOf(y, sleeping, {})
  BY <1>1, <1>2, <1>3 DEF HostOf, TypeOK
<1>5. Waiting[c] = sleeping[i]
  BY <1>2 DEF Waiting, HostOf
<1>6. Waiting' = [Waiting EXCEPT ![c] = S]
  BY <1>4 DEF Waiting
<1> QED
  BY <1>5, <1>6

(* What the calls that use a mutex do to the monitor.                      *)
LEMMA TakeIsAcquire ==
  ASSUME IInv, NEW t \in Threads, call[t].at \in {"lock", "trylock", "relock"},
         call[t].mu # Null, TakeHost(call[t].mu, t), UNCHANGED <<registry, sleeping>>
  PROVE  AM!Next
<1>1. PICK m \in Mutexes, i \in Ids : m = call[t].m /\ word[m] = i /\ i = call[t].mu
  BY InMutexCall DEF MutexSteps
<1>2. /\ owner[i] \in {NoThread, t} /\ owner' = [owner EXCEPT ![i] = t]
      /\ depth' = [depth EXCEPT ![i] = depth[i] + 1]
  BY <1>1 DEF TakeHost
<1>3. PICK d : d = depth[i] + 1
  OBVIOUS
<1>4. /\ Holder[m] = owner[i] /\ Level[m] = depth[i]
      /\ Holder' = [Holder EXCEPT ![m] = t] /\ Level' = [Level EXCEPT ![m] = d]
  <2>1. word[m] = i /\ UNCHANGED registry /\ depth' = [depth EXCEPT ![i] = d]
    BY <1>1, <1>2, <1>3
  <2>2. Holder[m] = owner[i] /\ Holder' = [Holder EXCEPT ![m] = t]
    BY <1>2, <2>1, SeenHolder
  <2>3. Level[m] = depth[i] /\ Level' = [Level EXCEPT ![m] = d]
    BY <2>1, SeenLevel
  <2> QED
    BY <2>2, <2>3
<1>5. Waiting' = Waiting
  BY DEF Waiting, HostOf, registry
<1>6. AM!Acquire(t, m)
  BY <1>2, <1>3, <1>4, <1>5 DEF AM!Acquire, Holder, Level, Waiting
<1> QED
  BY <1>6 DEF AM!Next

(* unlock(), and the release inside a wait.                                *)
LEMMA DropGivesBack ==
  ASSUME IInv, NEW t \in Threads, call[t].at \in {"unlock", "wait"},
         call[t].mu # Null, DropHost(call[t].mu), UNCHANGED registry
  PROVE  \E m \in Mutexes : AM!GiveBack(t, m)
<1>1. PICK m \in Mutexes, i \in Ids : m = call[t].m /\ word[m] = i /\ i = call[t].mu
  BY InMutexCall DEF MutexSteps
<1>2. owner[i] = t
  <2>1. holds[t][m] > 0 /\ Held(t, m) = holds[t][m]
    BY <1>1 DEF IInv, Pointers, PointersOK, HoldingSteps, Held, GivenBack
  <2> QED
    BY <1>1, <2>1 DEF IInv, Account
<1>3. PICK a, d : a = (IF depth[i] = 1 THEN NoThread ELSE t) /\ d = depth[i] - 1
  OBVIOUS
<1>4. owner' = [owner EXCEPT ![i] = a] /\ depth' = [depth EXCEPT ![i] = d]
  BY <1>1, <1>2, <1>3 DEF DropHost
<1>5. /\ Holder[m] = owner[i] /\ Level[m] = depth[i]
      /\ Holder' = [Holder EXCEPT ![m] = a] /\ Level' = [Level EXCEPT ![m] = d]
  <2>1. word[m] = i
    BY <1>1
  <2>2. Holder[m] = owner[i] /\ Holder' = [Holder EXCEPT ![m] = a]
    BY <1>4, <2>1, SeenHolder
  <2>3. Level[m] = depth[i] /\ Level' = [Level EXCEPT ![m] = d]
    BY <1>4, <2>1, SeenLevel
  <2> QED
    BY <2>2, <2>3
<1>6. AM!GiveBack(t, m)
  BY <1>2, <1>3, <1>5 DEF AM!GiveBack, Holder, Level
<1> QED
  BY <1>6

(* The condition a thread waits on, or notifies.                           *)
LEMMA InCondCall ==
  ASSUME IInv, NEW t \in Threads, call[t].at \in CondSteps,
         call[t].at \in {"wait", "waitMutex"} => call[t].cv # Null
  PROVE  call[t].c \in Conds /\ word[call[t].c] \in Ids /\ call[t].cv = word[call[t].c]
  BY DEF IInv, Pointers, PointersOK, TypeOK, WordsOK, Ptr, Objects

(* Waking is what a notification and a time-out have in common.            *)
LEMMA FewerAreWoken ==
  ASSUME IInv, NEW c \in Conds, NEW i \in Ids, word[c] = i,
         UNCHANGED <<registry, owner, depth>>,
         NEW S \in SUBSET sleeping[i], sleeping' = [sleeping EXCEPT ![i] = S]
  PROVE  AM!Next
<1>1. Waiting[c] = sleeping[i] /\ Waiting' = [Waiting EXCEPT ![c] = S]
  BY SeenCond
<1>2. Holder' = Holder /\ Level' = Level
  BY DEF Holder, Level, HostOf, registry
<1>3. AM!Wake(c)
  BY <1>1, <1>2 DEF AM!Wake, Holder, Level, Waiting
<1> QED
  BY <1>3 DEF AM!Next

(* Mutexes and conditions, behind ids, raw pointers and lazy creation, are
   monitors in which a wait releases and joins the waiters at once.        *)
THEOREM Refinement == Spec => Monitor
<1>1. Init => AM!Init
  <2> SUFFICES ASSUME Init PROVE AM!Init
    OBVIOUS
  <2>1. items = {}
    BY DEF Init
  <2> QED
    BY <2>1 DEF AM!Init, HostOf
<1>2. ASSUME IInv, NEW t \in Threads, Call(t) PROVE Seen' = Seen
  <2>1. ASSUME NEW x \in Objects, InitObject(t, x) PROVE Seen' = Seen
    BY <1>2, <2>1, UnusedLooksNew, NewLooksNew DEF InitObject
  <2>2. ASSUME NEW x \in Objects, DestroyObject(t, x) PROVE Seen' = Seen
    <3>1. /\ items' = items \ {word[x]} /\ word' = [word EXCEPT ![x] = 0]
          /\ owner' = owner /\ depth' = depth /\ sleeping' = sleeping
      BY <2>2 DEF DestroyObject, host
    <3>2. 0 \notin items /\ word \in [Objects -> {0, Foreign} \cup Ids] /\ items \subseteq Ids
      BY <1>2 DEF IInv, TypeOK, Ids
    <3>3. ASSUME NEW y \in Objects, y # x
          PROVE  /\ HostOf(y, sleeping, {})' = HostOf(y, sleeping, {})
                 /\ HostOf(y, owner, NoThread)' = HostOf(y, owner, NoThread)
                 /\ HostOf(y, depth, 0)' = HostOf(y, depth, 0)
      <4>1. word'[y] = word[y] /\ (word[y] \in items => word[y] # word[x])
        BY <1>2, <3>1, <3>2, <3>3, Named
      <4> QED
        BY <3>1, <4>1 DEF HostOf
    <3>4. /\ HostOf(x, sleeping, {})' = {}
          /\ HostOf(x, owner, NoThread)' = NoThread /\ HostOf(x, depth, 0)' = 0
      BY <3>1, <3>2 DEF HostOf
    <3>5. /\ HostOf(x, sleeping, {}) = {}
          /\ x \in Mutexes => HostOf(x, owner, NoThread) = NoThread /\ HostOf(x, depth, 0) = 0
      BY <1>2, <2>2, UnusedLooksNew DEF DestroyObject
    <3>6. ASSUME NEW y \in Objects
          PROVE  /\ HostOf(y, sleeping, {})' = HostOf(y, sleeping, {})
                 /\ y \in Mutexes => /\ HostOf(y, owner, NoThread)' = HostOf(y, owner, NoThread)
                                     /\ HostOf(y, depth, 0)' = HostOf(y, depth, 0)
      BY <3>3, <3>4, <3>5
    <3> QED
      BY <3>6 DEF Seen, Holder, Level, Waiting, Objects
  <2>3. CASE \E x \in Objects, id \in {Null} \cup Ids : Obtain(x, id) /\ UNCHANGED host
    BY <1>2, <2>3, ObtainUnseen
  <2> QED
    BY <1>2, <2>1, <2>2, <2>3 DEF Call, CallMutex, CallNotify, CallWait, Objects
<1>3. ASSUME IInv, NEW t \in Threads, Step(t) PROVE AM!Next \/ Seen' = Seen
  <2>1. CASE UNCHANGED <<registry, host>>
    BY <2>1 DEF registry, host, Seen, Holder, Level, Waiting, HostOf
  <2>2. CASE Lock(t) \/ Trylock(t) \/ Relock(t)
    <3>1. CASE UNCHANGED <<owner, depth>>
      BY <2>1, <2>2, <3>1 DEF Lock, Trylock, Relock, host
    <3>2. CASE call[t].mu # Null /\ TakeHost(call[t].mu, t)
      BY <1>3, <2>2, <3>2, TakeIsAcquire DEF Lock, Trylock, Relock, At
    <3>3. CASE Relock(t)
      <4>1. call[t].mu # Null
        BY <1>3, <3>3 DEF Relock, At, IInv, Pointers, PointersOK
      <4> QED
        BY <3>2, <3>3, <4>1 DEF Relock
    <3> QED
      BY <2>2, <3>1, <3>2, <3>3 DEF Lock, Trylock
  <2>3. CASE Unlock(t)
    <3>1. CASE call[t].mu = Null
      BY <2>1, <2>3, <3>1 DEF Unlock, host
    <3>2. CASE call[t].mu # Null
      <4>1. PICK m \in Mutexes : AM!GiveBack(t, m)
        BY <1>3, <2>3, <3>2, DropGivesBack DEF Unlock, At
      <4>2. Waiting' = Waiting
        BY <2>3 DEF Unlock, registry, Waiting, HostOf
      <4>3. AM!Release(t, m)
        BY <4>1, <4>2 DEF AM!Release, Waiting
      <4> QED
        BY <4>3 DEF AM!Next
    <3> QED
      BY <3>1, <3>2
  <2>4. CASE WaitMutex(t)
    <3>1. PICK id : Obtain(call[t].m, id) /\ UNCHANGED host
      BY <2>4 DEF WaitMutex
    <3>2. call[t].m \in Objects
      BY <1>3, <2>4 DEF WaitMutex, At, IInv, Pointers, PointersOK, HoldingSteps, Objects
    <3> QED
      BY <1>3, <3>1, <3>2, ObtainUnseen
  <2>5. CASE Sleep(t)
    <3>1. PICK m \in Mutexes : AM!GiveBack(t, m)
      BY <1>3, <2>5, DropGivesBack DEF Sleep, At
    <3>2. PICK c \in Conds, i \in Ids : word[c] = i /\ call[t].cv = i
      BY <1>3, <2>5, InCondCall DEF Sleep, At, CondSteps
    <3> DEFINE S == sleeping[i] \cup {t}
    <3>3. sleeping' = [sleeping EXCEPT ![i] = S] /\ UNCHANGED registry
      BY <2>5, <3>2 DEF Sleep
    <3>4. Waiting[c] = sleeping[i] /\ Waiting' = [Waiting EXCEPT ![c] = S]
      BY <1>3, <3>2, <3>3, SeenCond
    <3>5. AM!Wait(t, m, c)
      BY <3>1, <3>4 DEF AM!Wait, Waiting
    <3> QED
      BY <3>5 DEF AM!Next
  <2>6. CASE WakeUnasked(t)
    <3>1. PICK c \in Conds, i \in Ids : word[c] = i /\ call[t].cv = i
      BY <1>3, <2>6, InCondCall DEF WakeUnasked, At, CondSteps
    <3> QED
      BY <1>3, <2>6, <3>1, FewerAreWoken DEF WakeUnasked
  <2>7. CASE Notify(t)
    <3>1. PICK c \in Conds, i \in Ids : word[c] = i /\ call[t].cv = i
      BY <1>3, <2>7, InCondCall DEF Notify, CondSteps
    <3>2. \E roused : sleeping' = [sleeping EXCEPT ![i] = @ \ roused]
      BY <2>7, <3>1 DEF Notify
    <3>3. UNCHANGED <<registry, owner, depth>>
      BY <2>7 DEF Notify
    <3> QED
      BY <1>3, <3>1, <3>2, <3>3, FewerAreWoken
  <2> QED
    BY <1>3, <2>1, <2>2, <2>3, <2>4, <2>5, <2>6, <2>7 DEF Step, WaitRefused
<1>4. IInv /\ [Next]_vars => [AM!Next]_(AM!vars)
  <2>1. Seen' = Seen => UNCHANGED AM!vars
    BY DEF Seen, Holder, Level, Waiting, AM!vars
  <2>2. UNCHANGED vars => Seen' = Seen
    BY DEF vars, registry, host, Seen, Holder, Level, Waiting, HostOf
  <2> QED
    BY <1>2, <1>3, <2>1, <2>2 DEF Next
<1> QED
  BY <1>1, <1>4, Invariance, PTL DEF Spec, Monitor, AM!Spec

-----------------------------------------------------------------------------
(* GuestRwlock.  As for mutexes, a pointer a call carries is the one its   *)
(* word still names, no two words name one object and a fresh object is    *)
(* free.  The list of a thread, the host lock and what the thread was told *)
(* then agree on every lock a word names.                                  *)
RwPtr(l) == IF rWord[l] = Foreign THEN 0 ELSE rWord[l]

RwWords ==
  /\ \A l \in Locks : rWord[l] \in Rwlock!Ids => rWord[l] \in rItems /\ rWord[l] < rNextId
  /\ \A l, m \in Locks : rWord[l] \in Rwlock!Ids /\ rWord[m] = rWord[l] => l = m

RwUnborn ==
  \A i \in Rwlock!Ids : i >= rNextId =>
    /\ writer[i] = NoThread /\ readers[i] = {}
    /\ \A t \in LockThreads : i \notin t_write_held[t]

RwPointerOK(t) ==
  /\ rCall[t].at = "guest" => Rwlock!Idle(t)
  /\ rCall[t].at # "guest" =>
       /\ rCall[t].l \in Locks /\ rWord[rCall[t].l] # 0
       /\ rCall[t].p = RwPtr(rCall[t].l)
       /\ rCall[t].at = "unlock" <=> mode[t][rCall[t].l] # "none"

RwPointers == \A t \in LockThreads : RwPointerOK(t)

RwKnown == \A t \in LockThreads, l \in Locks : mode[t][l] # "none" => rWord[l] # 0

RwAccount ==
  \A l \in Locks, t \in LockThreads : rWord[l] \in Rwlock!Ids =>
    /\ writer[rWord[l]] = t <=> mode[t][l] = "write"
    /\ rWord[l] \in t_write_held[t] <=> mode[t][l] = "write"
    /\ t \in readers[rWord[l]] <=> mode[t][l] = "read"

RwAlone == \A i \in Rwlock!Ids : writer[i] # NoThread => readers[i] = {}

RwInv ==
  /\ Rwlock!TypeOK
  /\ RwWords
  /\ RwUnborn
  /\ RwPointers
  /\ RwKnown
  /\ RwAccount
  /\ RwAlone

(* No lock is known to the registry and none is held.                      *)
LEMMA RwBegins == Rwlock!Init => RwInv
<1> SUFFICES ASSUME Rwlock!Init PROVE RwInv
  OBVIOUS
<1> USE ObjectsAssumption
    DEF Rwlock!RwlockAssumption, Rwlock!Init, Rwlock!Ids, Rwlock!NoCall, Rwlock!Null
<1>1. Rwlock!TypeOK
  <2>1. rNextId \in 1..(MaxId + 1) /\ rItems \subseteq Rwlock!Ids
    OBVIOUS
  <2>2. rWord \in [Locks -> {0, Foreign} \cup Rwlock!Ids]
    OBVIOUS
  <2>3. /\ writer \in [Rwlock!Ids -> LockThreads \cup {NoThread}]
        /\ readers \in [Rwlock!Ids -> SUBSET LockThreads]
        /\ t_write_held \in [LockThreads -> SUBSET Rwlock!Ids]
    OBVIOUS
  <2>4. rCall \in [LockThreads -> Rwlock!Calls]
    BY DEF Rwlock!Calls
  <2>5. mode \in [LockThreads -> [Locks -> {"none", "read", "write"}]]
    OBVIOUS
  <2> QED
    BY <2>1, <2>2, <2>3, <2>4, <2>5 DEF Rwlock!TypeOK
<1>2. RwWords
  <2>1. \A l \in Locks : rWord[l] \notin Rwlock!Ids
    OBVIOUS
  <2> QED
    BY <2>1 DEF RwWords
<1>3. RwUnborn /\ RwAlone
  BY DEF RwUnborn, RwAlone
<1>4. RwKnown
  BY DEF RwKnown
<1>5. RwPointers
  BY DEF RwPointers, RwPointerOK, Rwlock!Idle
<1>6. RwAccount
  BY DEF RwAccount
<1> QED
  BY <1>1, <1>2, <1>3, <1>4, <1>5, <1>6 DEF RwInv

(* What making an object does to the registry and to the words.            *)
LEMMA RwNewObject ==
  ASSUME RwInv, NEW l \in Locks, Rwlock!NewObject(l)
  PROVE  /\ RwWords' /\ rItems' \subseteq Rwlock!Ids
         /\ rWord' \in [Locks -> {0, Foreign} \cup Rwlock!Ids]
         /\ rNextId \in Rwlock!Ids /\ rNextId' = rNextId + 1
         /\ rWord'[l] = rNextId /\ \A m \in Locks \ {l} : rWord'[m] = rWord[m]
<1> USE ObjectsAssumption
    DEF Rwlock!RwlockAssumption, RwInv, Rwlock!TypeOK, Rwlock!NewObject, Rwlock!Ids
<1>1. rNextId \in Rwlock!Ids /\ rNextId' = rNextId + 1 /\ rItems' \subseteq Rwlock!Ids
  OBVIOUS
<1>2. /\ rWord' \in [Locks -> {0, Foreign} \cup Rwlock!Ids]
      /\ rWord'[l] = rNextId /\ \A m \in Locks \ {l} : rWord'[m] = rWord[m]
  BY <1>1
<1>3. \A m \in Locks : rWord'[m] \in Rwlock!Ids => rWord'[m] \in rItems' /\ rWord'[m] < rNextId'
  BY <1>1, <1>2 DEF RwWords
<1>4. \A m, n \in Locks : rWord'[m] \in Rwlock!Ids /\ rWord'[n] = rWord'[m] => m = n
  BY <1>1, <1>2 DEF RwWords
<1>5. RwWords'
  BY <1>3, <1>4 DEF RwWords
<1> QED
  BY <1>1, <1>2, <1>5

(* What Obtain does: the word is known afterwards and the answer is its    *)
(* object; no other word changes, and this one only if it was zero.        *)
LEMMA RwObtain ==
  ASSUME RwInv, NEW l \in Locks, NEW id, Rwlock!Obtain(l, id)
  PROVE  /\ RwWords' /\ rItems' \subseteq Rwlock!Ids
         /\ rWord' \in [Locks -> {0, Foreign} \cup Rwlock!Ids]
         /\ rNextId' \in 1..(MaxId + 1) /\ rNextId' >= rNextId
         /\ rWord'[l] # 0 /\ id = RwPtr(l)'
         /\ \A m \in Locks : rWord'[m] # rWord[m] =>
              rWord[m] = 0 /\ rWord'[m] = rNextId /\ rNextId \in Rwlock!Ids
<1> USE ObjectsAssumption DEF Rwlock!RwlockAssumption
<1>1. CASE rWord[l] = 0 /\ id = rNextId /\ Rwlock!NewObject(l)
  BY <1>1, RwNewObject DEF RwPtr, Rwlock!Ids, RwInv, Rwlock!TypeOK
<1>2. CASE /\ rWord[l] # 0
           /\ id = (IF rWord[l] \in rItems THEN rWord[l] ELSE Rwlock!Null)
           /\ UNCHANGED Rwlock!registry
  BY <1>2 DEF Rwlock!registry, RwPtr, Rwlock!Ids, Rwlock!Null, RwInv, Rwlock!TypeOK, RwWords
<1> QED
  BY <1>1, <1>2 DEF Rwlock!Obtain

(* New words leave every lock's account as it was: a word that changes     *)
(* names a fresh object that nobody has.                                   *)
LEMMA RwFreshAccount ==
  ASSUME RwInv, NEW t \in LockThreads,
         UNCHANGED <<writer, readers, t_write_held, mode>>,
         rWord' \in [Locks -> {0, Foreign} \cup Rwlock!Ids],
         rNextId' \in 1..(MaxId + 1), rNextId' >= rNextId,
         \A m \in Locks : rWord'[m] # rWord[m] =>
           /\ rWord'[m] # 0
           /\ rWord'[m] = rNextId /\ rNextId \in Rwlock!Ids
           /\ \A u \in LockThreads : mode[u][m] = "none"
  PROVE  RwUnborn' /\ RwKnown' /\ RwAccount' /\ RwAlone'
<1>1. RwUnborn' /\ RwAlone'
  BY DEF RwInv, RwUnborn, RwAlone, Rwlock!TypeOK, Rwlock!Ids
<1>2. RwKnown'
  BY DEF RwInv, RwKnown
<1>3. RwAccount'
  <2> SUFFICES ASSUME NEW m \in Locks, NEW u \in LockThreads, rWord'[m] \in Rwlock!Ids
               PROVE  /\ writer[rWord'[m]] = u <=> mode[u][m] = "write"
                      /\ rWord'[m] \in t_write_held[u] <=> mode[u][m] = "write"
                      /\ u \in readers[rWord'[m]] <=> mode[u][m] = "read"
    BY DEF RwAccount
  <2>1. CASE rWord'[m] = rWord[m]
    BY <2>1 DEF RwInv, RwAccount
  <2>2. CASE rWord'[m] # rWord[m]
    <3>1. /\ writer[rWord'[m]] = NoThread /\ readers[rWord'[m]] = {}
          /\ rWord'[m] \notin t_write_held[u]
      BY <2>2 DEF RwInv, RwUnborn, Rwlock!TypeOK, Rwlock!Ids
    <3>2. mode[u][m] = "none"
      BY <2>2
    <3> QED
      BY <3>1, <3>2, ObjectsAssumption DEF Rwlock!RwlockAssumption
  <2> QED
    BY <2>1, <2>2
<1> QED
  BY <1>1, <1>2, <1>3

(* RwlockInit, RwlockDestroy.                                              *)
LEMMA RwInitKeeps ==
  ASSUME RwInv, NEW t \in LockThreads, NEW l \in Locks, Rwlock!RwlockInit(t, l)
  PROVE  RwInv'
<1>1. /\ RwWords' /\ rItems' \subseteq Rwlock!Ids
      /\ rWord' \in [Locks -> {0, Foreign} \cup Rwlock!Ids]
      /\ rNextId \in Rwlock!Ids /\ rNextId' = rNextId + 1
      /\ rWord'[l] = rNextId /\ \A m \in Locks \ {l} : rWord'[m] = rWord[m]
  BY RwNewObject DEF Rwlock!RwlockInit
<1>2. /\ UNCHANGED <<writer, readers, t_write_held, rCall, mode>>
      /\ \A u \in LockThreads : rCall[u].l # l /\ mode[u][l] = "none"
  BY DEF Rwlock!RwlockInit, Rwlock!Unused
<1>3. rNextId' \in 1..(MaxId + 1) /\ rNextId' >= rNextId /\ rNextId # 0
  BY <1>1, ObjectsAssumption DEF Rwlock!RwlockAssumption, Rwlock!Ids
<1>4. RwUnborn' /\ RwKnown' /\ RwAccount' /\ RwAlone'
  BY <1>1, <1>2, <1>3, RwFreshAccount
<1>5. Rwlock!TypeOK'
  BY <1>1, <1>2, <1>3 DEF RwInv, Rwlock!TypeOK
<1>6. RwPointers'
  BY <1>1, <1>2 DEF RwInv, RwPointers, RwPointerOK, RwPtr, Rwlock!Idle
<1> QED
  BY <1>1, <1>4, <1>5, <1>6 DEF RwInv

(* pthread_rwlock_destroy of a lock nobody uses.                           *)
LEMMA RwDestroyKeeps ==
  ASSUME RwInv, NEW t \in LockThreads, NEW l \in Locks, Rwlock!RwlockDestroy(t, l)
  PROVE  RwInv'
<1> USE ObjectsAssumption DEF Rwlock!RwlockAssumption
<1>1. /\ rItems' = rItems \ {rWord[l]} /\ rWord' = [rWord EXCEPT ![l] = 0]
      /\ UNCHANGED <<rNextId, writer, readers, t_write_held, rCall, mode>>
      /\ \A u \in LockThreads : rCall[u].l # l /\ mode[u][l] = "none"
  BY DEF Rwlock!RwlockDestroy, Rwlock!Unused
<1>2. /\ rWord' \in [Locks -> {0, Foreign} \cup Rwlock!Ids] /\ rWord'[l] = 0
      /\ \A m \in Locks \ {l} : rWord'[m] = rWord[m]
  BY <1>1 DEF RwInv, Rwlock!TypeOK
<1>3. Rwlock!TypeOK'
  BY <1>1, <1>2 DEF RwInv, Rwlock!TypeOK
<1>4. RwWords'
  BY <1>1, <1>2 DEF RwInv, RwWords, Rwlock!Ids
<1>5. RwUnborn' /\ RwAlone'
  BY <1>1 DEF RwInv, RwUnborn, RwAlone
<1>6. RwPointers'
  BY <1>1, <1>2 DEF RwInv, RwPointers, RwPointerOK, RwPtr, Rwlock!Idle
<1>7. RwKnown'
  BY <1>1, <1>2 DEF RwInv, RwKnown
<1>8. RwAccount'
  BY <1>1, <1>2 DEF RwInv, RwAccount, Rwlock!Ids
<1> QED
  BY <1>3, <1>4, <1>5, <1>6, <1>7, <1>8 DEF RwInv

(* Obtaining the host lock leaves every other call's pointer as it was.    *)
LEMMA RwEnterKeeps ==
  ASSUME RwInv, NEW t \in LockThreads, NEW l \in Locks,
         NEW op \in {"rdlock", "wrlock", "unlock"}, Rwlock!Enter(t, l, op)
  PROVE  RwInv'
<1>1. PICK id \in {Rwlock!Null} \cup Rwlock!Ids :
        /\ Rwlock!Obtain(l, id)
        /\ rCall' = [rCall EXCEPT ![t] = [at |-> op, l |-> l, p |-> id]]
  BY DEF Rwlock!Enter
<1>2. /\ UNCHANGED <<writer, readers, t_write_held, mode>>
      /\ (op = "unlock") = (mode[t][l] # "none")
  BY DEF Rwlock!Enter
<1>3. /\ RwWords' /\ rItems' \subseteq Rwlock!Ids
      /\ rWord' \in [Locks -> {0, Foreign} \cup Rwlock!Ids]
      /\ rNextId' \in 1..(MaxId + 1) /\ rNextId' >= rNextId
      /\ rWord'[l] # 0 /\ id = RwPtr(l)'
      /\ \A m \in Locks : rWord'[m] # rWord[m] =>
           rWord[m] = 0 /\ rWord'[m] = rNextId /\ rNextId \in Rwlock!Ids
  BY <1>1, RwObtain
<1>4. \A m \in Locks : rWord'[m] # rWord[m] =>
        rWord'[m] # 0 /\ \A u \in LockThreads : mode[u][m] = "none"
  BY <1>3 DEF RwInv, RwKnown, Rwlock!TypeOK, Rwlock!Ids
<1>5. RwUnborn' /\ RwKnown' /\ RwAccount' /\ RwAlone'
  BY <1>2, <1>3, <1>4, RwFreshAccount
<1>6. /\ rCall' \in [LockThreads -> Rwlock!Calls]
      /\ rCall'[t] = [at |-> op, l |-> l, p |-> id]
      /\ \A u \in LockThreads \ {t} : rCall'[u] = rCall[u]
  BY <1>1 DEF RwInv, Rwlock!TypeOK, Rwlock!Calls
<1>7. Rwlock!TypeOK'
  BY <1>2, <1>3, <1>6 DEF RwInv, Rwlock!TypeOK
<1>8. RwPointers'
  <2> SUFFICES ASSUME NEW u \in LockThreads PROVE RwPointerOK(u)'
    BY DEF RwPointers
  <2>1. CASE u = t
    BY <1>2, <1>3, <1>6, <2>1 DEF RwPointerOK
  <2>2. CASE u # t
    BY <1>2, <1>3, <1>6, <2>2 DEF RwInv, RwPointers, RwPointerOK, RwPtr, Rwlock!Idle
  <2> QED
    BY <2>1, <2>2
<1> QED
  BY <1>3, <1>5, <1>7, <1>8 DEF RwInv

(* A call that returns: the registry and the other calls stay, and t has   *)
(* been told something new of its lock.                                    *)
LEMMA RwReturns ==
  ASSUME RwInv, NEW t \in LockThreads, ~Rwlock!At(t, "guest"),
         NEW new \in {"none", "read", "write"}, Rwlock!Return(t, new)
  PROVE  /\ RwWords' /\ RwPointers' /\ RwKnown'
         /\ UNCHANGED <<rNextId, rItems, rWord>>
         /\ rCall' \in [LockThreads -> Rwlock!Calls]
         /\ mode' \in [LockThreads -> [Locks -> {"none", "read", "write"}]]
         /\ rCall[t].l \in Locks /\ mode'[t][rCall[t].l] = new
         /\ \A u \in LockThreads, l \in Locks :
              u # t \/ l # rCall[t].l => mode'[u][l] = mode[u][l]
<1> DEFINE x == rCall[t].l
<1>1. x \in Locks /\ rWord[x] # 0
  BY DEF RwInv, RwPointers, RwPointerOK, Rwlock!At
<1>2. /\ UNCHANGED <<rNextId, rItems, rWord>>
      /\ rCall' = [rCall EXCEPT ![t] = Rwlock!NoCall]
      /\ mode' = [mode EXCEPT ![t][x] = new]
  BY DEF Rwlock!Return, Rwlock!registry
<1>3. Rwlock!NoCall \in Rwlock!Calls
  BY DEF Rwlock!NoCall, Rwlock!Calls
<1>4. /\ rCall' \in [LockThreads -> Rwlock!Calls] /\ rCall'[t] = Rwlock!NoCall
      /\ \A u \in LockThreads \ {t} : rCall'[u] = rCall[u]
  BY <1>2, <1>3 DEF RwInv, Rwlock!TypeOK
<1>5. /\ mode' \in [LockThreads -> [Locks -> {"none", "read", "write"}]]
      /\ mode'[t][x] = new
      /\ \A u \in LockThreads, l \in Locks : u # t \/ l # x => mode'[u][l] = mode[u][l]
  BY <1>1, <1>2 DEF RwInv, Rwlock!TypeOK
<1>6. RwWords'
  BY <1>2 DEF RwInv, RwWords
<1>7. RwKnown'
  BY <1>1, <1>2, <1>5 DEF RwInv, RwKnown
<1>8. RwPointers'
  <2> SUFFICES ASSUME NEW u \in LockThreads PROVE RwPointerOK(u)'
    BY DEF RwPointers
  <2>1. CASE u = t
    BY <1>4, <2>1 DEF RwPointerOK, Rwlock!NoCall, Rwlock!Idle
  <2>2. CASE u # t
    BY <1>2, <1>4, <1>5, <2>2 DEF RwInv, RwPointers, RwPointerOK, RwPtr, Rwlock!Idle
  <2> QED
    BY <2>1, <2>2
<1> QED
  BY <1>1, <1>2, <1>4, <1>5, <1>6, <1>7, <1>8

(* The pointer of a call that is not null is its lock's id, and of no      *)
(* other lock.                                                             *)
LEMMA RwPointsAt ==
  ASSUME RwInv, NEW t \in LockThreads, ~Rwlock!At(t, "guest")
  PROVE  /\ rCall[t].p # 0 => /\ rCall[t].p \in Rwlock!Ids
                              /\ rCall[t].p = rWord[rCall[t].l]
                              /\ rCall[t].p < rNextId
                              /\ \A l \in Locks : rWord[l] = rCall[t].p => l = rCall[t].l
         /\ rCall[t].p = 0 => rWord[rCall[t].l] = Foreign
<1>1. /\ rCall[t].l \in Locks /\ rWord[rCall[t].l] # 0
      /\ rCall[t].p = RwPtr(rCall[t].l)
  BY DEF RwInv, RwPointers, RwPointerOK, Rwlock!At
<1>2. rWord[rCall[t].l] \in {0, Foreign} \cup Rwlock!Ids
  BY <1>1 DEF RwInv, Rwlock!TypeOK
<1> QED
  BY <1>1, <1>2 DEF RwPtr, RwInv, RwWords, Rwlock!Ids

(* pthread_rwlock_rdlock with the pointer it obtained.                     *)
LEMMA RwRdlockKeeps ==
  ASSUME RwInv, NEW t \in LockThreads, Rwlock!RwlockRdlock(t)
  PROVE  RwInv'
<1> DEFINE i == rCall[t].p
           x == rCall[t].l
<1> USE ObjectsAssumption DEF Rwlock!RwlockAssumption, Rwlock!Null
<1>1. ~Rwlock!At(t, "guest") /\ Rwlock!Return(t, "read") /\ UNCHANGED <<writer, t_write_held>>
  BY DEF Rwlock!RwlockRdlock, Rwlock!At
<1>2. /\ RwWords' /\ RwPointers' /\ RwKnown' /\ UNCHANGED <<rNextId, rItems, rWord>>
      /\ rCall' \in [LockThreads -> Rwlock!Calls]
      /\ mode' \in [LockThreads -> [Locks -> {"none", "read", "write"}]]
      /\ x \in Locks /\ mode'[t][x] = "read"
      /\ \A u \in LockThreads, l \in Locks : u # t \/ l # x => mode'[u][l] = mode[u][l]
  BY <1>1, RwReturns
<1>3. mode[t][x] = "none"
  BY DEF RwInv, RwPointers, RwPointerOK, Rwlock!RwlockRdlock, Rwlock!At, Rwlock!TypeOK
<1>4. CASE i = 0
  <2>1. readers' = readers /\ rWord[x] = Foreign
    BY <1>1, <1>4, RwPointsAt DEF Rwlock!RwlockRdlock
  <2>2. Rwlock!TypeOK' /\ RwUnborn' /\ RwAlone'
    BY <1>1, <1>2, <2>1 DEF RwInv, Rwlock!TypeOK, RwUnborn, RwAlone
  <2>3. RwAccount'
    BY <1>1, <1>2, <2>1 DEF RwInv, RwAccount, Rwlock!Ids
  <2> QED
    BY <1>2, <2>2, <2>3 DEF RwInv
<1>5. CASE i # 0
  <2>1. /\ writer[i] = NoThread /\ readers' = [readers EXCEPT ![i] = @ \cup {t}]
        /\ i \in Rwlock!Ids /\ i = rWord[x] /\ i < rNextId
        /\ \A l \in Locks : rWord[l] = i => l = x
    BY <1>1, <1>5, RwPointsAt DEF Rwlock!RwlockRdlock
  <2>2. /\ readers' \in [Rwlock!Ids -> SUBSET LockThreads]
        /\ readers'[i] = readers[i] \cup {t}
        /\ \A j \in Rwlock!Ids \ {i} : readers'[j] = readers[j]
    BY <2>1 DEF RwInv, Rwlock!TypeOK
  <2>3. Rwlock!TypeOK' /\ RwUnborn' /\ RwAlone'
    BY <1>1, <1>2, <2>1, <2>2 DEF RwInv, Rwlock!TypeOK, RwUnborn, RwAlone, Rwlock!Ids
  <2>4. RwAccount'
    <3> SUFFICES ASSUME NEW l \in Locks, NEW u \in LockThreads, rWord[l] \in Rwlock!Ids
                 PROVE  /\ writer[rWord[l]] = u <=> mode'[u][l] = "write"
                        /\ rWord[l] \in t_write_held[u] <=> mode'[u][l] = "write"
                        /\ u \in readers'[rWord[l]] <=> mode'[u][l] = "read"
      BY <1>1, <1>2 DEF RwAccount
    <3>1. CASE u = t /\ l = x
      BY <1>2, <1>3, <2>1, <2>2, <3>1 DEF RwInv, RwAccount
    <3>2. CASE u # t \/ l # x
      BY <1>2, <2>1, <2>2, <3>2 DEF RwInv, RwAccount
    <3> QED
      BY <3>1, <3>2
  <2> QED
    BY <1>2, <2>3, <2>4 DEF RwInv
<1> QED
  BY <1>4, <1>5

(* pthread_rwlock_wrlock with the pointer it obtained.                     *)
LEMMA RwWrlockKeeps ==
  ASSUME RwInv, NEW t \in LockThreads, Rwlock!RwlockWrlock(t)
  PROVE  RwInv'
<1> DEFINE i == rCall[t].p
           x == rCall[t].l
<1> USE ObjectsAssumption DEF Rwlock!RwlockAssumption, Rwlock!Null
<1>1. ~Rwlock!At(t, "guest") /\ Rwlock!Return(t, "write") /\ readers' = readers
  BY DEF Rwlock!RwlockWrlock, Rwlock!At
<1>2. /\ RwWords' /\ RwPointers' /\ RwKnown' /\ UNCHANGED <<rNextId, rItems, rWord>>
      /\ rCall' \in [LockThreads -> Rwlock!Calls]
      /\ mode' \in [LockThreads -> [Locks -> {"none", "read", "write"}]]
      /\ x \in Locks /\ mode'[t][x] = "write"
      /\ \A u \in LockThreads, l \in Locks : u # t \/ l # x => mode'[u][l] = mode[u][l]
  BY <1>1, RwReturns
<1>3. mode[t][x] = "none"
  BY DEF RwInv, RwPointers, RwPointerOK, Rwlock!RwlockWrlock, Rwlock!At, Rwlock!TypeOK
<1>4. CASE i = 0
  <2>1. writer' = writer /\ t_write_held' = t_write_held /\ rWord[x] = Foreign
    BY <1>1, <1>4, RwPointsAt DEF Rwlock!RwlockWrlock
  <2>2. Rwlock!TypeOK' /\ RwUnborn' /\ RwAlone'
    BY <1>1, <1>2, <2>1 DEF RwInv, Rwlock!TypeOK, RwUnborn, RwAlone
  <2>3. RwAccount'
    BY <1>1, <1>2, <2>1 DEF RwInv, RwAccount, Rwlock!Ids
  <2> QED
    BY <1>2, <2>2, <2>3 DEF RwInv
<1>5. CASE i # 0
  <2>1. /\ writer[i] = NoThread /\ readers[i] = {}
        /\ writer' = [writer EXCEPT ![i] = t]
        /\ t_write_held' = [t_write_held EXCEPT ![t] = @ \cup {i}]
        /\ i \in Rwlock!Ids /\ i = rWord[x] /\ i < rNextId
        /\ \A l \in Locks : rWord[l] = i => l = x
    BY <1>1, <1>5, RwPointsAt DEF Rwlock!RwlockWrlock
  <2>2. /\ writer' \in [Rwlock!Ids -> LockThreads \cup {NoThread}]
        /\ writer'[i] = t
        /\ \A j \in Rwlock!Ids \ {i} : writer'[j] = writer[j]
    BY <2>1 DEF RwInv, Rwlock!TypeOK
  <2>3. /\ t_write_held' \in [LockThreads -> SUBSET Rwlock!Ids]
        /\ t_write_held'[t] = t_write_held[t] \cup {i}
        /\ \A u \in LockThreads \ {t} : t_write_held'[u] = t_write_held[u]
    BY <2>1 DEF RwInv, Rwlock!TypeOK
  <2>4. Rwlock!TypeOK' /\ RwUnborn' /\ RwAlone'
    BY <1>1, <1>2, <2>1, <2>2, <2>3 DEF RwInv, Rwlock!TypeOK, RwUnborn, RwAlone, Rwlock!Ids
  <2>5. RwAccount'
    <3> SUFFICES ASSUME NEW l \in Locks, NEW u \in LockThreads, rWord[l] \in Rwlock!Ids
                 PROVE  /\ writer'[rWord[l]] = u <=> mode'[u][l] = "write"
                        /\ rWord[l] \in t_write_held'[u] <=> mode'[u][l] = "write"
                        /\ u \in readers[rWord[l]] <=> mode'[u][l] = "read"
      BY <1>1, <1>2 DEF RwAccount
    <3>1. CASE u = t /\ l = x
      BY <1>2, <1>3, <2>1, <2>2, <2>3, <3>1 DEF RwInv, RwAccount
    <3>2. CASE u # t /\ l = x
      BY <1>2, <2>1, <2>2, <2>3, <3>2 DEF RwInv, RwAccount
    <3>3. CASE l # x
      BY <1>2, <2>1, <2>2, <2>3, <3>3 DEF RwInv, RwAccount
    <3> QED
      BY <3>1, <3>2, <3>3
  <2> QED
    BY <1>2, <2>4, <2>5 DEF RwInv
<1> QED
  BY <1>4, <1>5

(* The list decides as the thread was told: its entry is undone with the   *)
(* exclusive lock, or its share with the shared one.                       *)
LEMMA RwUnlockKeeps ==
  ASSUME RwInv, NEW t \in LockThreads, Rwlock!RwlockUnlock(t)
  PROVE  RwInv'
<1> DEFINE i == rCall[t].p
           x == rCall[t].l
<1> USE ObjectsAssumption DEF Rwlock!RwlockAssumption, Rwlock!Null
<1>1. ~Rwlock!At(t, "guest") /\ Rwlock!Return(t, "none")
  BY DEF Rwlock!RwlockUnlock, Rwlock!At
<1>2. /\ RwWords' /\ RwPointers' /\ RwKnown' /\ UNCHANGED <<rNextId, rItems, rWord>>
      /\ rCall' \in [LockThreads -> Rwlock!Calls]
      /\ mode' \in [LockThreads -> [Locks -> {"none", "read", "write"}]]
      /\ x \in Locks /\ mode'[t][x] = "none"
      /\ \A u \in LockThreads, l \in Locks : u # t \/ l # x => mode'[u][l] = mode[u][l]
  BY <1>1, RwReturns
<1>3. mode[t][x] \in {"read", "write"}
  BY <1>2 DEF RwInv, RwPointers, RwPointerOK, Rwlock!RwlockUnlock, Rwlock!At, Rwlock!TypeOK
<1>4. CASE i = 0
  <2>1. UNCHANGED <<writer, readers, t_write_held>> /\ rWord[x] = Foreign
    BY <1>1, <1>4, RwPointsAt DEF Rwlock!RwlockUnlock
  <2>2. Rwlock!TypeOK' /\ RwUnborn' /\ RwAlone'
    BY <1>1, <1>2, <2>1 DEF RwInv, Rwlock!TypeOK, RwUnborn, RwAlone
  <2>3. RwAccount'
    BY <1>1, <1>2, <2>1 DEF RwInv, RwAccount, Rwlock!Ids
  <2> QED
    BY <1>2, <2>2, <2>3 DEF RwInv
<1>5. CASE i # 0
  <2>1. /\ i \in Rwlock!Ids /\ i = rWord[x] /\ i < rNextId
        /\ \A l \in Locks : rWord[l] = i => l = x
    BY <1>1, <1>5, RwPointsAt
  <2>2. CASE i \in t_write_held[t]
    <3>1. /\ writer' = [writer EXCEPT ![i] = NoThread] /\ readers' = readers
          /\ t_write_held' = [t_write_held EXCEPT ![t] = @ \ {i}]
      BY <1>5, <2>1, <2>2 DEF Rwlock!RwlockUnlock
    <3>2. /\ writer' \in [Rwlock!Ids -> LockThreads \cup {NoThread}]
          /\ writer'[i] = NoThread
          /\ \A j \in Rwlock!Ids \ {i} : writer'[j] = writer[j]
      BY <2>1, <3>1 DEF RwInv, Rwlock!TypeOK
    <3>3. /\ t_write_held' \in [LockThreads -> SUBSET Rwlock!Ids]
          /\ t_write_held'[t] = t_write_held[t] \ {i}
          /\ \A u \in LockThreads \ {t} : t_write_held'[u] = t_write_held[u]
      BY <2>1, <3>1 DEF RwInv, Rwlock!TypeOK
    <3>4. Rwlock!TypeOK' /\ RwUnborn' /\ RwAlone'
      BY <1>2, <2>1, <3>1, <3>2, <3>3 DEF RwInv, Rwlock!TypeOK, RwUnborn, RwAlone, Rwlock!Ids
    <3>5. /\ writer[i] = t /\ readers[i] = {}
          /\ \A u \in LockThreads \ {t} : mode[u][x] = "none" /\ i \notin t_write_held[u]
      <4>1. mode[t][x] = "write" /\ writer[i] = t
        BY <1>2, <2>1, <2>2 DEF RwInv, RwAccount
      <4>2. readers[i] = {}
        BY <2>1, <4>1 DEF RwInv, RwAlone
      <4>3. \A u \in LockThreads \ {t} : mode[u][x] \notin {"read", "write"}
        BY <1>2, <2>1, <4>1, <4>2 DEF RwInv, RwAccount
      <4>4. \A u \in LockThreads : mode[u][x] \in {"none", "read", "write"}
        BY <1>2 DEF RwInv, Rwlock!TypeOK
      <4> QED
        BY <1>2, <2>1, <4>1, <4>2, <4>3, <4>4 DEF RwInv, RwAccount
    <3>6. RwAccount'
      <4> SUFFICES ASSUME NEW l \in Locks, NEW u \in LockThreads, rWord[l] \in Rwlock!Ids
                   PROVE  /\ writer'[rWord[l]] = u <=> mode'[u][l] = "write"
                          /\ rWord[l] \in t_write_held'[u] <=> mode'[u][l] = "write"
                          /\ u \in readers[rWord[l]] <=> mode'[u][l] = "read"
        BY <1>2, <3>1 DEF RwAccount
      <4>1. CASE u = t /\ l = x
        BY <1>2, <2>1, <3>2, <3>3, <3>5, <4>1
      <4>2. CASE u # t /\ l = x
        BY <1>2, <2>1, <3>2, <3>3, <3>5, <4>2
      <4>3. CASE l # x
        BY <1>2, <2>1, <3>2, <3>3, <4>3 DEF RwInv, RwAccount
      <4> QED
        BY <4>1, <4>2, <4>3
    <3> QED
      BY <1>2, <3>4, <3>6 DEF RwInv
  <2>3. CASE i \notin t_write_held[t]
    <3>1. /\ readers' = [readers EXCEPT ![i] = @ \ {t}]
          /\ UNCHANGED <<writer, t_write_held>>
      BY <1>5, <2>1, <2>3 DEF Rwlock!RwlockUnlock
    <3>2. /\ readers' \in [Rwlock!Ids -> SUBSET LockThreads]
          /\ readers'[i] = readers[i] \ {t}
          /\ \A j \in Rwlock!Ids \ {i} : readers'[j] = readers[j]
      BY <2>1, <3>1 DEF RwInv, Rwlock!TypeOK
    <3>3. Rwlock!TypeOK' /\ RwUnborn' /\ RwAlone'
      BY <1>2, <2>1, <3>1, <3>2 DEF RwInv, Rwlock!TypeOK, RwUnborn, RwAlone, Rwlock!Ids
    <3>4. mode[t][x] # "write"
      BY <1>2, <2>1, <2>3 DEF RwInv, RwAccount
    <3>5. RwAccount'
      <4> SUFFICES ASSUME NEW l \in Locks, NEW u \in LockThreads, rWord[l] \in Rwlock!Ids
                   PROVE  /\ writer[rWord[l]] = u <=> mode'[u][l] = "write"
                          /\ rWord[l] \in t_write_held[u] <=> mode'[u][l] = "write"
                          /\ u \in readers'[rWord[l]] <=> mode'[u][l] = "read"
        BY <1>2, <3>1 DEF RwAccount
      <4>1. CASE u = t /\ l = x
        BY <1>2, <2>1, <3>2, <3>4, <4>1 DEF RwInv, RwAccount
      <4>2. CASE u # t \/ l # x
        BY <1>2, <2>1, <3>2, <4>2 DEF RwInv, RwAccount
      <4> QED
        BY <4>1, <4>2
    <3> QED
      BY <1>2, <3>3, <3>5 DEF RwInv
  <2> QED
    BY <2>2, <2>3
<1> QED
  BY <1>4, <1>5

(* Every step of a read-write lock keeps the invariant.                    *)
LEMMA RwStep == RwInv /\ [Rwlock!Next]_(Rwlock!vars) => RwInv'
<1> SUFFICES ASSUME RwInv, [Rwlock!Next]_(Rwlock!vars) PROVE RwInv'
  OBVIOUS
<1>1. CASE UNCHANGED Rwlock!vars
  BY <1>1 DEF Rwlock!vars, Rwlock!registry, RwInv, Rwlock!TypeOK, RwWords, RwUnborn,
         RwPointers, RwPointerOK, RwPtr, Rwlock!Idle, RwKnown, RwAccount, RwAlone
<1>2. CASE Rwlock!Next
  BY <1>2, RwInitKeeps, RwDestroyKeeps, RwEnterKeeps, RwRdlockKeeps, RwWrlockKeeps,
     RwUnlockKeeps DEF Rwlock!Next
<1> QED
  BY <1>1, <1>2

(* The inductive invariant of read-write locks.                            *)
THEOREM RwlockInvariance == MCSpec => []RwInv
<1>1. MCInit => RwInv
  BY RwBegins DEF MCInit
<1>2. [MCNext]_allVars => [Rwlock!Next]_(Rwlock!vars)
  BY DEF MCNext, allVars, rwlockVars, Rwlock!vars, Rwlock!registry
<1> QED
  BY <1>1, <1>2, RwStep, PTL DEF MCSpec

(* A thread that was told it may write shares the lock with nobody, and    *)
(* unlock undoes the kind of lock that was taken, over any history of      *)
(* creating, destroying and re-using locks.                                *)
THEOREM WriterIsAlone == MCSpec => []WriterExcludes
<1> SUFFICES RwInv => WriterExcludes
  BY RwlockInvariance, PTL
<1> SUFFICES ASSUME RwInv PROVE WriterExcludes
  OBVIOUS
<1>1. Rwlock!UnlockMatchesLock
  BY DEF RwInv, RwAccount, Rwlock!TypeOK, Rwlock!UnlockMatchesLock
<1>2. Rwlock!WriterExcludes
  <2> SUFFICES ASSUME NEW l \in Locks, rWord[l] # Foreign, NEW t \in LockThreads,
                      NEW u \in LockThreads, mode[t][l] = "write", mode[u][l] # "none"
               PROVE  t = u
    BY DEF Rwlock!WriterExcludes
  <2>1. rWord[l] \in Rwlock!Ids
    BY DEF RwInv, RwKnown, Rwlock!TypeOK
  <2>2. writer[rWord[l]] = t /\ readers[rWord[l]] = {}
    BY <2>1, ObjectsAssumption DEF RwInv, RwAccount, RwAlone, Rwlock!RwlockAssumption
  <2>3. mode[u][l] \in {"read", "write"}
    BY DEF RwInv, Rwlock!TypeOK
  <2> QED
    BY <2>1, <2>2, <2>3 DEF RwInv, RwAccount
<1> QED
  BY <1>1, <1>2 DEF RwInv, WriterExcludes

-----------------------------------------------------------------------------
(* GuestSemaphore.  A thread in SemWait is asleep or awake again and about *)
(* to look, never both and never on two semaphores.                        *)
SemWaiting ==
  \A t \in SemThreads, s \in Sems :
    /\ t \in asleep[s] \cup woken[s] => in[t] = s
    /\ ~(t \in asleep[s] /\ t \in woken[s])

(* No permit without a thread coming for it, while somebody sleeps.        *)
SemServed ==
  \A s \in Sems : asleep[s] # {} => count[s] <= Cardinality(woken[s])

SemInv == Sem!TypeOK /\ SemWaiting /\ SemServed

(* The semaphores' module counts as this one does.                         *)
LEMMA SameCount ==
  /\ \A S : Sem!IsFiniteSet(S) = IsFiniteSet(S)
  /\ \A S : Sem!Cardinality(S) = Cardinality(S)
<1>1. \A S : Sem!IsFiniteSet(S) = IsFiniteSet(S)
  BY DEF Sem!IsFiniteSet, IsFiniteSet
<1>2. \A S : Sem!Cardinality(S) = Cardinality(S)
  BY DEF Sem!Cardinality, Cardinality
<1> QED
  BY <1>1, <1>2

(* A semaphore's woken threads can be counted, and one more or one fewer   *)
(* of them changes the count by one.                                       *)
LEMMA WokenCount ==
  ASSUME SemInv, NEW s \in Sems, NEW t \in SemThreads
  PROVE  /\ Cardinality(woken[s]) \in Nat
         /\ Cardinality({}) = 0
         /\ t \notin woken[s] =>
              Cardinality(woken[s] \cup {t}) = Cardinality(woken[s]) + 1
         /\ t \in woken[s] =>
              Cardinality(woken[s] \ {t}) = Cardinality(woken[s]) - 1
<1>1. IsFiniteSet(SemThreads)
  BY ObjectsAssumption, SameCount DEF Sem!SemAssumption
<1>2. woken[s] \subseteq SemThreads
  BY DEF SemInv, Sem!TypeOK
<1>3. IsFiniteSet(woken[s])
  BY <1>1, <1>2, FS_Subset
<1> QED
  BY <1>3, FS_CardinalityType, FS_EmptySet, FS_AddElement, FS_RemoveElement

(* Where a thread is awake the count is not zero.                          *)
LEMMA WokenNone ==
  ASSUME SemInv, NEW s \in Sems, NEW t \in woken[s]
  PROVE  Cardinality(woken[s]) # 0
<1>1. t \in SemThreads
  BY DEF SemInv, Sem!TypeOK
<1>2. Cardinality(woken[s] \ {t}) \in Nat
  <2>1. IsFiniteSet(SemThreads) /\ woken[s] \ {t} \in SUBSET SemThreads
    BY ObjectsAssumption, SameCount DEF Sem!SemAssumption, SemInv, Sem!TypeOK
  <2> QED
    BY <2>1, FS_Subset, FS_CardinalityType
<1> QED
  BY <1>1, <1>2, WokenCount

(* The permits sem_init gave, and nobody waiting.                          *)
LEMMA SemBegins == Sem!Init => SemInv
<1> SUFFICES ASSUME Sem!Init PROVE SemInv
  OBVIOUS
<1>1. Sem!TypeOK
  BY DEF Sem!Init, Sem!TypeOK
<1>2. SemWaiting /\ SemServed
  BY DEF SemServed, Sem!Init, SemWaiting
<1> QED
  BY <1>1, <1>2 DEF SemInv

(* SemInit and SemDestroy, which nobody waits through.                     *)
LEMMA SemInitKeeps ==
  ASSUME SemInv, NEW t \in SemThreads, NEW s \in Sems, NEW value \in 0..MaxCount,
         Sem!SemInit(t, s, value)
  PROVE  SemInv'
<1>1. /\ count' = [count EXCEPT ![s] = value] /\ UNCHANGED <<in, asleep, woken>>
      /\ \A u \in SemThreads : in[u] # s
  BY DEF Sem!SemInit, Sem!Unused
<1>2. value \in Nat
  BY ObjectsAssumption DEF Sem!SemAssumption
<1>3. Sem!TypeOK'
  BY <1>1, <1>2 DEF SemInv, Sem!TypeOK
<1>4. SemWaiting'
  BY <1>1 DEF SemInv, SemWaiting
<1>5. asleep[s] = {}
  BY <1>1 DEF SemInv, SemWaiting, Sem!TypeOK
<1>6. SemServed'
  BY <1>1, <1>5 DEF SemServed, SemInv, Sem!TypeOK
<1> QED
  BY <1>3, <1>4, <1>6 DEF SemInv

(* Each permit posted while somebody sleeps wakes a thread to fetch it.    *)
LEMMA SemPostKeeps ==
  ASSUME SemInv, NEW t \in SemThreads, NEW s \in Sems, Sem!SemPost(t, s)
  PROVE  SemInv'
<1>1. /\ count' = [count EXCEPT ![s] = @ + 1] /\ in' = in /\ Sem!NotifyOne(s)
  BY DEF Sem!SemPost
<1>2. CASE asleep[s] = {} /\ UNCHANGED <<asleep, woken>>
  <2>1. Sem!TypeOK' /\ SemWaiting'
    BY <1>1, <1>2 DEF SemInv, Sem!TypeOK, SemWaiting
  <2>2. SemServed'
    BY <1>1, <1>2 DEF SemServed, SemInv, Sem!TypeOK
  <2> QED
    BY <2>1, <2>2 DEF SemInv
<1>3. ASSUME NEW u \in asleep[s],
             asleep' = [asleep EXCEPT ![s] = @ \ {u}],
             woken' = [woken EXCEPT ![s] = @ \cup {u}]
      PROVE  SemInv'
  <2>1. u \in SemThreads /\ u \notin woken[s]
    BY DEF SemInv, Sem!TypeOK, SemWaiting
  <2>2. Sem!TypeOK'
    BY <1>1, <1>3, <2>1 DEF SemInv, Sem!TypeOK
  <2>3. SemWaiting'
    BY <1>1, <1>3, <2>1 DEF SemInv, Sem!TypeOK, SemWaiting
  <2>4. count[s] \in Nat /\ count[s] <= Cardinality(woken[s])
    BY DEF SemServed, SemInv, Sem!TypeOK
  <2>5. count'[s] <= Cardinality(woken'[s])
    BY <1>1, <1>3, <2>1, <2>4, WokenCount DEF SemInv, Sem!TypeOK
  <2>6. \A r \in Sems \ {s} : count'[r] = count[r] /\ asleep'[r] = asleep[r] /\ woken'[r] = woken[r]
    BY <1>1, <1>3 DEF SemInv, Sem!TypeOK
  <2>7. SemServed'
    BY <2>5, <2>6 DEF SemServed, SemInv
  <2> QED
    BY <2>2, <2>3, <2>7 DEF SemInv
<1> QED
  BY <1>1, <1>2, <1>3 DEF Sem!NotifyOne

(* sem_trywait, and sem_wait up to its first sleep.                        *)
LEMMA SemTakesKeep ==
  ASSUME SemInv, NEW t \in SemThreads, NEW s \in Sems,
         Sem!SemTrywait(t, s) \/ Sem!CallWait(t, s)
  PROVE  SemInv'
<1>1. CASE /\ count[s] > 0 /\ count' = [count EXCEPT ![s] = @ - 1]
           /\ UNCHANGED <<in, asleep, woken>>
  <2>1. Sem!TypeOK' /\ SemWaiting'
    BY <1>1 DEF SemInv, Sem!TypeOK, SemWaiting
  <2>2. \A r \in Sems : Cardinality(woken[r]) \in Nat
    BY WokenCount
  <2>3. SemServed'
    BY <1>1, <2>2 DEF SemServed, SemInv, Sem!TypeOK
  <2> QED
    BY <2>1, <2>3 DEF SemInv
<1>2. CASE /\ count[s] = 0 /\ in[t] = NoSem /\ in' = [in EXCEPT ![t] = s]
           /\ asleep' = [asleep EXCEPT ![s] = @ \cup {t}]
           /\ UNCHANGED <<count, woken>>
  <2>1. Sem!TypeOK'
    BY <1>2 DEF SemInv, Sem!TypeOK
  <2>2. \A r \in Sems : t \notin asleep[r] /\ t \notin woken[r]
    BY <1>2, ObjectsAssumption DEF Sem!SemAssumption, SemInv, SemWaiting
  <2>3. SemWaiting'
    BY <1>2, <2>2 DEF SemInv, Sem!TypeOK, SemWaiting
  <2>4. Cardinality(woken[s]) \in Nat
    BY WokenCount
  <2>5. SemServed'
    BY <1>2, <2>4 DEF SemServed, SemInv, Sem!TypeOK
  <2> QED
    BY <2>1, <2>3, <2>5 DEF SemInv
<1> QED
  BY <1>1, <1>2 DEF Sem!SemTrywait, Sem!CallWait, Sem!Idle

(* A woken thread takes a permit, or sleeps again finding none.            *)
LEMMA SemRecheckKeeps ==
  ASSUME SemInv, NEW t \in SemThreads, NEW s \in Sems, Sem!Recheck(t, s)
  PROVE  SemInv'
<1>1. t \in woken[s] /\ woken' = [woken EXCEPT ![s] = @ \ {t}]
  BY DEF Sem!Recheck
<1>2. in[t] = s /\ \A r \in Sems : t \notin asleep[r] /\ (r # s => t \notin woken[r])
  BY <1>1 DEF SemInv, SemWaiting
<1>3. Cardinality(woken[s]) \in Nat /\ Cardinality(woken'[s]) = Cardinality(woken[s]) - 1
  BY <1>1, WokenCount DEF SemInv, Sem!TypeOK
<1>4. CASE /\ count[s] > 0 /\ count' = [count EXCEPT ![s] = @ - 1]
           /\ in' = [in EXCEPT ![t] = NoSem] /\ asleep' = asleep
  <2>1. Sem!TypeOK'
    BY <1>1, <1>4 DEF SemInv, Sem!TypeOK
  <2>2. SemWaiting'
    BY <1>1, <1>2, <1>4 DEF SemInv, Sem!TypeOK, SemWaiting
  <2>3. \A r \in Sems \ {s} : count'[r] = count[r] /\ woken'[r] = woken[r]
    BY <1>1, <1>4 DEF SemInv, Sem!TypeOK
  <2>4. count'[s] = count[s] - 1 /\ count[s] \in Nat
    BY <1>4 DEF SemInv, Sem!TypeOK
  <2>5. SemServed'
    BY <1>3, <1>4, <2>3, <2>4 DEF SemServed, SemInv
  <2> QED
    BY <2>1, <2>2, <2>5 DEF SemInv
<1>5. CASE /\ count[s] = 0 /\ asleep' = [asleep EXCEPT ![s] = @ \cup {t}]
           /\ UNCHANGED <<count, in>>
  <2>1. Sem!TypeOK'
    BY <1>1, <1>5 DEF SemInv, Sem!TypeOK
  <2>2. SemWaiting'
    BY <1>1, <1>2, <1>5 DEF SemInv, Sem!TypeOK, SemWaiting
  <2>3. \A r \in Sems \ {s} : asleep'[r] = asleep[r] /\ woken'[r] = woken[r]
    BY <1>1, <1>5 DEF SemInv, Sem!TypeOK
  <2>4. Cardinality(woken[s]) # 0
    BY <1>1, WokenNone
  <2>5. SemServed'
    BY <1>3, <1>5, <2>3, <2>4 DEF SemServed, SemInv
  <2> QED
    BY <2>1, <2>2, <2>5 DEF SemInv
<1> QED
  BY <1>4, <1>5 DEF Sem!Recheck

(* A spurious wake-up only adds a thread that will look.                   *)
LEMMA SemWakeKeeps ==
  ASSUME SemInv, NEW t \in SemThreads, NEW s \in Sems, Sem!WakeUnasked(t, s)
  PROVE  SemInv'
<1>1. /\ t \in asleep[s] /\ asleep' = [asleep EXCEPT ![s] = @ \ {t}]
      /\ woken' = [woken EXCEPT ![s] = @ \cup {t}] /\ UNCHANGED <<count, in>>
  BY DEF Sem!WakeUnasked
<1>2. Sem!TypeOK'
  BY <1>1 DEF SemInv, Sem!TypeOK
<1>3. SemWaiting'
  BY <1>1 DEF SemInv, Sem!TypeOK, SemWaiting
<1>4. t \notin woken[s] /\ count[s] \in Nat /\ count[s] <= Cardinality(woken[s])
  BY <1>1 DEF SemServed, SemInv, Sem!TypeOK, SemWaiting
<1>5. count'[s] <= Cardinality(woken'[s])
  BY <1>1, <1>4, WokenCount DEF SemInv, Sem!TypeOK
<1>6. \A r \in Sems \ {s} : asleep'[r] = asleep[r] /\ woken'[r] = woken[r]
  BY <1>1 DEF SemInv, Sem!TypeOK
<1>7. SemServed'
  BY <1>1, <1>5, <1>6 DEF SemServed, SemInv
<1> QED
  BY <1>2, <1>3, <1>7 DEF SemInv

(* Every step of a semaphore keeps the invariant.                          *)
LEMMA SemStep == SemInv /\ [Sem!Next]_(Sem!vars) => SemInv'
<1> SUFFICES ASSUME SemInv, [Sem!Next]_(Sem!vars) PROVE SemInv'
  OBVIOUS
<1>1. CASE UNCHANGED Sem!vars
  BY <1>1 DEF SemServed, Sem!vars, SemInv, Sem!TypeOK, SemWaiting
<1>2. CASE Sem!Next
  <2>1. 0 \in 0..MaxCount
    BY ObjectsAssumption DEF Sem!SemAssumption
  <2> QED
    BY <1>2, <2>1, SemInitKeeps, SemPostKeeps, SemTakesKeep, SemRecheckKeeps, SemWakeKeeps
    DEF Sem!Next, Sem!SemDestroy
<1> QED
  BY <1>1, <1>2

(* No permit lies beside a sleeping waiter that nobody woke for it: posts  *)
(* that come together, trywaits that get in first and spurious wake-ups    *)
(* strand nobody, however many threads and permits there are.              *)
THEOREM NobodyStranded == MCSpec => []NoStrandedWaiter
<1>1. MCInit => SemInv
  BY SemBegins DEF MCInit
<1>2. [MCNext]_allVars => [Sem!Next]_(Sem!vars)
  BY DEF MCNext, allVars, semVars, Sem!vars
<1>3. SemInv => NoStrandedWaiter
  BY SameCount DEF SemInv, SemServed, NoStrandedWaiter, Sem!NoStrandedWaiter
<1> QED
  BY <1>1, <1>2, <1>3, SemStep, PTL DEF MCSpec

-----------------------------------------------------------------------------
(* GuestOnce.  The word tells how far a control has come: 0 nobody entered *)
(* its initialiser, 1 one thread is in it or was thrown out of it by a     *)
(* trap, 2 it has returned.                                                *)
OnceRan == \A o \in Controls : ran[o] = IF control[o] = 0 THEN 0 ELSE 1

OnceRunning ==
  \A t \in OnceThreads : \A i \in 1..Len(running[t]) :
    control[running[t][i]] = 1 /\ running[t][i] \notin trapped

OnceAlone ==
  \A t, u \in OnceThreads : \A i \in 1..Len(running[t]), j \in 1..Len(running[u]) :
    running[t][i] = running[u][j] => t = u /\ i = j

OnceEnded ==
  /\ \A o \in passed : control[o] = 2
  /\ \A o \in trapped : control[o] = 1

OnceInv == PtOnce!TypeOK /\ OnceRan /\ OnceRunning /\ OnceAlone /\ OnceEnded

(* No control has been touched.                                            *)
LEMMA OnceBegins == PtOnce!Init => OnceInv
<1> SUFFICES ASSUME PtOnce!Init PROVE OnceInv
  OBVIOUS
<1> USE DEF PtOnce!Init
<1>1. PtOnce!TypeOK
  <2>1. running \in [OnceThreads -> Seq(Controls)]
    OBVIOUS
  <2> QED
    BY <2>1 DEF PtOnce!TypeOK
<1>2. OnceRan /\ OnceEnded
  BY DEF OnceRan, OnceEnded
<1>3. OnceRunning /\ OnceAlone
  BY DEF OnceRunning, OnceAlone
<1> QED
  BY <1>1, <1>2, <1>3 DEF OnceInv

(* A thread's initialisers, where one is entered and where one returns.    *)
LEMMA OnceStack ==
  ASSUME OnceInv, NEW t \in OnceThreads
  PROVE  /\ running[t] \in Seq(Controls) /\ Len(running[t]) \in Nat
         /\ \A i \in 1..Len(running[t]) : running[t][i] \in Controls
         /\ \A o \in Controls :
              /\ Append(running[t], o) \in Seq(Controls)
              /\ Len(Append(running[t], o)) = Len(running[t]) + 1
              /\ Append(running[t], o)[Len(running[t]) + 1] = o
              /\ \A i \in 1..Len(running[t]) : Append(running[t], o)[i] = running[t][i]
         /\ running[t] # <<>> =>
              /\ Len(running[t]) > 0
              /\ SubSeq(running[t], 1, Len(running[t]) - 1) \in Seq(Controls)
              /\ Len(SubSeq(running[t], 1, Len(running[t]) - 1)) = Len(running[t]) - 1
              /\ \A i \in 1..(Len(running[t]) - 1) :
                   SubSeq(running[t], 1, Len(running[t]) - 1)[i] = running[t][i]
<1>1. running[t] \in Seq(Controls)
  BY DEF OnceInv, PtOnce!TypeOK
<1> QED
  BY <1>1

(* The compare_exchange lets one caller in.                                *)
LEMMA OnceEnters ==
  ASSUME OnceInv, NEW t \in OnceThreads, NEW o \in Controls, PtOnce!Once(t, o)
  PROVE  OnceInv'
<1>1. /\ control[o] = 0 /\ control' = [control EXCEPT ![o] = 1]
      /\ running' = [running EXCEPT ![t] = Append(@, o)]
      /\ ran' = [ran EXCEPT ![o] = @ + 1]
      /\ UNCHANGED <<spinning, passed, trapped, aborted>>
  BY DEF PtOnce!Once
<1>2. /\ control' \in [Controls -> {0, 1, 2}] /\ control'[o] = 1
      /\ \A p \in Controls \ {o} : control'[p] = control[p]
  BY <1>1 DEF OnceInv, PtOnce!TypeOK
<1>3. /\ running' \in [OnceThreads -> Seq(Controls)]
      /\ running'[t] = Append(running[t], o)
      /\ \A u \in OnceThreads \ {t} : running'[u] = running[u]
  BY <1>1, OnceStack DEF OnceInv, PtOnce!TypeOK
<1>4. /\ Len(running'[t]) = Len(running[t]) + 1 /\ running'[t][Len(running[t]) + 1] = o
      /\ \A i \in 1..Len(running[t]) : running'[t][i] = running[t][i]
  BY <1>3, OnceStack
<1>5. /\ \A u \in OnceThreads : \A i \in 1..Len(running[u]) :
           running[u][i] \in Controls /\ running[u][i] # o
      /\ o \notin trapped /\ o \notin passed
  BY <1>1, OnceStack DEF OnceInv, OnceRunning, OnceEnded
<1>6. PtOnce!TypeOK'
  <2>1. ran' \in [Controls -> Nat]
    BY <1>1 DEF OnceInv, PtOnce!TypeOK
  <2> QED
    BY <1>1, <1>2, <1>3, <2>1 DEF OnceInv, PtOnce!TypeOK
<1>7. OnceRan'
  BY <1>1, <1>2 DEF OnceInv, OnceRan, PtOnce!TypeOK
<1>8. OnceEnded'
  BY <1>1, <1>2, <1>5 DEF OnceInv, OnceEnded, PtOnce!TypeOK
<1>9. \A u \in OnceThreads : \A i \in 1..Len(running'[u]) :
        \/ u = t /\ i = Len(running[t]) + 1 /\ running'[u][i] = o
        \/ i \in 1..Len(running[u]) /\ running'[u][i] = running[u][i]
  <2> SUFFICES ASSUME NEW u \in OnceThreads, NEW i \in 1..Len(running'[u])
               PROVE  \/ u = t /\ i = Len(running[t]) + 1 /\ running'[u][i] = o
                      \/ i \in 1..Len(running[u]) /\ running'[u][i] = running[u][i]
    OBVIOUS
  <2>1. CASE u = t
    BY <1>4, <2>1, OnceStack
  <2>2. CASE u # t
    BY <1>3, <2>2
  <2> QED
    BY <2>1, <2>2
<1>10. OnceRunning'
  BY <1>1, <1>2, <1>5, <1>9 DEF OnceInv, OnceRunning
<1>11. OnceAlone'
  BY <1>5, <1>9 DEF OnceInv, OnceAlone
<1> QED
  BY <1>6, <1>7, <1>8, <1>10, <1>11 DEF OnceInv

(* Waiting, and a wait that ends because the word reads 2.                 *)
LEMMA OnceSpins ==
  ASSUME OnceInv, NEW t \in OnceThreads,
         PtOnce!SpinDone(t) \/ \E o \in Controls : PtOnce!Spin(t, o)
  PROVE  OnceInv'
<1>1. UNCHANGED <<control, running, ran, trapped, aborted>>
  BY DEF PtOnce!SpinDone, PtOnce!Spin
<1>2. CASE PtOnce!SpinDone(t)
  <2>1. /\ spinning[t] \in Controls /\ control[spinning[t]] = 2
        /\ passed' = passed \cup {spinning[t]} /\ spinning' = [spinning EXCEPT ![t] = 0]
    BY <1>2 DEF PtOnce!SpinDone, OnceInv, PtOnce!TypeOK
  <2>2. PtOnce!TypeOK'
    BY <1>1, <2>1 DEF OnceInv, PtOnce!TypeOK
  <2>3. OnceRan' /\ OnceAlone'
    BY <1>1 DEF OnceInv, OnceRan, OnceAlone
  <2>4. OnceRunning'
    BY <1>1 DEF OnceInv, OnceRunning
  <2>5. OnceEnded'
    BY <1>1, <2>1 DEF OnceInv, OnceEnded
  <2> QED
    BY <2>2, <2>3, <2>4, <2>5 DEF OnceInv
<1>3. ASSUME NEW o \in Controls, PtOnce!Spin(t, o) PROVE OnceInv'
  <2>1. spinning' = [spinning EXCEPT ![t] = o] /\ passed' = passed
    BY <1>3 DEF PtOnce!Spin
  <2>2. PtOnce!TypeOK'
    BY <1>1, <2>1 DEF OnceInv, PtOnce!TypeOK
  <2> QED
    BY <1>1, <2>1, <2>2 DEF OnceInv, OnceRan, OnceRunning, OnceAlone, OnceEnded
<1> QED
  BY <1>2, <1>3

(* The initialiser returns, and it is nobody else's.                       *)
LEMMA OnceFinishes ==
  ASSUME OnceInv, NEW t \in OnceThreads, PtOnce!Finish(t)
  PROVE  OnceInv'
<1> DEFINE n == Len(running[t])
           o == running[t][n]
<1>1. /\ running[t] # <<>> /\ control' = [control EXCEPT ![o] = 2]
      /\ passed' = passed \cup {o}
      /\ running' = [running EXCEPT ![t] = SubSeq(@, 1, Len(@) - 1)]
      /\ UNCHANGED <<spinning, ran, trapped, aborted>>
  BY DEF PtOnce!Finish, PtOnce!Innermost
<1>2. /\ n \in Nat /\ n > 0 /\ o \in Controls /\ control[o] = 1 /\ o \notin trapped
  BY <1>1, OnceStack DEF OnceInv, OnceRunning
<1>3. /\ control' \in [Controls -> {0, 1, 2}] /\ control'[o] = 2
      /\ \A p \in Controls \ {o} : control'[p] = control[p]
  BY <1>1, <1>2 DEF OnceInv, PtOnce!TypeOK
<1>4. /\ running' \in [OnceThreads -> Seq(Controls)]
      /\ Len(running'[t]) = n - 1 /\ \A i \in 1..(n - 1) : running'[t][i] = running[t][i]
      /\ \A u \in OnceThreads \ {t} : running'[u] = running[u]
  BY <1>1, OnceStack DEF OnceInv, PtOnce!TypeOK
<1>5. PtOnce!TypeOK'
  BY <1>1, <1>2, <1>3, <1>4 DEF OnceInv, PtOnce!TypeOK
<1>6. OnceRan'
  BY <1>1, <1>2, <1>3 DEF OnceInv, OnceRan
<1>7. OnceEnded'
  BY <1>1, <1>2, <1>3 DEF OnceInv, OnceEnded, PtOnce!TypeOK
<1>8. \A u \in OnceThreads : \A i \in 1..Len(running'[u]) :
        /\ i \in 1..Len(running[u]) /\ running'[u][i] = running[u][i]
        /\ u # t \/ i # n
  <2> SUFFICES ASSUME NEW u \in OnceThreads, NEW i \in 1..Len(running'[u])
               PROVE  /\ i \in 1..Len(running[u]) /\ running'[u][i] = running[u][i]
                      /\ u # t \/ i # n
    OBVIOUS
  <2>1. CASE u = t
    BY <1>2, <1>4, <2>1
  <2>2. CASE u # t
    BY <1>4, <2>2
  <2> QED
    BY <2>1, <2>2
<1>9. \A u \in OnceThreads : \A i \in 1..Len(running'[u]) :
        running'[u][i] \in Controls \ {o}
  <2> SUFFICES ASSUME NEW u \in OnceThreads, NEW i \in 1..Len(running'[u])
               PROVE  running'[u][i] \in Controls \ {o}
    OBVIOUS
  <2>1. /\ i \in 1..Len(running[u]) /\ running'[u][i] = running[u][i]
        /\ u # t \/ i # n
    BY <1>8
  <2>2. running[u][i] \in Controls
    BY <2>1, OnceStack
  <2>3. n \in 1..Len(running[t])
    BY <1>2
  <2>4. running[u][i] # running[t][n]
    BY <2>1, <2>3 DEF OnceInv, OnceAlone
  <2> QED
    BY <2>1, <2>2, <2>4
<1>10. OnceRunning'
  BY <1>1, <1>3, <1>8, <1>9 DEF OnceInv, OnceRunning
<1>11. OnceAlone'
  BY <1>8 DEF OnceInv, OnceAlone
<1> QED
  BY <1>5, <1>6, <1>7, <1>10, <1>11 DEF OnceInv

(* A trap throws the thread out of all of them.                            *)
LEMMA OnceTraps ==
  ASSUME OnceInv, NEW t \in OnceThreads, PtOnce!Trap(t)
  PROVE  OnceInv'
<1>1. UNCHANGED <<control, spinning, ran, passed>>
  BY DEF PtOnce!Trap
<1>2. CASE t \in Recovering
  <2>1. /\ running' = [running EXCEPT ![t] = <<>>] /\ aborted' = aborted
        /\ trapped' = trapped \cup {running[t][i] : i \in 1..Len(running[t])}
    BY <1>2 DEF PtOnce!Trap
  <2>2. /\ running' \in [OnceThreads -> Seq(Controls)] /\ Len(running'[t]) = 0
        /\ \A u \in OnceThreads \ {t} : running'[u] = running[u]
    BY <2>1 DEF OnceInv, PtOnce!TypeOK
  <2>3. PtOnce!TypeOK'
    <3>1. trapped' \subseteq Controls
      BY <2>1, OnceStack DEF OnceInv, PtOnce!TypeOK
    <3> QED
      BY <1>1, <2>1, <2>2, <3>1 DEF OnceInv, PtOnce!TypeOK
  <2>4. OnceRan' /\ OnceEnded'
    BY <1>1, <2>1 DEF OnceInv, OnceRan, OnceEnded, OnceRunning
  <2>5. \A u \in OnceThreads : \A i \in 1..Len(running'[u]) :
          u # t /\ i \in 1..Len(running[u]) /\ running'[u][i] = running[u][i]
    BY <2>2
  <2>6. OnceRunning'
    BY <1>1, <2>1, <2>5 DEF OnceInv, OnceRunning, OnceAlone
  <2>7. OnceAlone'
    BY <2>5 DEF OnceInv, OnceAlone
  <2> QED
    BY <2>3, <2>4, <2>6, <2>7 DEF OnceInv
<1>3. CASE t \notin Recovering
  <2>1. aborted' = TRUE /\ UNCHANGED <<running, trapped>>
    BY <1>3 DEF PtOnce!Trap
  <2> QED
    BY <1>1, <2>1 DEF OnceInv, PtOnce!TypeOK, OnceRan, OnceRunning, OnceAlone, OnceEnded
<1> QED
  BY <1>2, <1>3

(* Every step of a once control keeps the invariant.                       *)
LEMMA OnceStep == OnceInv /\ [PtOnce!Next]_(PtOnce!vars) => OnceInv'
<1> SUFFICES ASSUME OnceInv, [PtOnce!Next]_(PtOnce!vars) PROVE OnceInv'
  OBVIOUS
<1>1. CASE UNCHANGED PtOnce!vars
  BY <1>1 DEF PtOnce!vars, OnceInv, PtOnce!TypeOK, OnceRan, OnceRunning, OnceAlone, OnceEnded
<1>2. CASE PtOnce!Next
  BY <1>2, OnceEnters, OnceSpins, OnceFinishes, OnceTraps DEF PtOnce!Next
<1> QED
  BY <1>1, <1>2

(* However many threads call pthread_once, and whichever initialisers nest *)
(* or trap, each is entered at most once and no call returns before it has *)
(* run to its end.                                                         *)
THEOREM InitialisedOnce == MCSpec => []OnceIsOnce
<1>1. MCInit => OnceInv
  BY OnceBegins DEF MCInit
<1>2. [MCNext]_allVars => [PtOnce!Next]_(PtOnce!vars)
  BY DEF MCNext, allVars, onceVars, PtOnce!vars
<1>3. OnceInv => OnceIsOnce
  <2> SUFFICES ASSUME OnceInv PROVE OnceIsOnce
    OBVIOUS
  <2>1. PtOnce!RunsAtMostOnce
    BY DEF OnceInv, OnceRan, PtOnce!RunsAtMostOnce, PtOnce!TypeOK
  <2>2. PtOnce!ReturnsAfterInit
    BY DEF OnceInv, PtOnce!TypeOK, OnceRan, OnceRunning, OnceEnded, PtOnce!ReturnsAfterInit
  <2> QED
    BY <2>1, <2>2 DEF OnceInv, OnceIsOnce
<1> QED
  BY <1>1, <1>2, <1>3, OnceStep, PTL DEF MCSpec
=============================================================================
