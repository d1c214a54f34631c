--------------------------- MODULE RegistryProofs ---------------------------
(***************************************************************************)
(* Proofs about the handle registry, for any number of threads, pthread    *)
(* objects and ids.                                                        *)
(*                                                                         *)
(* The properties are not inductive: that Obtain finds what it filled in   *)
(* rests on where the thread that is filling it in stands.  IInv adds what *)
(* the lock gives: one thread at a time between Test and Find, with the    *)
(* word it is working on known at each step.                               *)
(***************************************************************************)
EXTENDS Registry, FiniteSetTheorems, TLAPS

(* Whoever is inside is the holder of g_registry.                          *)
Locked == \A t \in Threads : pc[t] \in InLock => g_registry = t

(* Outside of the guest a thread works on a word, alone if it releases it. *)
InCall == \A t \in Threads : pc[t] # "idle" => arg[t] \in Words
Alone ==
  \A t, u \in Threads :
    pc[t] \in ReleaseSteps /\ arg[t] \in Words /\ arg[u] = arg[t] => t = u

(* The ids the registry wrote: a foreign word may hold the number of one.  *)
Written == Ids \ {Foreign}

(* Ids in use are below g_next_id, and no two words hold the same one.     *)
Fresh == /\ \A w \in Words : word[w] \in Written => word[w] < g_next_id
         /\ \A i \in items : i < g_next_id
Own == \A v, w \in Words : word[v] \in Written /\ word[w] = word[v] => v = w

(* What the word of a thread inside holds.                                 *)
AtStep ==
  \A t \in Threads :
    /\ pc[t] = "take" => word[arg[t]] = 0
    /\ pc[t] = "insert" => word[arg[t]] \in Ids /\ word[arg[t]] < g_next_id
    /\ pc[t] = "find" => word[arg[t]] # 0

(* A word names an object, but for the thread between its two halves.      *)
Named ==
  \A w \in Words : word[w] \in Written =>
    word[w] \in items \/ \E t \in Threads : pc[t] \in {"insert", "clear"} /\ arg[t] = w

(* What Obtain returned is what the word still says, and was handed out.   *)
Answers ==
  \A w \in Words : \A g \in got[w] :
    /\ IF g = Null THEN word[w] = Foreign ELSE word[w] = g
    /\ g < g_next_id

IInv ==
  /\ TypeOK
  /\ Locked /\ InCall /\ Alone
  /\ Fresh /\ Own
  /\ AtStep /\ Named /\ Answers

(* The registry begins empty, and no call is under way.                    *)
LEMMA InitIInv == Init => IInv
  BY RegistryAssumption
     DEF Init, IInv, TypeOK, Locked, InCall, Alone, Fresh, Own, AtStep, Named, Answers,
         Written, Ids, Null, InLock, ReleaseSteps, ObtainSteps

(* A set stays within T when an element of T joins it.                     *)
LEMMA AddElement ==
  ASSUME NEW S, NEW T, S \subseteq T, NEW x \in T
  PROVE  S \cup {x} \subseteq T
  OBVIOUS

(* One case per step of a call.                                            *)
LEMMA NextIInv == IInv /\ [Next]_vars => IInv'
<1> SUFFICES ASSUME IInv, [Next]_vars PROVE IInv'
  OBVIOUS
<1> USE RegistryAssumption
    DEF IInv, TypeOK, Locked, InCall, Alone, Fresh, Own, AtStep, Named, Answers,
        Written, Ids, Null, InLock, ReleaseSteps, ObtainSteps, Go
<1>1. ASSUME NEW t \in Threads, NEW w \in Words, CallObtain(t, w) PROVE IInv'
  BY <1>1 DEF CallObtain, NotResetting
<1>2. ASSUME NEW t \in Threads, NEW w \in Words, CallInit(t, w) PROVE IInv'
  BY <1>2 DEF CallInit, Unused
<1>3. ASSUME NEW t \in Threads, NEW w \in Words, CallRelease(t, w) PROVE IInv'
  BY <1>3 DEF CallRelease, Unused
<1>4. ASSUME NEW t \in Threads, Acquire(t) PROVE IInv'
  BY <1>4 DEF Acquire
<1>5. ASSUME NEW t \in Threads, Test(t) PROVE IInv'
  BY <1>5 DEF Test
<1>6. ASSUME NEW t \in Threads, Take(t) PROVE IInv'
  BY <1>6 DEF Take
<1>7. ASSUME NEW t \in Threads, Insert(t) PROVE IInv'
  <2> USE <1>7 DEF Insert
  <2>0. word[arg[t]] \in Ids OBVIOUS
  <2>1. TypeOK'
    <3>1. items \subseteq Ids /\ items' = items \cup {word[arg[t]]} OBVIOUS
    <3>2. items' \subseteq Ids BY <2>0, <3>1, AddElement
    <3> QED BY <3>2
  <2>2. Locked' /\ InCall' /\ Alone' OBVIOUS
  <2>3. Fresh' /\ Own' OBVIOUS
  <2>4. AtStep' OBVIOUS
  <2>5. Named' OBVIOUS
  <2>6. Answers' OBVIOUS
  <2> QED BY <2>1, <2>2, <2>3, <2>4, <2>5, <2>6
<1>8. ASSUME NEW t \in Threads, Find(t) PROVE IInv'
  BY <1>8 DEF Find, Lookup
<1>9. ASSUME NEW t \in Threads, Erase(t) PROVE IInv'
  <2> USE <1>9 DEF Erase
  <2>1. TypeOK' OBVIOUS
  <2>2. Locked' /\ InCall' /\ Alone' OBVIOUS
  <2>3. Fresh' /\ Own' OBVIOUS
  <2>4. AtStep' OBVIOUS
  <2>5. Named' OBVIOUS
  <2>6. Answers' OBVIOUS
  <2> QED BY <2>1, <2>2, <2>3, <2>4, <2>5, <2>6
<1>10. ASSUME NEW t \in Threads, Clear(t) PROVE IInv'
  BY <1>10 DEF Clear
<1>11. CASE UNCHANGED vars
  BY <1>11 DEF vars
<1> QED
  BY <1>1, <1>2, <1>3, <1>4, <1>5, <1>6, <1>7, <1>8, <1>9, <1>10, <1>11
     DEF Next, Call, Step

(* The accounts of ids, objects and calls hold for good.                   *)
THEOREM Invariance == Spec => []IInv
  BY InitIInv, NextIInv, PTL DEF Spec

-----------------------------------------------------------------------------
(* Every variable keeps its type (Registry<T>).                            *)
THEOREM Typing == Spec => []TypeOK
<1>1. IInv => TypeOK
  BY DEF IInv
<1> QED
  BY <1>1, Invariance, PTL

(* However many threads use an object first at once, they are all given the
   same host object, unless its word is foreign and the ids have come to its
   number (Registry<T>::Obtain).                                           *)
THEOREM ObtainsOneObject == Spec => []OneObjectPerWord
<1>1. ASSUME IInv, NEW w \in Words, word[w] # Foreign \/ Apart PROVE Cardinality(got[w]) <= 1
  <2> DEFINE Answer == IF word[w] = Foreign THEN Null ELSE word[w]
  <2>1. ASSUME NEW g \in got[w] PROVE g = Answer
    BY <1>1, <2>1, RegistryAssumption DEF IInv, Answers, TypeOK, Ids, Null, Apart
  <2>2. got[w] \in SUBSET {Answer}
    BY <2>1
  <2>3. IsFiniteSet({Answer}) /\ Cardinality({Answer}) = 1
    BY FS_Singleton
  <2>4. Cardinality(got[w]) <= Cardinality({Answer})
    BY <2>2, <2>3, FS_Subset
  <2> QED BY <2>3, <2>4
<1>2. IInv => OneObjectPerWord
  BY <1>1 DEF OneObjectPerWord
<1> QED
  BY <1>2, Invariance, PTL

(* Two pthread objects share no host object, whatever order they were
   created and destroyed in, but the one whose id is what foreign storage
   holds, and that not before the ids have come to it (g_next_id).         *)
THEOREM SharesNoOther == Spec => []NoSharedObject
<1>1. ASSUME IInv, NEW v \in Words, NEW w \in Words, v # w, NEW g \in got[v] \cap got[w], g # Null
      PROVE  g = Foreign /\ ~Apart
  <2>1. word[v] = g /\ word[w] = g /\ g \in Ids /\ g < g_next_id
    BY <1>1 DEF IInv, Answers, TypeOK, Null
  <2>2. g = Foreign
    BY <1>1, <2>1 DEF IInv, Own, Written
  <2>3. g_next_id \in Nat /\ Foreign \in Nat
    BY <1>1, RegistryAssumption DEF IInv, TypeOK
  <2>4. ~Apart
    BY <2>1, <2>2, <2>3 DEF Apart
  <2> QED
    BY <2>2, <2>4
<1>2. IInv => NoSharedObject
  BY <1>1 DEF NoSharedObject
<1> QED
  BY <1>2, Invariance, PTL

(* Obtain comes back with nothing only for a word that came from somewhere
   else (Registry<T>::Obtain).                                             *)
THEOREM FindsWhatItFilledIn == Spec => []FindsItsOwn
<1>1. IInv => FindsItsOwn
  BY DEF IInv, FindsItsOwn, Answers, Null
<1> QED
  BY <1>1, Invariance, PTL

(* No Obtain, by any thread, rewrites a word that names an object.         *)
THEOREM KeepsWords == Spec => WordIsStable
<1> DEFINE Kept ==
      \A w \in Words :
        word[w] \in items /\ word'[w] # word[w] =>
          \E t \in Threads : \/ pc[t] = "clear" /\ arg[t] = w
                             \/ pc[t] = "idle" /\ arg'[t] = w
<1>1. IInv /\ [Next]_vars => Kept
  <2> SUFFICES ASSUME IInv, Next PROVE Kept
    BY DEF vars
  <2> USE DEF IInv, TypeOK, AtStep, Ids
  <2>1. ASSUME NEW t \in Threads, NEW w \in Words, CallInit(t, w) PROVE Kept
    BY <2>1 DEF CallInit
  <2>2. ASSUME NEW t \in Threads, Take(t) PROVE Kept
    BY <2>2 DEF Take
  <2>3. ASSUME NEW t \in Threads, Clear(t) PROVE Kept
    BY <2>3 DEF Clear
  <2>4. CASE word' = word
    BY <2>4
  <2> QED
    BY <2>1, <2>2, <2>3, <2>4
       DEF Next, Call, Step, CallObtain, CallRelease, Acquire, Test, Insert, Find, Erase
<1> QED
  BY <1>1, Invariance, PTL DEF Spec, WordIsStable

-----------------------------------------------------------------------------
(* The registry, statement by statement, implements a table of bindings in
   which an object gets a handle of its own and keeps it until it is reset,
   for as long as the ids have not come to a foreign word's number.        *)
THEOREM Refinement == Spec => Binding
<1> DEFINE B == Bindings
<1> USE RegistryAssumption DEF Bindings, BoundTo, Ids, Null
<1>1. Init => HB!Init
  BY DEF Init, HB!Init
<1>2. ASSUME IInv, [Next]_vars, Apart' PROVE [HB!Next]_B
  <2> USE <1>2 DEF IInv, TypeOK
  <2>0. Apart /\ Foreign \notin items
    <3>1. g_next_id \in Nat /\ (g_next_id' = g_next_id \/ g_next_id' = g_next_id + 1)
      BY DEF Next, Call, CallObtain, CallInit, CallRelease, Step, Acquire, Test, Take, Insert, Find,
             Erase, Clear, vars
    <3>2. Apart
      BY <3>1 DEF Apart
    <3> QED
      BY <3>1, <3>2 DEF Apart, Fresh
  <2>1. ASSUME NEW w \in Words, BoundTo(w)' = Null,
               \A v \in Words \ {w} : BoundTo(v)' = BoundTo(v)
        PROVE [HB!Next]_B
    <3>1. CASE BoundTo(w) = Null
      BY <2>1, <3>1
    <3>2. CASE BoundTo(w) # Null
      <4>1. B' = [B EXCEPT ![w] = Null]
        BY <2>1
      <4>2. HB!Unbind(w)
        BY <3>2, <4>1 DEF HB!Unbind
      <4> QED BY <4>2 DEF HB!Next
    <3> QED BY <3>1, <3>2
  <2>2. ASSUME NEW t \in Threads, NEW w \in Words, CallInit(t, w)
        PROVE [HB!Next]_B
    <3>1. BoundTo(w)' = Null /\ \A v \in Words \ {w} : BoundTo(v)' = BoundTo(v)
      BY <2>2 DEF CallInit
    <3> QED BY <2>1, <3>1
  <2>3. ASSUME NEW t \in Threads, Take(t) PROVE [HB!Next]_B
    <3>1. g_next_id \notin items /\ 0 \notin items
      BY DEF Fresh
    <3>2. arg[t] \in Words /\ word[arg[t]] = 0
      BY <2>3 DEF Take, AtStep, InCall
    <3>3. \A w \in Words : BoundTo(w)' = BoundTo(w)
      BY <2>3, <3>1, <3>2 DEF Take
    <3> QED BY <3>3
  <2>4. ASSUME NEW t \in Threads, Insert(t) PROVE [HB!Next]_B
    <3>1. PICK w \in Words, h \in Ids : w = arg[t] /\ word[w] = h /\ h \in Written
      <4>1. arg[t] \in Words /\ word[arg[t]] \in Ids /\ word[arg[t]] < g_next_id
        BY <2>4 DEF Insert, AtStep, InCall
      <4> QED
        BY <2>0, <4>1 DEF Apart, Written
    <3>2. word' = word /\ items' = items \cup {h}
      BY <2>4, <3>1 DEF Insert
    <3>3. \A v \in Words \ {w} : BoundTo(v)' = BoundTo(v) /\ BoundTo(v) # h
      BY <3>1, <3>2 DEF Own
    <3>4. BoundTo(w)' = h
      BY <3>1, <3>2
    <3>5. CASE h \in items
      <4>1. B' = B
        BY <3>2, <3>5
      <4> QED BY <4>1
    <3>6. CASE h \notin items
      <4>1. B' = [B EXCEPT ![w] = h]
        BY <3>1, <3>3, <3>4
      <4>2. HB!Bind(w, h)
        BY <3>1, <3>3, <3>6, <4>1 DEF HB!Bind
      <4> QED BY <4>2 DEF HB!Next
    <3> QED BY <3>5, <3>6
  <2>5. ASSUME NEW t \in Threads, Erase(t) PROVE [HB!Next]_B
    <3>1. PICK w \in Words : w = arg[t]
      BY <2>5 DEF Erase, InCall
    <3>2. word' = word /\ items' = items \ {word[w]}
      BY <2>5, <3>1 DEF Erase
    <3>3. BoundTo(w)' = Null /\ \A v \in Words \ {w} : BoundTo(v)' = BoundTo(v)
      BY <2>0, <3>2 DEF Own, Written
    <3> QED BY <2>1, <3>3
  <2>6. ASSUME NEW t \in Threads, Clear(t) PROVE [HB!Next]_B
    <3>1. PICK w \in Words : w = arg[t]
      BY <2>6 DEF Clear, InCall
    <3>2. items' = items /\ word' = [word EXCEPT ![w] = 0]
      BY <2>6, <3>1 DEF Clear
    <3>3. BoundTo(w)' = Null /\ \A v \in Words \ {w} : BoundTo(v)' = BoundTo(v)
      BY <3>2
    <3> QED BY <2>1, <3>3
  <2>7. CASE word' = word /\ items' = items
    BY <2>7
  <2> QED
    BY <2>2, <2>3, <2>4, <2>5, <2>6, <2>7
       DEF Next, Call, Step, CallObtain, CallRelease, Acquire, Test, Find, vars
<1>3. IInv /\ [Next]_vars => [Apart' => HB!Next]_B
  BY <1>2
<1> QED
  BY <1>1, <1>3, Invariance, PTL DEF Spec, Binding
=============================================================================
