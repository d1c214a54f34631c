-------------------------- MODULE RuntimeCoreProofs --------------------------
(***************************************************************************)
(* The parts of the runtime core, proved for every value of their          *)
(* constants.  Each has an inductive invariant of its own; they share no   *)
(* state, so the composition preserves all four.                           *)
(***************************************************************************)
EXTENDS MCRuntimeCore, FiniteSetTheorems, SequenceTheorems, WellFoundedInduction,
        TLAPS

-----------------------------------------------------------------------------
(* Exclusive.  Why comparing values is enough for its two loops.           *)

(* The lock word is not 0 while somebody is in the critical section, and   *)
(* that somebody is alone.                                                 *)
LockHeld == \A t \in Threads : pc[t] = "critical" =>
                /\ mem["lock"] # 0
                /\ \A u \in Threads : pc[u] = "critical" => u = t

IInv == TypeOK /\ NoLostIncrement /\ LockHeld

(* The remainder the counter wraps with stays a value.                     *)
LEMMA Wraps ==
  ASSUME NEW n \in Values
  PROVE  (n + 1) % Modulus \in Values
  BY ExclusiveAssumption DEF Values

(* Every hart begins with no reservation.                                  *)
LEMMA InitIInv == Init => IInv
<1> SUFFICES ASSUME Init PROVE IInv
  OBVIOUS
<1>1. 0 \in Values
  BY ExclusiveAssumption DEF Values
<1>2. TypeOK
  BY <1>1 DEF Init, TypeOK, Addrs
<1>3. NoLostIncrement /\ LockHeld
  BY DEF Init, NoLostIncrement, LockHeld, Addrs
<1> QED BY <1>2, <1>3 DEF IInv

(* One case per action of a hart.                                          *)
LEMMA NextIInv == IInv /\ [Next]_vars => IInv'
<1> SUFFICES ASSUME IInv, [Next]_vars PROVE IInv'
  OBVIOUS
<1> USE DEF IInv
<1>0. 0 \in Values /\ 1 \in Values
  BY ExclusiveAssumption DEF Values
<1>1. ASSUME NEW t \in Threads, NEW a \in Addrs, Load(t, a) PROVE IInv'
  <2>0. /\ mem[a] \in Values /\ (a # "lock" \/ mem[a] = 0 => pc'[t] = a)
        /\ (a = "lock" /\ mem[a] # 0 => pc'[t] = "idle")
    BY <1>1 DEF TypeOK, Load
  <2>1. TypeOK'
    <3>1. t_reservation' \in [Threads -> [address : Addrs, value : Values, valid : BOOLEAN]]
      BY <1>1, <2>0 DEF TypeOK, Load, LoadExclusive
    <3>2. \A u \in Threads : pc'[u] = "lock" => t_reservation'[u].value = 0
      BY <1>1, <2>0 DEF TypeOK, Load, LoadExclusive
    <3>3. pc' \in [Threads -> {"idle", "counter", "lock", "critical"}]
      BY <1>1 DEF TypeOK, Load, Addrs
    <3>4. mem' \in [Addrs -> Values] /\ added' \in Values
      BY <1>1 DEF TypeOK, Load, LoadExclusive
    <3> QED BY <3>1, <3>2, <3>3, <3>4 DEF TypeOK
  <2>2. \A u \in Threads : pc'[u] = "critical" => pc[u] = "critical"
    BY <1>1 DEF TypeOK, Load, Addrs
  <2>3. NoLostIncrement' /\ LockHeld'
    BY <1>1, <2>2 DEF Load, LoadExclusive, NoLostIncrement, LockHeld
  <2> QED BY <2>1, <2>3
<1>2. ASSUME NEW t \in Threads, Increment(t) PROVE IInv'
  <2>1. \A u \in Threads : pc'[u] = "critical" => pc[u] = "critical"
    BY <1>2 DEF TypeOK, Increment
  <2>2. mem'["lock"] = mem["lock"]
    BY <1>2 DEF TypeOK, Increment, StoreExclusive, Write, Addrs
  <2>3. LockHeld'
    BY <2>1, <2>2 DEF LockHeld
  <2>4. CASE Succeeds(t, "counter")
    <3>1. t_reservation[t].value = added /\ added \in Values
      BY <2>4 DEF Succeeds, CompareExchange, NoLostIncrement, TypeOK
    <3>2. (added + 1) % Modulus \in Values
      BY <3>1, Wraps
    <3>3. mem' = [mem EXCEPT !["counter"] = (added + 1) % Modulus]
          /\ added' = (added + 1) % Modulus
      BY <1>2, <2>4, <3>1 DEF Increment, StoreExclusive, Write
    <3>4. NoLostIncrement'
      BY <3>3 DEF TypeOK, NoLostIncrement, Addrs
    <3>5. TypeOK'
      <4>1. /\ mem' \in [Addrs -> Values] /\ added' \in Values
            /\ pc' \in [Threads -> {"idle", "counter", "lock", "critical"}]
        BY <1>2, <3>2, <3>3 DEF TypeOK, Increment
      <4>2. t_reservation' \in [Threads -> [address : Addrs, value : Values, valid : BOOLEAN]]
        BY <1>2 DEF TypeOK, Increment, StoreExclusive
      <4>3. \A u \in Threads : pc'[u] = "lock" => t_reservation'[u].value = 0
        BY <1>2 DEF TypeOK, Increment, StoreExclusive
      <4> QED BY <4>1, <4>2, <4>3 DEF TypeOK
    <3> QED BY <2>3, <3>4, <3>5
  <2>5. CASE ~Succeeds(t, "counter")
    <3>1. UNCHANGED <<mem, added>>
      BY <1>2, <2>5 DEF Increment, StoreExclusive
    <3>2. NoLostIncrement'
      BY <3>1 DEF NoLostIncrement
    <3>3. t_reservation' \in [Threads -> [address : Addrs, value : Values, valid : BOOLEAN]]
      BY <1>2 DEF TypeOK, Increment, StoreExclusive
    <3>4. /\ pc' \in [Threads -> {"idle", "counter", "lock", "critical"}]
          /\ \A u \in Threads : pc'[u] = "lock" => t_reservation'[u].value = 0
      BY <1>2 DEF TypeOK, Increment, StoreExclusive
    <3>5. TypeOK'
      BY <3>1, <3>3, <3>4 DEF TypeOK
    <3> QED BY <2>3, <3>2, <3>5
  <2> QED BY <2>4, <2>5
<1>3. ASSUME NEW t \in Threads, Acquire(t) PROVE IInv'
  <2>1. mem'["counter"] = mem["counter"] /\ added' = added
    BY <1>3 DEF TypeOK, Acquire, StoreExclusive, Write, Addrs
  <2>2. NoLostIncrement'
    BY <2>1 DEF NoLostIncrement
  <2>3. TypeOK'
    <3>1. mem' \in [Addrs -> Values] /\ added' \in Values
      BY <1>0, <1>3 DEF TypeOK, Acquire, StoreExclusive, Write
    <3>2. t_reservation' \in [Threads -> [address : Addrs, value : Values, valid : BOOLEAN]]
      BY <1>3 DEF TypeOK, Acquire, StoreExclusive
    <3>3. /\ pc' \in [Threads -> {"idle", "counter", "lock", "critical"}]
          /\ \A u \in Threads : pc'[u] = "lock" => t_reservation'[u].value = 0
      BY <1>3 DEF TypeOK, Acquire, StoreExclusive
    <3> QED BY <3>1, <3>2, <3>3 DEF TypeOK
  <2>4. CASE Succeeds(t, "lock")
    <3>1. mem["lock"] = 0
      BY <1>3, <2>4 DEF TypeOK, Acquire, Succeeds, CompareExchange
    <3>2. \A u \in Threads : pc'[u] = "critical" => u = t
      BY <1>3, <3>1 DEF LockHeld, TypeOK, Acquire
    <3>3. mem'["lock"] = 1
      BY <1>3, <2>4 DEF TypeOK, Acquire, StoreExclusive, Write, Addrs
    <3> QED BY <2>2, <2>3, <3>2, <3>3 DEF LockHeld
  <2>5. CASE ~Succeeds(t, "lock")
    <3>1. mem' = mem /\ \A u \in Threads : pc'[u] = "critical" => pc[u] = "critical"
      BY <1>3, <2>5 DEF TypeOK, Acquire, StoreExclusive
    <3> QED BY <2>2, <2>3, <3>1 DEF LockHeld
  <2> QED BY <2>4, <2>5
<1>4. ASSUME NEW t \in Threads, Release(t) PROVE IInv'
  <2>1. \A u \in Threads : pc'[u] # "critical"
    BY <1>4 DEF LockHeld, TypeOK, Release
  <2>2. mem'["counter"] = mem["counter"] /\ added' = added
    BY <1>4 DEF TypeOK, Release, Write, Addrs
  <2>3. TypeOK'
    BY <1>0, <1>4 DEF TypeOK, Release, Write, Addrs
  <2> QED BY <2>1, <2>2, <2>3 DEF LockHeld, NoLostIncrement
<1>5. CASE UNCHANGED vars
  BY <1>5 DEF vars, TypeOK, NoLostIncrement, LockHeld, Succeeds, CompareExchange
<1> QED BY <1>1, <1>2, <1>3, <1>4, <1>5 DEF Next

(* The inductive invariant of the two loops.                               *)
THEOREM Invariance == Spec => []IInv
<1>1. Init => IInv
  BY InitIInv
<1>2. IInv /\ [Next]_vars => IInv'
  BY NextIInv
<1> QED BY <1>1, <1>2, PTL DEF Spec

(* The reservation, the loops' progress and the words keep their types: in *)
(* particular a thread about to take the lock saw it free.                 *)
THEOREM Typing == Spec => []TypeOK
<1>1. IInv => TypeOK
  BY DEF IInv
<1> QED BY Invariance, <1>1, PTL

(* No increment through load- and store-exclusive is lost or made twice,   *)
(* however often the counter wraps between a load and its store.           *)
THEOREM LosesNoIncrement == Spec => []NoLostIncrement
<1>1. IInv => NoLostIncrement
  BY DEF IInv
<1> QED BY Invariance, <1>1, PTL

(* A spin lock made of the pair is held by one thread at a time.           *)
THEOREM Excludes == Spec => []LockExcludes
<1>1. ASSUME IInv PROVE LockExcludes
  <2> DEFINE S == {t \in Threads : pc[t] = "critical"}
  <2>1. CASE S = {}
    BY <2>1, FS_EmptySet DEF LockExcludes
  <2>2. CASE S # {}
    <3>1. PICK t \in S : TRUE
      BY <2>2
    <3>2. S = {t}
      BY <1>1, <3>1 DEF IInv, LockHeld
    <3> HIDE DEF S
    <3>3. Cardinality(S) = 1
      BY <3>2, FS_Singleton
    <3> QED BY <3>3 DEF S, LockExcludes
  <2> QED BY <2>1, <2>2
<1> QED BY Invariance, <1>1, PTL
-----------------------------------------------------------------------------
(* The naturals are well ordered: a set of them has a least member.        *)
LEMMA Least ==
  ASSUME NEW S \in SUBSET Nat, S # {}
  PROVE  \E i \in S : \A j \in S : i <= j
<1>1. PICK i \in S : \A j \in S : ~ (<<j, i>> \in OpToRel(<, Nat))
  BY NatLessThanWellFounded, WFMin
<1>2. \A j \in S : ~ (j < i)
  BY <1>1 DEF OpToRel
<1> QED
  BY <1>2
-----------------------------------------------------------------------------
(* NativeTables.  While one thread registers, the entry it is writing lies *)
(* just past the counted ones, every counted entry is whole and its        *)
(* address its own, and what a search still has to look at holds what the  *)
(* branch is owed.                                                         *)
OneRegistrar == \A r, s \in Registrars : r = s

TableTypes ==
    /\ Tables!TypeOK
    /\ count \in [Tables!Kinds -> Nat]
    /\ kind \in [Tables!HostThreads -> Tables!Kinds]
    /\ target \in [Tables!HostThreads -> HostFunctions \cup {Null}]
    /\ index \in [Tables!HostThreads -> Nat] /\ limit \in [Tables!HostThreads -> Nat]
    /\ wanted \in [Tables!HostThreads -> SUBSET Tables!Kinds]

Writing == {"address", "name", "count"}

EntryBeingWritten == \A t \in Tables!HostThreads : tablePc[t] \in Writing =>
    /\ t \in Registrars /\ target[t] \in HostFunctions
    /\ index[t] = count[kind[t]]
    /\ target[t] \notin Tables!Entries(kind[t])
    /\ tablePc[t] # "address" => address[kind[t]][index[t]] = target[t]
    /\ tablePc[t] = "count" => name[kind[t]][index[t]] = target[t]

EntriesWhole == \A k \in Tables!Kinds : \A i \in Tables!Indices : i < count[k] =>
    name[k][i] = address[k][i] /\ address[k][i] \in HostFunctions

KnownHasEntry == \A k \in Tables!Kinds : \A a \in HostFunctions :
    <<k, a>> \in known => a \in Tables!Entries(k)

(* What a search has passed does not hold its target; what it has before   *)
(* it holds what was known when it began.                                  *)
SearchOwes == \A t \in Tables!HostThreads :
    /\ tablePc[t] = "search" =>
         /\ target[t] \in HostFunctions
         /\ limit[t] <= count[kind[t]]
         /\ \A k \in wanted[t] : <<k, target[t]>> \in known
         /\ kind[t] = "native" => "ctx" \notin wanted[t]
         /\ kind[t] \in wanted[t] => \E i \in Tables!Indices :
               index[t] <= i /\ i < limit[t] /\ address[kind[t]][i] = target[t]
    /\ tablePc[t] = "found" =>
         /\ index[t] < count[kind[t]] /\ address[kind[t]][index[t]] = target[t]
         /\ kind[t] = "native" => "ctx" \notin wanted[t]
    /\ tablePc[t] = "missed" => wanted[t] = {}

TablesInv ==
    /\ TableTypes /\ EntryBeingWritten /\ EntriesWhole /\ Tables!OneEntryEach
    /\ KnownHasEntry /\ SearchOwes

(* The counted entries of a table as long as neither they nor the count    *)
(* change.                                                                 *)
LEMMA EntriesStay ==
  ASSUME TablesInv, NEW k \in Tables!Kinds, address'[k] = address[k], count'[k] = count[k]
  PROVE  Tables!Entries(k)' = Tables!Entries(k)
  BY DEF Tables!Entries

(* Every table index is one a full table still has room to be asked for.   *)
LEMMA BelowCount ==
  ASSUME CoreAssumption, TablesInv, NEW k \in Tables!Kinds
  PROVE  /\ 0 .. count[k] \subseteq Tables!Indices
         /\ Tables!Indices \subseteq Nat
<1>1. TableMax \in [Tables!Kinds -> Nat \ {0}] /\ count[k] \in 0 .. TableMax[k]
  BY DEF CoreAssumption, Tables!TablesAssumption, TablesInv, TableTypes, Tables!TypeOK
<1>2. TableMax["ctx"] \in Nat /\ TableMax["native"] \in Nat /\ (k = "ctx" \/ k = "native")
  BY <1>1 DEF Tables!Kinds
<1> QED
  BY <1>1, <1>2 DEF Tables!Indices

(* Nothing is registered and nobody searches.                              *)
LEMMA TablesBegin ==
  ASSUME CoreAssumption, Tables!Init
  PROVE  TablesInv
<1>1. 0 \in Tables!Indices
  BY DEF CoreAssumption, Tables!TablesAssumption, Tables!Indices, Tables!Kinds
<1>2. TableTypes
  BY DEF CoreAssumption, Tables!TablesAssumption, Tables!Init, TableTypes, Tables!TypeOK, Tables!Kinds
<1>3. EntryBeingWritten /\ EntriesWhole /\ Tables!OneEntryEach /\ KnownHasEntry /\ SearchOwes
  BY DEF Tables!Init, EntryBeingWritten, EntriesWhole, Tables!OneEntryEach, KnownHasEntry, SearchOwes,
         Writing, Tables!Indices
<1> QED
  BY <1>2, <1>3 DEF TablesInv

(* A registration starts at the entry just past the counted ones.          *)
LEMMA RegisterKeeps ==
  ASSUME CoreAssumption, OneRegistrar, TablesInv, NEW t \in Tables!HostThreads,
         NEW k \in Tables!Kinds, NEW a \in HostFunctions, Tables!Register(t, k, a)
  PROVE  TablesInv'
<1>1. CASE count[k] >= TableMax[k]
  BY <1>1 DEF Tables!Register, Tables!vars, TablesInv, TableTypes, Tables!TypeOK, EntryBeingWritten,
     EntriesWhole, Tables!OneEntryEach, KnownHasEntry, SearchOwes, Tables!Entries
<1>2. CASE ~(count[k] >= TableMax[k]) /\ a \in Tables!Entries(k)
  <2>1. /\ known' = known \cup {<<k, a>>}
        /\ UNCHANGED <<address, name, count, tablePc, kind, target, index, limit, wanted>>
    BY <1>2 DEF Tables!Register, Tables!tables
  <2>2. TableTypes' /\ EntryBeingWritten' /\ EntriesWhole' /\ Tables!OneEntryEach'
    BY <2>1 DEF TablesInv, TableTypes, Tables!TypeOK, EntryBeingWritten, EntriesWhole,
       Tables!OneEntryEach, Tables!Entries
  <2>3. KnownHasEntry'
    BY <1>2, <2>1 DEF TablesInv, KnownHasEntry, Tables!Entries
  <2>4. SearchOwes'
    BY <2>1 DEF TablesInv, SearchOwes
  <2> QED
    BY <2>2, <2>3, <2>4 DEF TablesInv
<1>3. CASE ~(count[k] >= TableMax[k]) /\ a \notin Tables!Entries(k)
  <2>1. /\ t \in Registrars /\ tablePc[t] = "idle"
        /\ tablePc' = [tablePc EXCEPT ![t] = "address"]
        /\ kind' = [kind EXCEPT ![t] = k] /\ target' = [target EXCEPT ![t] = a]
        /\ index' = [index EXCEPT ![t] = count[k]]
        /\ UNCHANGED <<address, name, count, limit, known, wanted>>
    BY <1>3 DEF Tables!Register, Tables!tables
  <2>2. /\ count[k] \in Nat /\ TableMax[k] \in Nat /\ count[k] < TableMax[k]
    BY <1>3 DEF TablesInv, TableTypes, CoreAssumption, Tables!TablesAssumption
  <2>3. TableTypes'
    BY <2>1, <2>2 DEF TablesInv, TableTypes, Tables!TypeOK
  <2>4. \A j \in Tables!Kinds : Tables!Entries(j)' = Tables!Entries(j)
    BY <2>1 DEF Tables!Entries
  <2>5. EntryBeingWritten'
    BY <1>3, <2>1, <2>4 DEF TablesInv, TableTypes, Tables!TypeOK, EntryBeingWritten, Writing
  <2>6. EntriesWhole' /\ Tables!OneEntryEach' /\ KnownHasEntry'
    BY <2>1, <2>4 DEF TablesInv, EntriesWhole, Tables!OneEntryEach, KnownHasEntry
  <2>7. SearchOwes'
    BY <2>1 DEF TablesInv, TableTypes, Tables!TypeOK, SearchOwes
  <2> QED
    BY <2>3, <2>5, <2>6, <2>7 DEF TablesInv
<1> QED
  BY <1>1, <1>2, <1>3

(* The address goes into an entry no search reads.                         *)
LEMMA WriteAddressKeeps ==
  ASSUME CoreAssumption, OneRegistrar, TablesInv, NEW t \in Tables!HostThreads,
         Tables!WriteAddress(t)
  PROVE  TablesInv'
<1>1. /\ tablePc[t] = "address"
      /\ address' = [address EXCEPT ![kind[t]][index[t]] = target[t]]
      /\ tablePc' = [tablePc EXCEPT ![t] = "name"]
      /\ UNCHANGED <<name, count, kind, target, index, limit, known, wanted>>
  BY DEF Tables!WriteAddress
<1>2. PICK k \in Tables!Kinds, i \in Nat :
        /\ k = kind[t] /\ i = index[t] /\ i = count[k] /\ count[k] \in Nat
        /\ target[t] \in HostFunctions /\ t \in Registrars /\ target[t] \notin Tables!Entries(k)
  BY <1>1 DEF TablesInv, TableTypes, EntryBeingWritten, Writing
<1>3. i \in Tables!Indices /\ Tables!Indices \subseteq Nat
  BY <1>2, BelowCount
<1>4. /\ address' \in [Tables!Kinds -> [Tables!Indices -> HostFunctions \cup {Null}]]
      /\ address'[k][i] = target[t]
      /\ \A l \in Tables!Kinds : \A j \in Tables!Indices : j < count[l] => address'[l][j] = address[l][j]
  BY <1>1, <1>2, <1>3 DEF TablesInv, TableTypes, Tables!TypeOK
<1>5. \A l \in Tables!Kinds : Tables!Entries(l)' = Tables!Entries(l)
  BY <1>1, <1>4 DEF Tables!Entries
<1>6. TableTypes'
  BY <1>1, <1>4 DEF TablesInv, TableTypes, Tables!TypeOK
<1>7. EntryBeingWritten'
  <2>1. \A u \in Tables!HostThreads : tablePc'[u] \in Writing => u = t
    BY <1>1, <1>2 DEF OneRegistrar, TablesInv, TableTypes, Tables!TypeOK, EntryBeingWritten, Writing
  <2>2. tablePc'[t] = "name"
    BY <1>1 DEF TablesInv, TableTypes, Tables!TypeOK
  <2> QED
    BY <1>1, <1>2, <1>4, <1>5, <2>1, <2>2 DEF EntryBeingWritten
<1>8. EntriesWhole' /\ Tables!OneEntryEach'
  <2>1. EntriesWhole'
    BY <1>1, <1>4 DEF TablesInv, EntriesWhole
  <2>2. \A l \in Tables!Kinds : count[l] \in Nat
    BY DEF TablesInv, TableTypes
  <2>3. \A l \in Tables!Kinds : \A m, n \in Tables!Indices :
           m < n /\ n < count[l] => m < count[l]
    BY <1>3, <2>2
  <2> QED
    BY <1>1, <1>4, <2>1, <2>3 DEF TablesInv, Tables!OneEntryEach
<1>9. KnownHasEntry'
  BY <1>1, <1>5 DEF TablesInv, KnownHasEntry
<1>10. SearchOwes'
  <2>1. \A u \in Tables!HostThreads : tablePc'[u] \in {"search", "found", "missed"} =>
           u # t /\ tablePc'[u] = tablePc[u]
    BY <1>1 DEF TablesInv, TableTypes, Tables!TypeOK
  <2>2. \A u \in Tables!HostThreads :
           kind[u] \in Tables!Kinds /\ index[u] \in Nat /\ limit[u] \in Nat /\ count[kind[u]] \in Nat
    BY DEF TablesInv, TableTypes
  <2>3. \A u \in Tables!HostThreads : tablePc'[u] = "found" =>
           index[u] \in Tables!Indices
    BY <2>1, <2>2, BelowCount DEF TablesInv, SearchOwes
  <2>4. \A u \in Tables!HostThreads : \A j \in Tables!Indices :
           limit[u] <= count[kind[u]] /\ j < limit[u] => j < count[kind[u]]
    <3> SUFFICES ASSUME NEW u \in Tables!HostThreads, NEW j \in Tables!Indices
                 PROVE  limit[u] <= count[kind[u]] /\ j < limit[u] => j < count[kind[u]]
      OBVIOUS
    <3>1. PICK l, n \in Nat : l = limit[u] /\ n = count[kind[u]]
      BY <2>2
    <3> QED
      BY <1>3, <3>1
  <2> QED
    BY <1>1, <1>4, <2>1, <2>2, <2>3, <2>4 DEF TablesInv, SearchOwes
<1> QED
  BY <1>6, <1>7, <1>8, <1>9, <1>10 DEF TablesInv

(* The name goes into the same entry.                                      *)
LEMMA WriteNameKeeps ==
  ASSUME CoreAssumption, OneRegistrar, TablesInv, NEW t \in Tables!HostThreads,
         Tables!WriteName(t)
  PROVE  TablesInv'
<1>1. /\ tablePc[t] = "name"
      /\ name' = [name EXCEPT ![kind[t]][index[t]] = target[t]]
      /\ tablePc' = [tablePc EXCEPT ![t] = "count"]
      /\ UNCHANGED <<address, count, kind, target, index, limit, known, wanted>>
  BY DEF Tables!WriteName
<1>2. PICK k \in Tables!Kinds, i \in Nat :
        /\ k = kind[t] /\ i = index[t] /\ i = count[k] /\ count[k] \in Nat
        /\ target[t] \in HostFunctions /\ t \in Registrars /\ target[t] \notin Tables!Entries(k)
        /\ address[k][i] = target[t]
  BY <1>1 DEF TablesInv, TableTypes, EntryBeingWritten, Writing
<1>3. i \in Tables!Indices /\ Tables!Indices \subseteq Nat
  BY <1>2, BelowCount
<1>4. /\ name' \in [Tables!Kinds -> [Tables!Indices -> HostFunctions \cup {Null}]]
      /\ name'[k][i] = target[t]
      /\ \A l \in Tables!Kinds : \A j \in Tables!Indices : j < count[l] => name'[l][j] = name[l][j]
  BY <1>1, <1>2, <1>3 DEF TablesInv, TableTypes, Tables!TypeOK
<1>5. TableTypes'
  BY <1>1, <1>4 DEF TablesInv, TableTypes, Tables!TypeOK
<1>6. EntryBeingWritten'
  <2>1. \A u \in Tables!HostThreads : tablePc'[u] \in Writing => u = t
    BY <1>1, <1>2 DEF OneRegistrar, TablesInv, TableTypes, Tables!TypeOK, EntryBeingWritten, Writing
  <2>2. \A l \in Tables!Kinds : Tables!Entries(l)' = Tables!Entries(l)
    BY <1>1 DEF Tables!Entries
  <2> QED
    BY <1>1, <1>2, <1>4, <2>1, <2>2 DEF EntryBeingWritten
<1>7. EntriesWhole' /\ Tables!OneEntryEach' /\ KnownHasEntry'
  BY <1>1, <1>4 DEF TablesInv, EntriesWhole, Tables!OneEntryEach, KnownHasEntry, Tables!Entries
<1>8. SearchOwes'
  BY <1>1 DEF TablesInv, TableTypes, Tables!TypeOK, SearchOwes
<1> QED
  BY <1>5, <1>6, <1>7, <1>8 DEF TablesInv

(* Counting the entry makes it known.  With one registrar the count is     *)
(* what it was when the registration began, however it is loaded.          *)
LEMMA IncrementKeeps ==
  ASSUME CoreAssumption, OneRegistrar, TablesInv, NEW t \in Tables!HostThreads,
         Tables!Increment(t)
  PROVE  TablesInv'
<1>1. /\ tablePc[t] = "count"
      /\ tablePc' = [tablePc EXCEPT ![t] = "idle"]
      /\ known' = known \cup {<<kind[t], target[t]>>}
      /\ UNCHANGED <<address, name, kind, target, index, limit, wanted>>
  BY DEF Tables!Increment
<1>2. PICK k \in Tables!Kinds, i \in Nat, a \in HostFunctions :
        /\ k = kind[t] /\ i = index[t] /\ i = count[k] /\ a = target[t]
        /\ t \in Registrars /\ a \notin Tables!Entries(k)
        /\ address[k][i] = a /\ name[k][i] = a
  BY <1>1 DEF TablesInv, TableTypes, EntryBeingWritten, Writing
<1>3. i \in Tables!Indices /\ Tables!Indices \subseteq Nat /\ i < TableMax[k]
  <2>1. i \in Tables!Indices /\ Tables!Indices \subseteq Nat
    BY <1>2, BelowCount
  <2>2. index[t] < TableMax[kind[t]]
    BY <1>1 DEF TablesInv, TableTypes, Tables!TypeOK
  <2> QED
    BY <1>2, <2>1, <2>2
<1>4. count' = [count EXCEPT ![k] = i + 1]
  BY <1>2 DEF Tables!Increment
<1>5. /\ count' \in [Tables!Kinds -> Nat] /\ count'[k] = i + 1
      /\ \A l \in Tables!Kinds : l # k => count'[l] = count[l]
      /\ \A l \in Tables!Kinds : count[l] <= count'[l]
  BY <1>2, <1>4 DEF TablesInv, TableTypes
<1>6. TableTypes'
  <2>1. \A l \in Tables!Kinds : count'[l] \in 0 .. TableMax[l]
    <3>1. TableMax[k] \in Nat /\ i + 1 \in 0 .. TableMax[k]
      BY <1>2, <1>3 DEF CoreAssumption, Tables!TablesAssumption
    <3>2. \A l \in Tables!Kinds : count[l] \in 0 .. TableMax[l]
      BY DEF TablesInv, TableTypes, Tables!TypeOK
    <3> QED
      BY <1>5, <3>1, <3>2
  <2>2. known' \subseteq Tables!Kinds \X HostFunctions
    BY <1>1, <1>2 DEF TablesInv, TableTypes, Tables!TypeOK
  <2> QED
    BY <1>1, <1>5, <2>1, <2>2 DEF TablesInv, TableTypes, Tables!TypeOK
<1>7. EntryBeingWritten'
  BY <1>1, <1>2 DEF OneRegistrar, TablesInv, TableTypes, Tables!TypeOK, EntryBeingWritten, Writing
<1>8. EntriesWhole'
  <2>1. \A j \in Tables!Indices : j < i + 1 => j < i \/ j = i
    BY <1>3
  <2> QED
    BY <1>1, <1>2, <1>5, <2>1 DEF TablesInv, EntriesWhole
<1>9. Tables!OneEntryEach'
  <2>1. \A j \in Tables!Indices : j < i => address[k][j] # a
    BY <1>2 DEF Tables!Entries
  <2>2. \A m, n \in Tables!Indices : m < n /\ n < i + 1 => (n < i \/ (n = i /\ m < i))
    BY <1>3
  <2> QED
    BY <1>1, <1>2, <1>5, <2>1, <2>2 DEF TablesInv, Tables!OneEntryEach
<1>10. KnownHasEntry'
  <2>1. \A l \in Tables!Kinds : Tables!Entries(l) \subseteq Tables!Entries(l)'
    <3> TAKE l \in Tables!Kinds
    <3>1. PICK m, n \in Nat : m = count[l] /\ n = count'[l] /\ m <= n
      BY <1>5 DEF TablesInv, TableTypes
    <3>2. \A j \in Tables!Indices : j < m => j < n
      BY <1>3, <3>1
    <3> QED
      BY <1>1, <3>1, <3>2 DEF Tables!Entries
  <2>2. a \in Tables!Entries(k)'
    BY <1>1, <1>2, <1>3, <1>5 DEF Tables!Entries
  <2> QED
    BY <1>1, <1>2, <2>1, <2>2 DEF TablesInv, KnownHasEntry
<1>11. SearchOwes'
  <2>1. \A u \in Tables!HostThreads : tablePc'[u] \in {"search", "found", "missed"} =>
           u # t /\ tablePc'[u] = tablePc[u]
    BY <1>1 DEF TablesInv, TableTypes, Tables!TypeOK
  <2>2. \A u \in Tables!HostThreads :
           /\ limit[u] <= count[kind[u]] => limit[u] <= count'[kind[u]]
           /\ index[u] < count[kind[u]] => index[u] < count'[kind[u]]
    <3> TAKE u \in Tables!HostThreads
    <3>1. PICK l, n, m, j \in Nat : /\ l = limit[u] /\ n = count[kind[u]] /\ m = count'[kind[u]]
                                    /\ j = index[u] /\ n <= m
      BY <1>5 DEF TablesInv, TableTypes
    <3> QED
      BY <3>1
  <2> QED
    BY <1>1, <2>1, <2>2 DEF TablesInv, SearchOwes
<1> QED
  BY <1>6, <1>7, <1>8, <1>9, <1>10, <1>11 DEF TablesInv

(* A branch begins with the context natives.                               *)
LEMMA DispatchKeeps ==
  ASSUME CoreAssumption, OneRegistrar, TablesInv, NEW t \in Tables!HostThreads,
         NEW a \in HostFunctions, Tables!Dispatch(t, a)
  PROVE  TablesInv'
<1>1. /\ tablePc[t] = "idle" /\ tablePc' = [tablePc EXCEPT ![t] = "search"]
      /\ kind' = [kind EXCEPT ![t] = "ctx"] /\ target' = [target EXCEPT ![t] = a]
      /\ index' = [index EXCEPT ![t] = 0]
      /\ limit' = [limit EXCEPT ![t] = count["ctx"]]
      /\ wanted' = [wanted EXCEPT ![t] = {k \in Tables!Kinds : <<k, a>> \in known}]
      /\ UNCHANGED <<address, name, count, known>>
  BY DEF Tables!Dispatch, Tables!tables
<1>2. "ctx" \in Tables!Kinds /\ count["ctx"] \in Nat
  BY DEF TablesInv, TableTypes, Tables!Kinds
<1>3. TableTypes'
  BY <1>1, <1>2 DEF TablesInv, TableTypes, Tables!TypeOK
<1>4. \A k \in Tables!Kinds : Tables!Entries(k)' = Tables!Entries(k)
  BY <1>1 DEF Tables!Entries
<1>5. EntryBeingWritten'
  BY <1>1, <1>4 DEF TablesInv, TableTypes, Tables!TypeOK, EntryBeingWritten, Writing
<1>6. EntriesWhole' /\ Tables!OneEntryEach' /\ KnownHasEntry'
  BY <1>1, <1>4 DEF TablesInv, EntriesWhole, Tables!OneEntryEach, KnownHasEntry
<1>7. SearchOwes'
  <2>1. \A u \in Tables!HostThreads : u # t =>
           /\ tablePc'[u] = tablePc[u] /\ kind'[u] = kind[u] /\ target'[u] = target[u]
           /\ index'[u] = index[u] /\ limit'[u] = limit[u] /\ wanted'[u] = wanted[u]
    BY <1>1 DEF TablesInv, TableTypes, Tables!TypeOK
  <2>2. /\ tablePc'[t] = "search" /\ kind'[t] = "ctx" /\ target'[t] = a
        /\ index'[t] = 0 /\ limit'[t] = count["ctx"]
        /\ wanted'[t] = {k \in Tables!Kinds : <<k, a>> \in known}
    BY <1>1 DEF TablesInv, TableTypes, Tables!TypeOK
  <2>3. "ctx" \in wanted'[t] => \E i \in Tables!Indices :
           0 <= i /\ i < count["ctx"] /\ address["ctx"][i] = a
    BY <1>2, <2>2, BelowCount DEF TablesInv, KnownHasEntry, Tables!Entries
  <2> QED
    BY <1>1, <1>2, <2>1, <2>2, <2>3 DEF TablesInv, SearchOwes
<1> QED
  BY <1>3, <1>5, <1>6, <1>7 DEF TablesInv

(* A search passes an entry only when it holds another function.           *)
LEMMA SearchKeeps ==
  ASSUME CoreAssumption, OneRegistrar, TablesInv, NEW t \in Tables!HostThreads, Tables!Search(t)
  PROVE  TablesInv'
<1>1. /\ tablePc[t] = "search" /\ index[t] < limit[t]
      /\ UNCHANGED <<address, name, count, kind, target, limit, known, wanted>>
  BY DEF Tables!Search, Tables!tables
<1>2. PICK k \in Tables!Kinds, i, l, n \in Nat :
        /\ k = kind[t] /\ i = index[t] /\ l = limit[t] /\ n = count[k] /\ i < l /\ l <= n
        /\ i < n
  <2>1. kind[t] \in Tables!Kinds /\ index[t] \in Nat /\ limit[t] \in Nat /\ count[kind[t]] \in Nat
        /\ limit[t] <= count[kind[t]]
    BY <1>1 DEF TablesInv, TableTypes, SearchOwes
  <2> QED
    BY <1>1, <2>1
<1>3. EntriesWhole' /\ Tables!OneEntryEach' /\ KnownHasEntry'
  BY <1>1 DEF TablesInv, EntriesWhole, Tables!OneEntryEach, KnownHasEntry, Tables!Entries
<1>4. CASE address[kind[t]][index[t]] = target[t]
  <2>1. tablePc' = [tablePc EXCEPT ![t] = "found"] /\ index' = index
    BY <1>4 DEF Tables!Search
  <2>2. TableTypes' /\ EntryBeingWritten'
    BY <1>1, <2>1 DEF TablesInv, TableTypes, Tables!TypeOK, EntryBeingWritten, Writing, Tables!Entries
  <2>3. SearchOwes'
    BY <1>1, <1>2, <1>4, <2>1 DEF TablesInv, TableTypes, Tables!TypeOK, SearchOwes
  <2> QED
    BY <1>3, <2>2, <2>3 DEF TablesInv
<1>5. CASE address[kind[t]][index[t]] # target[t]
  <2>1. index' = [index EXCEPT ![t] = i + 1] /\ tablePc' = tablePc
    BY <1>2, <1>5 DEF Tables!Search
  <2>2. index' \in [Tables!HostThreads -> Nat] /\ index'[t] = i + 1
        /\ \A u \in Tables!HostThreads : u # t => index'[u] = index[u]
    BY <2>1 DEF TablesInv, TableTypes
  <2>3. TableTypes' /\ EntryBeingWritten'
    BY <1>1, <2>1, <2>2 DEF TablesInv, TableTypes, Tables!TypeOK, EntryBeingWritten, Writing, Tables!Entries
  <2>4. k \in wanted[t] => \E j \in Tables!Indices :
           i + 1 <= j /\ j < l /\ address[k][j] = target[t]
    <3>1. Tables!Indices \subseteq Nat
      BY BelowCount, <1>2
    <3> QED
      BY <1>1, <1>2, <1>5, <3>1 DEF TablesInv, SearchOwes
  <2>5. SearchOwes'
    BY <1>1, <1>2, <2>1, <2>2, <2>4 DEF TablesInv, SearchOwes
  <2> QED
    BY <1>3, <2>3, <2>5 DEF TablesInv
<1> QED
  BY <1>4, <1>5

(* A search that reached its limit was owed nothing from that table.       *)
LEMMA ExhaustedKeeps ==
  ASSUME CoreAssumption, OneRegistrar, TablesInv, NEW t \in Tables!HostThreads, Tables!Exhausted(t)
  PROVE  TablesInv'
<1>1. /\ tablePc[t] = "search" /\ index[t] >= limit[t]
      /\ UNCHANGED <<address, name, count, target, known, wanted>>
  BY DEF Tables!Exhausted, Tables!tables
<1>2. kind[t] \notin wanted[t]
  <2>1. PICK i, l \in Nat : i = index[t] /\ l = limit[t] /\ i >= l
    BY <1>1 DEF TablesInv, TableTypes
  <2>2. Tables!Indices \subseteq Nat
    BY BelowCount DEF TablesInv, TableTypes
  <2>3. ~ \E j \in Tables!Indices : i <= j /\ j < l
    <3> SUFFICES ASSUME NEW j \in Tables!Indices, i <= j, j < l PROVE FALSE
      OBVIOUS
    <3>1. j \in Nat
      BY <2>2
    <3> QED
      BY <2>1, <3>1
  <2> QED
    BY <1>1, <2>1, <2>3 DEF TablesInv, SearchOwes
<1>3. EntriesWhole' /\ Tables!OneEntryEach' /\ KnownHasEntry'
  BY <1>1 DEF TablesInv, EntriesWhole, Tables!OneEntryEach, KnownHasEntry, Tables!Entries
<1>4. CASE kind[t] = "ctx"
  <2>1. /\ kind' = [kind EXCEPT ![t] = "native"] /\ index' = [index EXCEPT ![t] = 0]
        /\ limit' = [limit EXCEPT ![t] = count["native"]] /\ tablePc' = tablePc
    BY <1>4 DEF Tables!Exhausted
  <2>2. "native" \in Tables!Kinds /\ count["native"] \in Nat
    BY DEF TablesInv, TableTypes, Tables!Kinds
  <2>3. TableTypes' /\ EntryBeingWritten'
    BY <1>1, <2>1, <2>2 DEF TablesInv, TableTypes, Tables!TypeOK, EntryBeingWritten, Writing, Tables!Entries
  <2>4. \A u \in Tables!HostThreads : u # t =>
           kind'[u] = kind[u] /\ index'[u] = index[u] /\ limit'[u] = limit[u]
    BY <2>1 DEF TablesInv, TableTypes
  <2>5. kind'[t] = "native" /\ index'[t] = 0 /\ limit'[t] = count["native"]
    BY <2>1 DEF TablesInv, TableTypes
  <2>6. "native" \in wanted[t] => \E i \in Tables!Indices :
           0 <= i /\ i < count["native"] /\ address["native"][i] = target[t]
    <3> SUFFICES ASSUME "native" \in wanted[t]
                 PROVE  \E i \in Tables!Indices :
                           0 <= i /\ i < count["native"] /\ address["native"][i] = target[t]
      OBVIOUS
    <3>1. target[t] \in Tables!Entries("native")
      BY <1>1, <2>2 DEF TablesInv, SearchOwes, KnownHasEntry
    <3>2. PICK i \in Tables!Indices : i < count["native"] /\ address["native"][i] = target[t]
      BY <3>1 DEF Tables!Entries
    <3>3. i \in Nat
      BY <2>2, BelowCount
    <3> QED
      BY <3>2, <3>3
  <2>7. SearchOwes'
    BY <1>1, <1>2, <1>4, <2>1, <2>2, <2>4, <2>5, <2>6 DEF TablesInv, SearchOwes
  <2> QED
    BY <1>3, <2>3, <2>7 DEF TablesInv
<1>5. CASE kind[t] # "ctx"
  <2>1. tablePc' = [tablePc EXCEPT ![t] = "missed"] /\ UNCHANGED <<kind, index, limit>>
    BY <1>5 DEF Tables!Exhausted
  <2>2. TableTypes' /\ EntryBeingWritten'
    BY <1>1, <2>1 DEF TablesInv, TableTypes, Tables!TypeOK, EntryBeingWritten, Writing, Tables!Entries
  <2>3. wanted[t] = {}
    BY <1>1, <1>2, <1>5 DEF TablesInv, TableTypes, SearchOwes, Tables!Kinds
  <2>4. SearchOwes'
    BY <1>1, <2>1, <2>3 DEF TablesInv, TableTypes, Tables!TypeOK, SearchOwes
  <2> QED
    BY <1>3, <2>2, <2>4 DEF TablesInv
<1> QED
  BY <1>4, <1>5

(* The branch is taken, or traps.                                          *)
LEMMA FinishKeeps ==
  ASSUME TablesInv, NEW t \in Tables!HostThreads, Tables!Finish(t)
  PROVE  TablesInv'
<1>1. /\ tablePc' = [tablePc EXCEPT ![t] = "idle"]
      /\ UNCHANGED <<address, name, count, kind, target, index, limit, known, wanted>>
  BY DEF Tables!Finish, Tables!tables
<1>2. TableTypes' /\ EntryBeingWritten'
  BY <1>1 DEF TablesInv, TableTypes, Tables!TypeOK, EntryBeingWritten, Writing, Tables!Entries
<1>3. EntriesWhole' /\ Tables!OneEntryEach' /\ KnownHasEntry' /\ SearchOwes'
  BY <1>1 DEF TablesInv, TableTypes, Tables!TypeOK, EntriesWhole, Tables!OneEntryEach,
     KnownHasEntry, SearchOwes, Tables!Entries
<1> QED
  BY <1>2, <1>3 DEF TablesInv

(* One case per action.                                                    *)
LEMMA TablesStep ==
  ASSUME CoreAssumption, OneRegistrar, TablesInv, Tables!Next
  PROVE  TablesInv'
  BY RegisterKeeps, WriteAddressKeeps, WriteNameKeeps, IncrementKeeps, DispatchKeeps,
     SearchKeeps, ExhaustedKeeps, FinishKeeps DEF Tables!Next

(* Nothing of the tables changes.                                          *)
LEMMA TablesRest ==
  ASSUME TablesInv, UNCHANGED tableVars
  PROVE  TablesInv'
  BY DEF tableVars, TablesInv, TableTypes, Tables!TypeOK, EntryBeingWritten, Writing, EntriesWhole,
     Tables!OneEntryEach, KnownHasEntry, SearchOwes, Tables!Entries

(* What the dispatcher promises follows from what a search owes.           *)
LEMMA TablesPromise ==
  ASSUME CoreAssumption, TablesInv
  PROVE  Tables!TypeOK /\ Tables!DispatchFindsKnown /\ Tables!FoundIsWhole /\ Tables!OneEntryEach
<1>1. \A t \in Dispatchers : t \in Tables!HostThreads
  BY DEF Tables!HostThreads
<1>2. \A t \in Dispatchers : tablePc[t] = "found" => index[t] \in Tables!Indices
  BY <1>1, BelowCount DEF TablesInv, TableTypes, SearchOwes
<1> QED
  BY <1>1, <1>2 DEF TablesInv, TableTypes, SearchOwes, EntriesWhole, Tables!DispatchFindsKnown,
     Tables!FoundIsWhole

-----------------------------------------------------------------------------
(* GuestControl.  The host stack runs through the activations one by one;  *)
(* a frame's setjmp, and the slot it took, saved at least as deep a guest  *)
(* stack as its activation had frames.                                     *)
FramesClimb ==
    /\ frames = <<>> <=> acts = <<>>
    /\ frames # <<>> => frames[1] = 1 /\ frames[Len(frames)] = Len(acts)
    /\ \A i, j \in 1 .. Len(frames) : i <= j => frames[i] <= frames[j]
    /\ \A i \in 1 .. Len(frames) - 1 : frames[i + 1] <= frames[i] + 1

DeepEnough == \A i, j \in 1 .. Len(frames) :
    i <= j /\ frames[i] = frames[j] => acts[frames[j]].sp > j - i

StacksApart ==
    /\ \A j \in 1 .. Len(acts) : acts[j].stack \in IF j = 1 THEN {Boot} ELSE malloced
    /\ ~t_callback_busy => \A j \in 1 .. Len(acts) : acts[j].stack # t_callback_stack
    /\ Control!NoSharedStack

SlotsApart == \A i, j \in Control!SlotIds :
    t_jmps[i].guest = t_jmps[j].guest /\ t_jmps[i].guest # NoBuf => i = j

SlotsMatch == \A i \in Control!SlotIds : \A b \in Buffers :
    t_jmps[i].guest = b /\ armed[b].host # 0 =>
        t_jmps[i].host = armed[b].host /\ t_jmps[i].saved = armed[b].saved

ArmedLive == \A b \in Buffers : armed[b].host # 0 =>
    /\ armed[b].host <= Len(frames)
    /\ \A i \in 1 .. armed[b].host : frames[i] = frames[armed[b].host] =>
          armed[b].saved > armed[b].host - i

ControlInv ==
    /\ Control!TypeOK /\ FramesClimb /\ DeepEnough /\ StacksApart
    /\ SlotsApart /\ SlotsMatch /\ ArmedLive

ActSet  == [stack : Heap \cup {Boot}, sp : 1 .. MaxSp]
SeenSet == [host : 0 .. MaxDepth, saved : 0 .. MaxSp]

(* The front of a sequence.                                                *)
LEMMA Front ==
  ASSUME NEW S, NEW s \in Seq(S), NEW n \in 0 .. Len(s)
  PROVE  /\ SubSeq(s, 1, n) \in Seq(S) /\ Len(SubSeq(s, 1, n)) = n
         /\ \A i \in 1 .. n : SubSeq(s, 1, n)[i] = s[i]
<1>1. n \in Nat /\ Len(s) \in Nat
  BY LenProperties
<1>2. \A i \in 1 .. n : s[i] \in S
  BY <1>1, ElementOfSeq
<1> QED
  BY <1>1, <1>2, SubSeqProperties

(* A sequence of members of T, whatever it was known to be before.          *)
LEMMA Retyped ==
  ASSUME NEW S, NEW T, NEW s \in Seq(S), \A i \in 1 .. Len(s) : s[i] \in T
  PROVE  s \in Seq(T)
<1>1. PICK n \in Nat : n = Len(s)
  BY LenProperties
<1>2. s = [i \in 1 .. n |-> s[i]]
  BY <1>1, LenProperties
<1>3. s \in [1 .. n -> T]
  BY <1>1, <1>2
<1> QED
  BY <1>1, <1>3

(* What the proofs use of the constants and of the types.                  *)
LEMMA Lengths ==
  ASSUME CoreAssumption, ControlInv
  PROVE  /\ acts \in Seq(ActSet) /\ frames \in Seq(1 .. Len(acts))
         /\ Len(frames) \in Nat /\ Len(acts) \in Nat /\ Len(frames) <= MaxDepth
         /\ \A i \in 1 .. Len(frames) : frames[i] \in 1 .. Len(acts)
         /\ \A j \in 1 .. Len(acts) : acts[j] \in ActSet
         /\ MaxDepth \in Nat \ {0} /\ MaxSp \in Nat \ {0} /\ JmpSlots \in Nat \ {0}
         /\ armed \in [Buffers -> SeenSet]
<1>1. acts \in Seq(ActSet) /\ frames \in Seq(1 .. Len(acts)) /\ Len(frames) <= MaxDepth
      /\ armed \in [Buffers -> SeenSet]
  BY DEF ControlInv, Control!TypeOK, Control!Here, ActSet, SeenSet
<1>2. Len(frames) \in Nat /\ Len(acts) \in Nat
  BY <1>1, LenProperties
<1>3. \A i \in 1 .. Len(frames) : frames[i] \in 1 .. Len(acts)
  BY <1>1, ElementOfSeq
<1>4. \A j \in 1 .. Len(acts) : acts[j] \in ActSet
  BY <1>1, ElementOfSeq
<1>5. MaxDepth \in Nat \ {0} /\ MaxSp \in Nat \ {0} /\ JmpSlots \in Nat \ {0}
  BY DEF CoreAssumption, Control!ControlAssumption
<1> QED
  BY <1>1, <1>2, <1>3, <1>4, <1>5

(* Unwinding to a frame leaves the host stack below it, the activations    *)
(* that stack runs through and the setjmps of its frames.                  *)
LEMMA UnwindKeeps ==
  ASSUME CoreAssumption, ControlInv, NEW h \in 0 .. Len(frames), Control!Unwind(h),
         acts' \in Seq(ActSet), Len(acts') = IF h = 0 THEN 0 ELSE frames[h],
         UNCHANGED t_jmps
  PROVE  /\ frames' \in Seq(1 .. Len(acts')) /\ Len(frames') = h /\ h <= MaxDepth
         /\ \A i \in 1 .. h : frames'[i] = frames[i]
         /\ armed' \in [Buffers -> SeenSet]
         /\ FramesClimb' /\ SlotsMatch' /\ ArmedLive'
<1>1. /\ frames' = SubSeq(frames, 1, h)
      /\ armed' = [b \in Buffers |-> IF armed[b].host > h THEN [host |-> 0, saved |-> 0] ELSE armed[b]]
  BY DEF Control!Unwind, Control!Forget
<1>2. /\ frames \in Seq(1 .. Len(acts)) /\ Len(frames) \in Nat /\ Len(frames) <= MaxDepth
      /\ \A i \in 1 .. Len(frames) : frames[i] \in 1 .. Len(acts)
      /\ MaxDepth \in Nat /\ MaxSp \in Nat /\ Len(acts) \in Nat
      /\ armed \in [Buffers -> SeenSet]
  BY Lengths
<1>3. h \in Nat /\ h <= MaxDepth
  BY <1>2
<1>4. frames' \in Seq(1 .. Len(acts)) /\ Len(frames') = h /\ \A i \in 1 .. h : frames'[i] = frames[i]
  BY <1>1, <1>2, Front
<1>5. \A i, j \in 1 .. h : i <= j => frames[i] <= frames[j]
  <2>1. \A i \in 1 .. h : i \in 1 .. Len(frames)
    BY <1>2, <1>3
  <2> QED
    BY <2>1 DEF ControlInv, FramesClimb
<1>6. PICK n \in Nat : n = Len(acts') /\ (h = 0 => n = 0) /\ (h # 0 => n = frames[h])
  BY <1>2, <1>3
<1>7. \A i \in 1 .. h : frames'[i] \in 1 .. n
  <2> TAKE i \in 1 .. h
  <2>1. h \in 1 .. h /\ i <= h /\ i \in 1 .. Len(frames) /\ h \in 1 .. Len(frames)
    BY <1>2, <1>3
  <2>2. frames[i] <= frames[h] /\ frames[i] \in 1 .. Len(acts) /\ n = frames[h]
    BY <1>2, <1>3, <1>5, <1>6, <2>1
  <2> QED
    BY <1>4, <1>6, <2>2
<1>8. frames' \in Seq(1 .. Len(acts'))
  <2>1. \A i \in 1 .. Len(frames') : frames'[i] \in 1 .. Len(acts')
    BY <1>4, <1>6, <1>7
  <2> QED
    BY <1>4, <2>1, Retyped
<1>9. armed' \in [Buffers -> SeenSet]
  BY <1>1, <1>2 DEF SeenSet
<1>10. \A b \in Buffers : armed'[b].host # 0 => armed'[b] = armed[b] /\ armed[b].host <= h
  <2> SUFFICES ASSUME NEW b \in Buffers, armed'[b].host # 0
               PROVE  armed'[b] = armed[b] /\ armed[b].host <= h
    OBVIOUS
  <2>1. armed[b].host \in Nat
    BY <1>2 DEF SeenSet
  <2>2. ~(armed[b].host > h)
    BY <1>1
  <2> QED
    BY <1>1, <1>3, <2>1, <2>2
<1>11. FramesClimb'
  <2>1. frames' = <<>> <=> acts' = <<>>
    <3>1. frames' = <<>> <=> h = 0
      BY <1>3, <1>4, <1>8, EmptySeq
    <3>2. acts' = <<>> <=> n = 0
      BY <1>6, EmptySeq
    <3>3. h # 0 => n # 0
      BY <1>2, <1>3, <1>6
    <3> QED
      BY <1>6, <3>1, <3>2, <3>3
  <2>2. frames' # <<>> => frames'[1] = 1 /\ frames'[Len(frames')] = Len(acts')
    <3> SUFFICES ASSUME frames' # <<>> PROVE frames'[1] = 1 /\ frames'[Len(frames')] = Len(acts')
      OBVIOUS
    <3>1. h # 0
      BY <1>3, <1>4, <1>8, EmptySeq
    <3>2. frames # <<>>
      BY <1>2, <1>3, <3>1, EmptySeq
    <3>3. frames[1] = 1
      BY <3>2 DEF ControlInv, FramesClimb
    <3> QED
      BY <1>3, <1>4, <1>6, <3>1, <3>3
  <2>3. \A i, j \in 1 .. h : i <= j => frames'[i] <= frames'[j]
    BY <1>4, <1>5
  <2>4. \A i \in 1 .. h - 1 : frames'[i + 1] <= frames'[i] + 1
    <3> TAKE i \in 1 .. h - 1
    <3>1. i \in 1 .. Len(frames) - 1 /\ i \in 1 .. h /\ i + 1 \in 1 .. h
      BY <1>2, <1>3
    <3>2. frames[i + 1] <= frames[i] + 1
      BY <3>1 DEF ControlInv, FramesClimb
    <3> QED
      BY <1>4, <3>1, <3>2
  <2> QED
    BY <1>4, <2>1, <2>2, <2>3, <2>4 DEF FramesClimb
<1>12. SlotsMatch'
  BY <1>10 DEF ControlInv, SlotsMatch
<1>13. ArmedLive'
  <2> SUFFICES ASSUME NEW b \in Buffers, armed'[b].host # 0
               PROVE  /\ armed'[b].host <= Len(frames')
                      /\ \A i \in 1 .. armed'[b].host : frames'[i] = frames'[armed'[b].host] =>
                            armed'[b].saved > armed'[b].host - i
    BY DEF ArmedLive
  <2>1. armed'[b] = armed[b] /\ armed[b].host <= h /\ armed[b].host \in Nat \ {0}
    BY <1>2, <1>10 DEF SeenSet
  <2>2. PICK top \in Nat \ {0} : top = armed[b].host /\ top <= h
    BY <2>1
  <2>3. \A i \in 1 .. top : i \in 1 .. h /\ frames'[i] = frames[i]
    BY <1>3, <1>4, <2>2
  <2>4. frames'[top] = frames[top]
    BY <2>2, <2>3
  <2>5. \A i \in 1 .. top : frames[i] = frames[top] => armed[b].saved > top - i
    BY <2>2 DEF ControlInv, ArmedLive
  <2> QED
    BY <1>4, <2>1, <2>2, <2>3, <2>4, <2>5
<1> QED
  BY <1>3, <1>4, <1>8, <1>9, <1>11, <1>12, <1>13

(* No frames, no callbacks, no slots.                                      *)
LEMMA ControlBegin ==
  ASSUME CoreAssumption, Control!Init
  PROVE  ControlInv
<1>1. /\ MaxDepth \in Nat \ {0} /\ MaxSp \in Nat \ {0} /\ JmpSlots \in Nat \ {0}
      /\ frames = <<>> /\ acts = <<>>
  BY DEF CoreAssumption, Control!ControlAssumption, Control!Init
<1>2. Len(frames) = 0 /\ Len(acts) = 0
  BY <1>1, EmptySeq
<1>3. frames \in Seq(1 .. Len(acts)) /\ acts \in Seq(ActSet)
  BY <1>1, EmptySeq
<1>4. Control!TypeOK
  <2>1. t_jmps \in [Control!SlotIds -> [guest : Buffers \cup {NoBuf},
                                        host : 0 .. MaxDepth, saved : 0 .. MaxSp]]
    BY <1>1 DEF Control!Init
  <2>2. armed \in [Buffers -> [host : 0 .. MaxDepth, saved : 0 .. MaxSp]]
    BY <1>1 DEF Control!Init
  <2>3. t_jmp_next \in Control!SlotIds
    BY <1>1 DEF Control!Init, Control!SlotIds
  <2>4. Len(frames) <= MaxDepth
    BY <1>1, <1>2
  <2> QED
    BY <1>3, <2>1, <2>2, <2>3, <2>4 DEF Control!Init, Control!TypeOK, Control!Here, ActSet
<1>5. FramesClimb /\ DeepEnough /\ StacksApart
  BY <1>1, <1>2 DEF FramesClimb, DeepEnough, StacksApart, Control!NoSharedStack, Control!Top
<1>6. SlotsApart /\ SlotsMatch /\ ArmedLive
  BY DEF Control!Init, SlotsApart, SlotsMatch, ArmedLive
<1> QED
  BY <1>4, <1>5, <1>6 DEF ControlInv

(* The first frame, in the boot's activation.                              *)
LEMMA EnterKeeps ==
  ASSUME CoreAssumption, ControlInv, Control!Enter
  PROVE  ControlInv'
<1> DEFINE first == [stack |-> Boot, sp |-> 1]
<1>1. /\ frames = <<>> /\ frames' = <<1>> /\ acts' = <<first>> /\ t_recovery' = guarded
      /\ UNCHANGED <<t_callback_stack, t_callback_busy, malloced, t_jmps, t_jmp_next,
                     armed, guarded, ended>>
  BY DEF Control!Enter, Control!callback, Control!jump
<1>2. /\ MaxDepth \in Nat \ {0} /\ MaxSp \in Nat \ {0} /\ Boot \notin Heap /\ None \notin Heap \cup {Boot}
      /\ armed \in [Buffers -> SeenSet]
  BY Lengths DEF CoreAssumption, Control!ControlAssumption
<1>3. Len(frames) = 0 /\ Len(frames') = 1 /\ frames'[1] = 1 /\ Len(acts') = 1 /\ acts'[1] = first
  BY <1>1, EmptySeq
<1>4. first \in ActSet
  BY <1>2 DEF ActSet
<1>5. acts' \in Seq(ActSet) /\ frames' \in Seq(1 .. Len(acts'))
  <2>1. frames' \in Seq(1 .. 1)
    BY <1>1
  <2> QED
    BY <1>1, <1>3, <1>4, <2>1
<1>6. Control!TypeOK'
  <2>1. t_callback_stack \in malloced \cup {None}
    BY DEF ControlInv, Control!TypeOK
  <2> QED
    BY <1>1, <1>2, <1>3, <1>5 DEF ControlInv, Control!TypeOK, Control!Here, Control!SlotIds, ActSet
<1>7. FramesClimb'
  BY <1>1, <1>3 DEF FramesClimb
<1>8. DeepEnough'
  BY <1>3 DEF DeepEnough
<1>9. StacksApart'
  <2>1. t_callback_stack # Boot
    BY <1>2 DEF ControlInv, Control!TypeOK
  <2> QED
    BY <1>1, <1>3, <2>1 DEF StacksApart, Control!NoSharedStack, Control!Top
<1>10. SlotsApart' /\ SlotsMatch'
  BY <1>1 DEF ControlInv, SlotsApart, SlotsMatch, Control!SlotIds
<1>11. ArmedLive'
  <2>1. \A b \in Buffers : armed[b].host = 0
    <3> TAKE b \in Buffers
    <3>1. armed[b].host \in Nat
      BY <1>2 DEF SeenSet
    <3> QED
      BY <1>3, <3>1 DEF ControlInv, ArmedLive
  <2> QED
    BY <1>1, <2>1 DEF ArmedLive
<1> QED
  BY <1>6, <1>7, <1>8, <1>9, <1>10, <1>11 DEF ControlInv

(* Pushing a frame of activation a, the last one or a new one.  Setjmps of *)
(* the frames below stay what they were.                                   *)
LEMMA PushKeeps ==
  ASSUME CoreAssumption, ControlInv, frames # <<>>, Len(frames) < MaxDepth,
         NEW a \in Nat, a = Len(acts) \/ a = Len(acts) + 1, frames' = Append(frames, a),
         acts' \in Seq(ActSet), Len(acts') = a, UNCHANGED <<t_jmps, armed>>
  PROVE  /\ frames' \in Seq(1 .. Len(acts')) /\ Len(frames') = Len(frames) + 1
         /\ Len(frames') <= MaxDepth
         /\ \A i \in 1 .. Len(frames) : frames'[i] = frames[i]
         /\ frames'[Len(frames) + 1] = a
         /\ FramesClimb' /\ SlotsMatch' /\ ArmedLive'
<1>1. /\ frames \in Seq(1 .. Len(acts)) /\ Len(frames) <= MaxDepth
      /\ \A i \in 1 .. Len(frames) : frames[i] \in 1 .. Len(acts)
      /\ MaxDepth \in Nat /\ armed \in [Buffers -> SeenSet]
  BY Lengths
<1>2. PICK n, top \in Nat : n = Len(frames) /\ top = Len(acts) /\ n # 0 /\ n < MaxDepth
  BY Lengths, EmptySeq
<1>3. /\ frames[1] = 1 /\ frames[n] = top /\ top \in Nat \ {0}
      /\ \A i, j \in 1 .. n : i <= j => frames[i] <= frames[j]
      /\ \A i \in 1 .. n - 1 : frames[i + 1] <= frames[i] + 1
      /\ \A i \in 1 .. n : frames[i] \in 1 .. top
  BY <1>1, <1>2 DEF ControlInv, FramesClimb
<1>4. a \in 1 .. a /\ (a = top \/ a = top + 1) /\ top <= a
  BY <1>2, <1>3
<1>5. frames \in Seq(1 .. a)
  <2>1. \A i \in 1 .. n : frames[i] \in 1 .. a
    BY <1>3, <1>4
  <2> QED
    BY <1>1, <1>2, <2>1, Retyped
<1>6. /\ frames' \in Seq(1 .. a) /\ Len(frames') = n + 1 /\ frames' # <<>>
      /\ \A i \in 1 .. n : frames'[i] = frames[i]
      /\ frames'[n + 1] = a
  BY <1>2, <1>4, <1>5, AppendProperties
<1>7. FramesClimb'
  <2>1. acts' # <<>>
    BY <1>4, EmptySeq
  <2>2. frames'[1] = 1 /\ frames'[Len(frames')] = Len(acts')
    BY <1>2, <1>3, <1>6
  <2>3. \A i, j \in 1 .. n + 1 : i <= j => frames'[i] <= frames'[j]
    <3> SUFFICES ASSUME NEW i \in 1 .. n + 1, NEW j \in 1 .. n + 1, i <= j
                 PROVE  frames'[i] <= frames'[j]
      OBVIOUS
    <3>1. CASE j \in 1 .. n
      <4>1. i \in 1 .. n
        BY <1>2, <3>1
      <4> QED
        BY <1>3, <1>6, <3>1, <4>1
    <3>2. CASE j = n + 1 /\ i \in 1 .. n
      <4>1. frames[i] \in Nat /\ frames[i] <= top
        BY <1>3, <3>2
      <4> QED
        BY <1>4, <1>6, <3>2, <4>1
    <3>3. CASE j = n + 1 /\ i = n + 1
      BY <1>6, <3>3
    <3> QED
      BY <1>2, <3>1, <3>2, <3>3
  <2>4. \A i \in 1 .. n : frames'[i + 1] <= frames'[i] + 1
    <3> TAKE i \in 1 .. n
    <3>1. CASE i = n
      BY <1>2, <1>3, <1>4, <1>6, <3>1
    <3>2. CASE i # n
      <4>1. i \in 1 .. n - 1 /\ i + 1 \in 1 .. n
        BY <1>2, <3>2
      <4> QED
        BY <1>3, <1>6, <4>1
    <3> QED
      BY <3>1, <3>2
  <2>5. (n + 1) - 1 = n
    BY <1>2
  <2> QED
    BY <1>6, <2>1, <2>2, <2>3, <2>4, <2>5 DEF FramesClimb
<1>8. SlotsMatch'
  BY DEF ControlInv, SlotsMatch, Control!SlotIds
<1>9. ArmedLive'
  <2> SUFFICES ASSUME NEW b \in Buffers, armed[b].host # 0
               PROVE  /\ armed[b].host <= n + 1
                      /\ \A i \in 1 .. armed[b].host : frames'[i] = frames'[armed[b].host] =>
                            armed[b].saved > armed[b].host - i
    BY <1>6 DEF ArmedLive
  <2>1. PICK h \in Nat \ {0} : h = armed[b].host /\ h <= n
    BY <1>1, <1>2 DEF SeenSet, ControlInv, ArmedLive
  <2>2. \A i \in 1 .. h : frames'[i] = frames[i]
    BY <1>2, <1>6, <2>1
  <2>3. \A i \in 1 .. h : frames[i] = frames[h] => armed[b].saved > h - i
    BY <2>1 DEF ControlInv, ArmedLive
  <2>4. h \in 1 .. h /\ frames'[h] = frames[h]
    <3>1. h \in 1 .. h
      BY <2>1
    <3> QED
      BY <2>2, <3>1
  <2> QED
    BY <1>2, <2>1, <2>2, <2>3, <2>4
<1>10. frames' \in Seq(1 .. Len(acts'))
  BY <1>6
<1>11. Len(frames') <= MaxDepth
  BY <1>1, <1>2, <1>6
<1> QED
  BY <1>2, <1>6, <1>7, <1>8, <1>9, <1>10, <1>11

(* A call in the same activation moves its guest stack one level.          *)
LEMMA CallKeeps ==
  ASSUME CoreAssumption, ControlInv, Control!Call
  PROVE  ControlInv'
<1>1. /\ frames # <<>> /\ Len(frames) < MaxDepth /\ acts[Len(acts)].sp < MaxSp
      /\ frames' = Append(frames, Len(acts))
      /\ acts' = [acts EXCEPT ![Len(acts)].sp = @ + 1]
      /\ UNCHANGED <<t_callback_stack, t_callback_busy, malloced, t_jmps, t_jmp_next,
                     armed, t_recovery, guarded, ended>>
  BY DEF Control!Call, Control!callback, Control!jump, Control!Here, Control!Top
<1>2. PICK n, top \in Nat : n = Len(frames) /\ top = Len(acts) /\ n # 0 /\ n < MaxDepth
  BY <1>1, Lengths, EmptySeq
<1>3. /\ acts \in Seq(ActSet) /\ frames[n] = top /\ top \in 1 .. top
      /\ \A i \in 1 .. n : frames[i] \in 1 .. top
      /\ \A j \in 1 .. top : acts[j] \in ActSet
      /\ acts[top].sp \in 1 .. MaxSp /\ acts[top].stack \in Heap \cup {Boot} /\ MaxSp \in Nat
  <2>1. /\ acts \in Seq(ActSet) /\ frames[n] = top /\ \A i \in 1 .. n : frames[i] \in 1 .. top
        /\ \A j \in 1 .. top : acts[j] \in ActSet
        /\ MaxSp \in Nat
    BY <1>1, <1>2, Lengths DEF ControlInv, FramesClimb
  <2>2. top \in 1 .. top
    BY <1>2, <2>1
  <2> QED
    BY <2>1, <2>2 DEF ActSet
<1>4. /\ acts' \in Seq(ActSet) /\ Len(acts') = top
      /\ acts'[top].sp = acts[top].sp + 1
      /\ \A j \in 1 .. top : acts'[j].stack = acts[j].stack /\ acts'[j].sp >= acts[j].sp
  <2>1. acts' = [acts EXCEPT ![top] = [acts[top] EXCEPT !.sp = acts[top].sp + 1]]
    BY <1>1, <1>2
  <2>2. [acts[top] EXCEPT !.sp = acts[top].sp + 1] \in ActSet
    BY <1>1, <1>2, <1>3 DEF ActSet
  <2>3. acts' \in Seq(ActSet) /\ Len(acts') = top
    BY <1>2, <1>3, <2>1, <2>2
  <2>4. acts'[top] = [acts[top] EXCEPT !.sp = acts[top].sp + 1]
        /\ \A j \in 1 .. top : j # top => acts'[j] = acts[j]
    BY <1>2, <1>3, <2>1
  <2>5. acts'[top].sp = acts[top].sp + 1 /\ acts'[top].stack = acts[top].stack
    BY <1>3, <2>2, <2>4 DEF ActSet
  <2>6. \A j \in 1 .. top : acts'[j].stack = acts[j].stack
    BY <2>4, <2>5
  <2>7. \A j \in 1 .. top : acts'[j].sp >= acts[j].sp
    <3> TAKE j \in 1 .. top
    <3>1. acts[j].sp \in Nat
      BY <1>3 DEF ActSet
    <3>2. PICK p \in Nat : p = acts[j].sp
      BY <3>1
    <3>3. acts'[j].sp = p \/ acts'[j].sp = p + 1
      BY <2>4, <2>5, <3>2
    <3> QED
      BY <3>2, <3>3
  <2> QED
    BY <2>3, <2>5, <2>6, <2>7
<1>5. /\ frames' \in Seq(1 .. Len(acts')) /\ Len(frames') = n + 1 /\ n + 1 <= MaxDepth
      /\ \A i \in 1 .. n : frames'[i] = frames[i]
      /\ frames'[n + 1] = top
      /\ FramesClimb' /\ SlotsMatch' /\ ArmedLive'
  BY <1>1, <1>2, <1>4, PushKeeps
<1>6. Control!TypeOK'
  BY <1>1, <1>2, <1>4, <1>5 DEF ControlInv, Control!TypeOK, Control!Here, Control!SlotIds, ActSet
<1>7. DeepEnough'
  <2> SUFFICES ASSUME NEW i \in 1 .. n + 1, NEW j \in 1 .. n + 1, i <= j, frames'[i] = frames'[j]
               PROVE  acts'[frames'[j]].sp > j - i
    BY <1>5 DEF DeepEnough
  <2>1. CASE j \in 1 .. n
    <3>1. i \in 1 .. n /\ frames[i] = frames[j] /\ frames[j] \in 1 .. top
      BY <1>2, <1>3, <1>5, <2>1
    <3>2. acts[frames[j]].sp > j - i
      BY <1>2, <2>1, <3>1 DEF ControlInv, DeepEnough
    <3>3. acts[frames[j]].sp \in Nat /\ acts'[frames[j]].sp \in Nat
      <4>1. acts'[frames[j]] \in ActSet
        BY <1>4, <3>1, ElementOfSeq
      <4> QED
        BY <1>3, <3>1, <4>1 DEF ActSet
    <3>4. acts'[frames[j]].sp >= acts[frames[j]].sp
      BY <1>4, <3>1
    <3> QED
      BY <1>5, <2>1, <3>1, <3>2, <3>3, <3>4
  <2>2. CASE j = n + 1 /\ i \in 1 .. n
    <3>1. frames[i] = frames[n] /\ n \in 1 .. n /\ i <= n
      BY <1>2, <1>3, <1>5, <2>2
    <3>2. acts[top].sp > n - i
      BY <1>2, <1>3, <2>2, <3>1 DEF ControlInv, DeepEnough
    <3> QED
      BY <1>2, <1>3, <1>4, <1>5, <2>2, <3>2
  <2>3. CASE j = n + 1 /\ i = n + 1
    BY <1>2, <1>3, <1>4, <1>5, <2>3
  <2> QED
    BY <1>2, <2>1, <2>2, <2>3
<1>8. StacksApart'
  BY <1>1, <1>2, <1>4 DEF ControlInv, StacksApart, Control!NoSharedStack, Control!Top
<1>9. SlotsApart'
  BY <1>1 DEF ControlInv, SlotsApart, Control!SlotIds
<1> QED
  BY <1>5, <1>6, <1>7, <1>8, <1>9 DEF ControlInv

(* A return moves it back; what the frames below need is still there.      *)
LEMMA ReturnKeeps ==
  ASSUME CoreAssumption, ControlInv, Control!Return
  PROVE  ControlInv'
<1>1. /\ Len(frames) > 1 /\ frames[Len(frames) - 1] = Len(acts)
      /\ acts' = [acts EXCEPT ![Len(acts)].sp = @ - 1]
      /\ Control!Unwind(Len(frames) - 1)
      /\ UNCHANGED <<t_callback_stack, t_callback_busy, malloced, t_jmps, t_jmp_next,
                     t_recovery, guarded, ended>>
  BY DEF Control!Return, Control!callback, Control!jump, Control!Here, Control!Top
<1>2. PICK n, top \in Nat : n = Len(frames) /\ top = Len(acts) /\ n > 1 /\ n - 1 \in 0 .. n
  <2>1. Len(frames) \in Nat /\ Len(acts) \in Nat
    BY Lengths
  <2>2. Len(frames) - 1 \in 0 .. Len(frames)
    BY <1>1, <2>1
  <2> QED
    BY <1>1, <2>1, <2>2
<1>3. /\ acts \in Seq(ActSet) /\ frames[n] = top /\ frames[n - 1] = top /\ top \in 1 .. top
      /\ \A i \in 1 .. n : frames[i] \in 1 .. top
      /\ \A j \in 1 .. top : acts[j] \in ActSet
      /\ acts[top].sp \in 1 .. MaxSp /\ acts[top].stack \in Heap \cup {Boot} /\ MaxSp \in Nat
  <2>1. frames # <<>>
    BY <1>2, EmptySeq
  <2>2. /\ acts \in Seq(ActSet) /\ frames[n] = top /\ \A i \in 1 .. n : frames[i] \in 1 .. top
        /\ \A j \in 1 .. top : acts[j] \in ActSet
        /\ MaxSp \in Nat
    BY <1>1, <1>2, <2>1, Lengths DEF ControlInv, FramesClimb
  <2>3. top \in 1 .. top
    BY <1>2, <2>2
  <2> QED
    BY <1>1, <1>2, <2>2, <2>3 DEF ActSet
<1>4. acts[top].sp > 1
  <2>1. n - 1 \in 1 .. n /\ n \in 1 .. n /\ n - (n - 1) = 1
    BY <1>2
  <2> QED
    BY <1>2, <1>3, <2>1 DEF ControlInv, DeepEnough
<1>5. /\ acts' \in Seq(ActSet) /\ Len(acts') = top
      /\ acts'[top].sp = acts[top].sp - 1
      /\ \A j \in 1 .. top : acts'[j].stack = acts[j].stack /\ (j # top => acts'[j] = acts[j])
  <2>1. acts' = [acts EXCEPT ![top] = [acts[top] EXCEPT !.sp = acts[top].sp - 1]]
    BY <1>1, <1>2
  <2>2. [acts[top] EXCEPT !.sp = acts[top].sp - 1] \in ActSet
    <3>1. PICK p \in 1 .. MaxSp : p = acts[top].sp /\ p > 1
      BY <1>3, <1>4
    <3>2. p - 1 \in 1 .. MaxSp
      BY <1>3, <3>1
    <3>3. acts[top] \in ActSet
      BY <1>3
    <3> QED
      BY <3>1, <3>2, <3>3 DEF ActSet
  <2>3. acts' \in Seq(ActSet) /\ Len(acts') = top
    BY <1>2, <1>3, <2>1, <2>2
  <2>4. acts'[top] = [acts[top] EXCEPT !.sp = acts[top].sp - 1]
        /\ \A j \in 1 .. top : j # top => acts'[j] = acts[j]
    BY <1>2, <1>3, <2>1
  <2> QED
    BY <1>2, <1>3, <2>3, <2>4 DEF ActSet
<1>6. /\ frames' \in Seq(1 .. Len(acts')) /\ Len(frames') = n - 1 /\ n - 1 <= MaxDepth
      /\ \A i \in 1 .. n - 1 : frames'[i] = frames[i]
      /\ armed' \in [Buffers -> SeenSet]
      /\ FramesClimb' /\ SlotsMatch' /\ ArmedLive'
  <2>1. Len(acts') = IF n - 1 = 0 THEN 0 ELSE frames[n - 1]
    BY <1>2, <1>3, <1>5
  <2> QED
    BY <1>1, <1>2, <1>5, <2>1, UnwindKeeps
<1>7. Control!TypeOK'
  BY <1>1, <1>2, <1>5, <1>6 DEF ControlInv, Control!TypeOK, Control!Here, Control!SlotIds, ActSet, SeenSet
<1>8. DeepEnough'
  <2> SUFFICES ASSUME NEW i \in 1 .. n - 1, NEW j \in 1 .. n - 1, i <= j, frames'[i] = frames'[j]
               PROVE  acts'[frames'[j]].sp > j - i
    BY <1>6 DEF DeepEnough
  <2>1. i \in 1 .. n /\ j \in 1 .. n /\ n \in 1 .. n /\ frames[i] = frames[j]
        /\ frames'[j] = frames[j] /\ frames[j] \in 1 .. top
    <3>1. i \in 1 .. n /\ j \in 1 .. n /\ n \in 1 .. n
      BY <1>2
    <3>2. frames'[i] = frames[i] /\ frames'[j] = frames[j]
      BY <1>6
    <3> QED
      BY <1>3, <3>1, <3>2
  <2>2. CASE frames[j] = top
    <3>1. acts[top].sp > n - i
      BY <1>2, <1>3, <2>1, <2>2 DEF ControlInv, DeepEnough
    <3> QED
      BY <1>2, <1>3, <1>5, <2>1, <2>2, <3>1
  <2>3. CASE frames[j] # top
    <3>1. acts[frames[j]].sp > j - i
      BY <1>2, <2>1 DEF ControlInv, DeepEnough
    <3> QED
      BY <1>5, <2>1, <2>3, <3>1
  <2> QED
    BY <2>2, <2>3
<1>9. StacksApart'
  BY <1>1, <1>2, <1>5 DEF ControlInv, StacksApart, Control!NoSharedStack, Control!Top
<1>10. SlotsApart'
  BY <1>1 DEF ControlInv, SlotsApart, Control!SlotIds
<1> QED
  BY <1>6, <1>7, <1>8, <1>9, <1>10 DEF ControlInv

(* All frames and activations at once, when the outermost function returns *)
(* or a trap goes to the recovery point.                                   *)
LEMMA UnwindAllKeeps ==
  ASSUME CoreAssumption, ControlInv, acts' = <<>>, Control!Unwind(0),
         t_recovery' \in BOOLEAN, ended' \in BOOLEAN,
         UNCHANGED <<t_callback_stack, t_callback_busy, malloced, t_jmps, t_jmp_next, guarded>>
  PROVE  ControlInv'
<1>1. acts' \in Seq(ActSet) /\ Len(acts') = 0 /\ 0 \in 0 .. Len(frames)
  BY Lengths, EmptySeq
<1>2. /\ frames' \in Seq(1 .. Len(acts')) /\ Len(frames') = 0 /\ 0 <= MaxDepth
      /\ armed' \in [Buffers -> SeenSet]
      /\ FramesClimb' /\ SlotsMatch' /\ ArmedLive'
  BY <1>1, UnwindKeeps
<1>3. Control!TypeOK'
  BY <1>1, <1>2 DEF ControlInv, Control!TypeOK, Control!Here, Control!SlotIds, ActSet, SeenSet
<1>4. DeepEnough' /\ StacksApart'
  BY <1>1, <1>2 DEF DeepEnough, StacksApart, Control!NoSharedStack, Control!Top
<1>5. SlotsApart'
  BY DEF ControlInv, SlotsApart, Control!SlotIds
<1> QED
  BY <1>2, <1>3, <1>4, <1>5 DEF ControlInv

(* The outermost function returns.                                         *)
LEMMA LeaveKeeps ==
  ASSUME CoreAssumption, ControlInv, Control!Leave
  PROVE  ControlInv'
<1>1. ended' \in BOOLEAN
  BY DEF Control!Leave, ControlInv, Control!TypeOK
<1> QED
  BY <1>1, UnwindAllKeeps DEF Control!Leave, Control!callback, Control!jump

(* A trap, with a recovery point or without.                               *)
LEMMA TrappedKeeps ==
  ASSUME CoreAssumption, ControlInv, Control!Trapped
  PROVE  ControlInv'
<1>1. CASE t_recovery
  BY <1>1, UnwindAllKeeps DEF Control!Trapped, Control!callback, Control!jump, ControlInv, Control!TypeOK
<1>2. CASE ~t_recovery
  BY <1>2 DEF Control!Trapped, Control!callback, Control!jump, ControlInv, Control!TypeOK,
     Control!Here, Control!SlotIds, FramesClimb, DeepEnough, StacksApart, Control!NoSharedStack,
     Control!Top, SlotsApart, SlotsMatch, ArmedLive
<1> QED
  BY <1>1, <1>2

(* A guest call out of a shim begins on a stack nobody else is on: the     *)
(* kept one only while no live call has it.                                *)
LEMMA CallGuestKeeps ==
  ASSUME CoreAssumption, ControlInv, NEW s \in Heap, Control!CallGuest(s)
  PROVE  ControlInv'
<1> DEFINE new == [stack |-> s, sp |-> 1]
<1>1. /\ frames # <<>> /\ Len(frames) < MaxDepth
      /\ acts' = Append(acts, new) /\ frames' = Append(frames, Len(acts) + 1)
      /\ UNCHANGED <<t_jmps, t_jmp_next, armed, t_recovery, guarded, ended>>
  BY DEF Control!CallGuest, Control!jump, Control!Here, Control!Top
<1>2. PICK n, top \in Nat : n = Len(frames) /\ top = Len(acts) /\ n # 0 /\ n < MaxDepth
  BY <1>1, Lengths, EmptySeq
<1>3. /\ acts \in Seq(ActSet) /\ new \in ActSet
      /\ \A i \in 1 .. n : frames[i] \in 1 .. top
      /\ Boot \notin Heap /\ None \notin Heap
  BY <1>2, Lengths DEF ActSet, CoreAssumption, Control!ControlAssumption
<1>4. /\ acts' \in Seq(ActSet) /\ Len(acts') = top + 1 /\ acts'[top + 1] = new
      /\ \A j \in 1 .. top : acts'[j] = acts[j]
  BY <1>1, <1>2, <1>3, AppendProperties
<1>5. /\ frames' \in Seq(1 .. Len(acts')) /\ Len(frames') = n + 1 /\ n + 1 <= MaxDepth
      /\ \A i \in 1 .. n : frames'[i] = frames[i]
      /\ frames'[n + 1] = top + 1
      /\ FramesClimb' /\ SlotsMatch' /\ ArmedLive'
  <2>1. top + 1 \in Nat
    BY <1>2
  <2> QED
    BY <1>1, <1>2, <1>4, <2>1, PushKeeps
<1>6. /\ malloced \subseteq malloced' /\ malloced' \subseteq Heap /\ s \in malloced'
      /\ t_callback_stack' \in malloced' \cup {None} /\ t_callback_busy' = TRUE
      /\ \A j \in 1 .. top : acts[j].stack # s
  <2>1. malloced \subseteq Heap /\ t_callback_stack \in malloced \cup {None}
    BY DEF ControlInv, Control!TypeOK
  <2>2. \A j \in 1 .. top : acts[j].stack \in malloced \cup {Boot}
    BY <1>2 DEF ControlInv, StacksApart
  <2>3. CASE ~t_callback_busy /\ t_callback_stack # None
    <3>1. s = t_callback_stack /\ UNCHANGED <<t_callback_stack, malloced>> /\ t_callback_busy' = TRUE
      BY <2>3 DEF Control!CallGuest, Control!TakeStack
    <3>2. \A j \in 1 .. top : acts[j].stack # s
      BY <1>2, <2>3, <3>1 DEF ControlInv, StacksApart
    <3> QED
      BY <2>1, <2>3, <3>1, <3>2
  <2>4. CASE ~t_callback_busy /\ t_callback_stack = None
    <3>1. s \in Heap \ malloced /\ t_callback_stack' = s /\ malloced' = malloced \cup {s}
          /\ t_callback_busy' = TRUE
      BY <2>4 DEF Control!CallGuest, Control!TakeStack
    <3> QED
      BY <1>3, <2>1, <2>2, <3>1
  <2>5. CASE t_callback_busy
    <3>1. s \in Heap \ malloced /\ malloced' = malloced \cup {s}
          /\ UNCHANGED <<t_callback_stack, t_callback_busy>>
      BY <2>5 DEF Control!CallGuest, Control!TakeStack
    <3>2. t_callback_busy' = TRUE
      BY <2>5, <3>1 DEF ControlInv, Control!TypeOK
    <3> QED
      BY <1>3, <2>1, <2>2, <3>1, <3>2
  <2> QED
    BY <2>3, <2>4, <2>5
<1>7. Control!TypeOK'
  BY <1>1, <1>2, <1>4, <1>5, <1>6 DEF ControlInv, Control!TypeOK, Control!Here, Control!SlotIds, ActSet
<1>8. DeepEnough'
  <2> SUFFICES ASSUME NEW i \in 1 .. n + 1, NEW j \in 1 .. n + 1, i <= j, frames'[i] = frames'[j]
               PROVE  acts'[frames'[j]].sp > j - i
    BY <1>5 DEF DeepEnough
  <2>1. CASE j \in 1 .. n
    <3>1. i \in 1 .. n /\ frames[i] = frames[j] /\ frames[j] \in 1 .. top
          /\ frames'[j] = frames[j]
      BY <1>2, <1>3, <1>5, <2>1
    <3>2. acts[frames[j]].sp > j - i
      BY <1>2, <2>1, <3>1 DEF ControlInv, DeepEnough
    <3> QED
      BY <1>4, <3>1, <3>2
  <2>2. CASE j = n + 1
    <3>1. i = n + 1
      <4>1. \A k \in 1 .. n : frames'[k] # top + 1
        BY <1>2, <1>3, <1>5
      <4> QED
        BY <1>2, <1>5, <2>2, <4>1
    <3> QED
      BY <1>2, <1>4, <1>5, <2>2, <3>1
  <2> QED
    BY <1>2, <2>1, <2>2
<1>9. StacksApart'
  <2>1. \A j \in 1 .. top + 1 : acts'[j].stack \in IF j = 1 THEN {Boot} ELSE malloced'
    <3>1. top # 0
      BY <1>1, <1>2, <1>3, EmptySeq DEF ControlInv, FramesClimb
    <3>2. \A j \in 1 .. top : acts[j].stack \in IF j = 1 THEN {Boot} ELSE malloced
      BY <1>2 DEF ControlInv, StacksApart
    <3>3. \A j \in 1 .. top + 1 : j \in 1 .. top \/ (j = top + 1 /\ j # 1)
      BY <1>2, <3>1
    <3> QED
      BY <1>4, <1>6, <3>2, <3>3
  <2>2. \A j, k \in 1 .. top + 1 : acts'[j].stack = acts'[k].stack => j = k
    <3>1. \A j, k \in 1 .. top : acts[j].stack = acts[k].stack => j = k
      BY <1>2 DEF ControlInv, StacksApart, Control!NoSharedStack, Control!Top
    <3>2. \A j \in 1 .. top + 1 : j \in 1 .. top \/ j = top + 1
      BY <1>2
    <3> QED
      BY <1>4, <1>6, <3>1, <3>2
  <2> QED
    BY <1>4, <1>6, <2>1, <2>2 DEF StacksApart, Control!NoSharedStack, Control!Top
<1>10. SlotsApart'
  BY <1>1 DEF ControlInv, SlotsApart, Control!SlotIds
<1> QED
  BY <1>5, <1>7, <1>8, <1>9, <1>10 DEF ControlInv

(* It ends by giving its stack back: the kept one to the flag, another to  *)
(* the heap, and no other live call had either.                            *)
LEMMA EndCallbackKeeps ==
  ASSUME CoreAssumption, ControlInv, Control!EndCallback
  PROVE  ControlInv'
<1>1. /\ Len(frames) > 1 /\ frames[Len(frames) - 1] < Len(acts)
      /\ IF acts[Len(acts)].stack = t_callback_stack
         THEN t_callback_busy' = FALSE /\ UNCHANGED malloced
         ELSE malloced' = malloced \ {acts[Len(acts)].stack} /\ UNCHANGED t_callback_busy
      /\ acts' = SubSeq(acts, 1, Len(acts) - 1)
      /\ Control!Unwind(Len(frames) - 1)
      /\ UNCHANGED <<t_callback_stack, t_jmps, t_jmp_next, t_recovery, guarded, ended>>
  BY DEF Control!EndCallback, Control!jump, Control!Here, Control!Top
<1>2. PICK n, top \in Nat : n = Len(frames) /\ top = Len(acts) /\ n > 1 /\ n - 1 \in 0 .. n
  <2>1. Len(frames) \in Nat /\ Len(acts) \in Nat
    BY Lengths
  <2>2. Len(frames) - 1 \in 0 .. Len(frames)
    BY <1>1, <2>1
  <2> QED
    BY <1>1, <2>1, <2>2
<1>3. /\ acts \in Seq(ActSet) /\ frames[n - 1] = top - 1 /\ top > 1
      /\ \A i \in 1 .. n : frames[i] \in 1 .. top
  <2>1. frames # <<>>
    BY <1>2, EmptySeq
  <2>2. frames[n] = top /\ \A i \in 1 .. n : frames[i] \in 1 .. top
    BY <1>2, <2>1, Lengths DEF ControlInv, FramesClimb
  <2>3. n - 1 \in 1 .. n - 1 /\ n - 1 \in 1 .. n /\ (n - 1) + 1 = n
    BY <1>2
  <2>4. frames[n] <= frames[n - 1] + 1
    BY <1>2, <2>3 DEF ControlInv, FramesClimb
  <2>5. frames[n - 1] \in 1 .. top /\ frames[n - 1] < top
    BY <1>1, <1>2, <2>2, <2>3
  <2>6. frames[n - 1] = top - 1 /\ top > 1
    BY <1>2, <2>2, <2>4, <2>5
  <2> QED
    BY <2>2, <2>6, Lengths
<1>4. /\ acts' \in Seq(ActSet) /\ Len(acts') = top - 1
      /\ \A j \in 1 .. top - 1 : acts'[j] = acts[j]
  <2>1. top - 1 \in 0 .. top
    BY <1>2, <1>3
  <2> QED
    BY <1>1, <1>2, <1>3, <2>1, Front
<1>5. /\ frames' \in Seq(1 .. Len(acts')) /\ Len(frames') = n - 1 /\ n - 1 <= MaxDepth
      /\ \A i \in 1 .. n - 1 : frames'[i] = frames[i]
      /\ armed' \in [Buffers -> SeenSet]
      /\ FramesClimb' /\ SlotsMatch' /\ ArmedLive'
  <2>1. Len(acts') = IF n - 1 = 0 THEN 0 ELSE frames[n - 1]
    BY <1>2, <1>3, <1>4
  <2> QED
    BY <1>1, <1>2, <1>4, <2>1, UnwindKeeps
<1>6. /\ malloced' \subseteq Heap /\ t_callback_stack' \in malloced' \cup {None}
      /\ t_callback_busy' \in BOOLEAN
      /\ \A j \in 1 .. top - 1 : acts[j].stack \in IF j = 1 THEN {Boot} ELSE malloced'
      /\ ~t_callback_busy' => \A j \in 1 .. top - 1 : acts[j].stack # t_callback_stack
  <2>1. /\ malloced \subseteq Heap /\ t_callback_stack \in malloced \cup {None}
        /\ t_callback_busy \in BOOLEAN
    BY DEF ControlInv, Control!TypeOK
  <2>2. /\ \A j \in 1 .. top - 1 : j \in 1 .. top /\ j # top
        /\ top \in 1 .. top
    BY <1>2, <1>3
  <2>3. /\ \A j \in 1 .. top - 1 : acts[j].stack \in IF j = 1 THEN {Boot} ELSE malloced
        /\ \A j \in 1 .. top - 1 : acts[j].stack # acts[top].stack
        /\ ~t_callback_busy => \A j \in 1 .. top - 1 : acts[j].stack # t_callback_stack
    BY <1>2, <2>2 DEF ControlInv, StacksApart, Control!NoSharedStack, Control!Top
  <2>4. CASE acts[top].stack = t_callback_stack
    BY <1>1, <1>2, <2>1, <2>3, <2>4
  <2>5. CASE acts[top].stack # t_callback_stack
    BY <1>1, <1>2, <2>1, <2>3, <2>5
  <2> QED
    BY <2>4, <2>5
<1>7. Control!TypeOK'
  BY <1>1, <1>4, <1>5, <1>6 DEF ControlInv, Control!TypeOK, Control!Here, Control!SlotIds, ActSet, SeenSet
<1>8. DeepEnough'
  <2> SUFFICES ASSUME NEW i \in 1 .. n - 1, NEW j \in 1 .. n - 1, i <= j, frames'[i] = frames'[j]
               PROVE  acts'[frames'[j]].sp > j - i
    BY <1>5 DEF DeepEnough
  <2>1. i \in 1 .. n /\ j \in 1 .. n
    BY <1>2
  <2>2. frames[i] = frames[j] /\ frames'[j] = frames[j]
    BY <1>5
  <2>3. frames'[j] \in 1 .. top - 1
    BY <1>4, <1>5, ElementOfSeq
  <2>4. acts[frames[j]].sp > j - i
    BY <1>2, <2>1, <2>2 DEF ControlInv, DeepEnough
  <2> QED
    BY <1>4, <2>2, <2>3, <2>4
<1>9. StacksApart'
  <2>1. \A j, k \in 1 .. top - 1 : acts'[j].stack = acts'[k].stack => j = k
    <3>1. \A j \in 1 .. top - 1 : j \in 1 .. top
      BY <1>2
    <3> QED
      BY <1>2, <1>4, <3>1 DEF ControlInv, StacksApart, Control!NoSharedStack, Control!Top
  <2> QED
    BY <1>1, <1>4, <1>6, <2>1 DEF StacksApart, Control!NoSharedStack, Control!Top
<1>10. SlotsApart'
  BY <1>1 DEF ControlInv, SlotsApart, Control!SlotIds
<1> QED
  BY <1>5, <1>7, <1>8, <1>9, <1>10 DEF ControlInv

(* The least of some slots is one of them.                                 *)
LEMMA FirstIs ==
  ASSUME NEW S \in SUBSET Control!SlotIds, S # {}
  PROVE  Control!First(S) \in S
<1>1. S \subseteq Nat
  BY DEF Control!SlotIds
<1>2. \E i \in S : \A j \in S : i <= j
  BY <1>1, Least
<1> QED
  BY <1>2 DEF Control!First

(* A setjmp takes the buffer's own slot if it has one.                     *)
LEMMA SlotIsFree ==
  ASSUME CoreAssumption, ControlInv, NEW b \in Buffers
  PROVE  /\ Control!SlotFor(b) \in Control!SlotIds
         /\ \A j \in Control!SlotIds : t_jmps[j].guest = b => j = Control!SlotFor(b)
<1>1. /\ Control!Holding(b) \in SUBSET Control!SlotIds
      /\ Control!Holding(NoBuf) \in SUBSET Control!SlotIds
      /\ t_jmp_next \in Control!SlotIds
  BY DEF Control!Holding, ControlInv, Control!TypeOK
<1>2. Control!SlotFor(b) \in Control!SlotIds
  BY <1>1, FirstIs DEF Control!SlotFor
<1>3. \A j \in Control!SlotIds : t_jmps[j].guest = b => j = Control!SlotFor(b)
  <2> SUFFICES ASSUME NEW j \in Control!SlotIds, t_jmps[j].guest = b
               PROVE  j = Control!SlotFor(b)
    OBVIOUS
  <2>1. j \in Control!Holding(b)
    BY DEF Control!Holding
  <2>2. Control!SlotFor(b) \in Control!Holding(b)
    BY <1>1, <2>1, FirstIs DEF Control!SlotFor
  <2>3. t_jmps[Control!SlotFor(b)].guest = b /\ b # NoBuf
    BY <2>2 DEF Control!Holding, CoreAssumption, Control!ControlAssumption
  <2> QED
    BY <1>2, <2>3 DEF ControlInv, SlotsApart
<1> QED
  BY <1>2, <1>3

(* A setjmp remembers the frame it is written in.                          *)
LEMMA SetjmpKeeps ==
  ASSUME CoreAssumption, ControlInv, NEW b \in Buffers, Control!Setjmp(b)
  PROVE  ControlInv'
<1>1. /\ frames # <<>>
      /\ UNCHANGED <<frames, acts, t_callback_stack, t_callback_busy, malloced,
                     t_recovery, guarded, ended>>
  BY DEF Control!Setjmp, Control!callback
<1>2. PICK n, top \in Nat : n = Len(frames) /\ top = Len(acts) /\ n # 0 /\ n <= MaxDepth
  BY <1>1, Lengths, EmptySeq
<1>3. /\ frames[n] = top /\ n \in 1 .. n /\ acts[top].sp \in 1 .. MaxSp
      /\ MaxDepth \in Nat /\ MaxSp \in Nat
  <2>1. /\ frames[n] = top /\ n \in 1 .. n /\ frames[n] \in 1 .. top
        /\ \A j \in 1 .. top : acts[j] \in ActSet
        /\ MaxDepth \in Nat /\ MaxSp \in Nat
    BY <1>1, <1>2, Lengths DEF ControlInv, FramesClimb
  <2> QED
    BY <2>1 DEF ActSet
<1>4. PICK i \in Control!SlotIds :
        /\ i = Control!SlotFor(b)
        /\ t_jmps' = [t_jmps EXCEPT ![i] = [guest |-> b, host |-> n, saved |-> acts[top].sp]]
        /\ armed' = [armed EXCEPT ![b] = [host |-> n, saved |-> acts[top].sp]]
        /\ \A j \in Control!SlotIds : t_jmps[j].guest = b => j = i
  BY <1>2, SlotIsFree DEF Control!Setjmp, Control!Here, Control!Top
<1>5. /\ [guest |-> b, host |-> n, saved |-> acts[top].sp] \in
             [guest : Buffers \cup {NoBuf}, host : 0 .. MaxDepth, saved : 0 .. MaxSp]
      /\ [host |-> n, saved |-> acts[top].sp] \in SeenSet
  BY <1>2, <1>3 DEF SeenSet
<1>6. /\ t_jmps \in [Control!SlotIds -> [guest : Buffers \cup {NoBuf},
                                         host : 0 .. MaxDepth, saved : 0 .. MaxSp]]
      /\ armed \in [Buffers -> SeenSet] /\ t_jmp_next \in Control!SlotIds
  BY DEF ControlInv, Control!TypeOK, SeenSet
<1>7. t_jmp_next' \in Control!SlotIds
  <2>1. t_jmp_next' = t_jmp_next \/ t_jmp_next' = (t_jmp_next + 1) % JmpSlots
    BY DEF Control!Setjmp
  <2>2. JmpSlots \in Nat \ {0} /\ t_jmp_next \in Nat
    BY <1>6, Lengths DEF Control!SlotIds
  <2>3. (t_jmp_next + 1) % JmpSlots \in 0 .. JmpSlots - 1
    BY <2>2
  <2> QED
    BY <1>6, <2>1, <2>3 DEF Control!SlotIds
<1>8. Control!TypeOK'
  <2>1. t_jmps' \in [Control!SlotIds -> [guest : Buffers \cup {NoBuf},
                                         host : 0 .. MaxDepth, saved : 0 .. MaxSp]]
    BY <1>4, <1>5, <1>6
  <2>2. armed' \in [Buffers -> SeenSet]
    BY <1>4, <1>5, <1>6
  <2>3. Control!SlotIds' = Control!SlotIds
    BY DEF Control!SlotIds
  <2> QED
    BY <1>1, <1>7, <2>1, <2>2, <2>3 DEF ControlInv, Control!TypeOK, Control!Here, SeenSet
<1>9. FramesClimb' /\ DeepEnough' /\ StacksApart'
  BY <1>1 DEF ControlInv, FramesClimb, DeepEnough, StacksApart, Control!NoSharedStack, Control!Top
<1>10. /\ t_jmps'[i] = [guest |-> b, host |-> n, saved |-> acts[top].sp]
       /\ \A j \in Control!SlotIds : j # i => t_jmps'[j] = t_jmps[j] /\ t_jmps[j].guest # b
       /\ armed'[b] = [host |-> n, saved |-> acts[top].sp]
       /\ \A c \in Buffers : c # b => armed'[c] = armed[c]
  BY <1>4, <1>6
<1>11. SlotsApart'
  <2> SUFFICES ASSUME NEW j \in Control!SlotIds, NEW k \in Control!SlotIds,
                      t_jmps'[j].guest = t_jmps'[k].guest, t_jmps'[j].guest # NoBuf
               PROVE  j = k
    BY DEF SlotsApart, Control!SlotIds
  <2>1. CASE j # i /\ k # i
    BY <1>10, <2>1 DEF ControlInv, SlotsApart
  <2>2. CASE j = i \/ k = i
    BY <1>10, <2>2
  <2> QED
    BY <2>1, <2>2
<1>12. SlotsMatch'
  <2> SUFFICES ASSUME NEW j \in Control!SlotIds, NEW c \in Buffers,
                      t_jmps'[j].guest = c, armed'[c].host # 0
               PROVE  t_jmps'[j].host = armed'[c].host /\ t_jmps'[j].saved = armed'[c].saved
    BY DEF SlotsMatch, Control!SlotIds
  <2>1. CASE j # i
    <3>1. t_jmps'[j] = t_jmps[j] /\ c # b /\ armed'[c] = armed[c]
      BY <1>10, <2>1
    <3> QED
      BY <3>1 DEF ControlInv, SlotsMatch
  <2>2. CASE j = i
    BY <1>10, <2>2
  <2> QED
    BY <2>1, <2>2
<1>13. ArmedLive'
  <2> SUFFICES ASSUME NEW c \in Buffers, armed'[c].host # 0
               PROVE  /\ armed'[c].host <= n
                      /\ \A k \in 1 .. armed'[c].host : frames[k] = frames[armed'[c].host] =>
                            armed'[c].saved > armed'[c].host - k
    BY <1>1, <1>2 DEF ArmedLive
  <2>1. CASE c # b
    <3>1. armed'[c] = armed[c]
      BY <1>10, <2>1
    <3> QED
      BY <1>2, <3>1 DEF ControlInv, ArmedLive
  <2>2. CASE c = b
    <3>1. armed'[c].host = n /\ armed'[c].saved = acts[top].sp
      BY <1>10, <2>2
    <3>2. \A k \in 1 .. n : frames[k] = frames[n] => acts[frames[n]].sp > n - k
      BY <1>2, <1>3 DEF ControlInv, DeepEnough
    <3> QED
      BY <1>2, <1>3, <3>1, <3>2
  <2> QED
    BY <2>1, <2>2
<1> QED
  BY <1>8, <1>9, <1>11, <1>12, <1>13 DEF ControlInv

(* Where a longjmp to a live buffer that still has a slot lands.           *)
LEMMA LandsWhere ==
  ASSUME CoreAssumption, ControlInv, NEW b \in Buffers, Control!Lands(b)
  PROVE  \E h \in 1 .. Len(frames), saved \in 1 .. MaxSp :
           /\ armed[b].host = h /\ armed[b].saved = saved
           /\ Control!Unwind(h)
           /\ acts' = SubSeq([acts EXCEPT ![Len(acts)].sp = saved], 1, frames[h])
           /\ UNCHANGED <<t_callback_stack, t_callback_busy, malloced, t_jmps, t_jmp_next,
                          t_recovery, guarded, ended>>
<1> DEFINE i == Control!First(Control!Holding(b))
<1>1. Control!Longjmp(b) /\ Control!Holding(b) # {} /\ armed[b].host # 0
  BY DEF Control!Lands, Control!Longjmp
<1>2. i \in Control!SlotIds /\ t_jmps[i].guest = b
  <2>1. Control!Holding(b) \in SUBSET Control!SlotIds
    BY DEF Control!Holding
  <2>2. i \in Control!Holding(b)
    BY <1>1, <2>1, FirstIs
  <2> QED
    BY <2>2 DEF Control!Holding
<1>3. t_jmps[i].host = armed[b].host /\ t_jmps[i].saved = armed[b].saved
  BY <1>1, <1>2 DEF ControlInv, SlotsMatch
<1>4. armed[b].host \in 1 .. Len(frames) /\ armed[b].saved \in 1 .. MaxSp
  <2>1. armed[b].host \in Nat \ {0} /\ armed[b].saved \in 0 .. MaxSp /\ Len(frames) \in Nat
        /\ MaxSp \in Nat
    BY <1>1, Lengths DEF SeenSet
  <2>2. armed[b].host <= Len(frames)
    BY <1>1 DEF ControlInv, ArmedLive
  <2>3. PICK h \in Nat \ {0} : h = armed[b].host
    BY <2>1
  <2>4. h \in 1 .. h
    BY <2>3
  <2>5. armed[b].saved > h - h
    BY <1>1, <2>3, <2>4 DEF ControlInv, ArmedLive
  <2> QED
    BY <2>1, <2>2, <2>3, <2>5
<1>5. /\ Control!Unwind(t_jmps[i].host)
      /\ acts' = SubSeq(Control!Restored(i), 1, frames[t_jmps[i].host])
      /\ UNCHANGED <<t_callback_stack, t_callback_busy, malloced, t_jmps, t_jmp_next,
                     t_recovery, guarded, ended>>
  BY <1>1 DEF Control!Longjmp, Control!callback, Control!jump
<1> QED
  BY <1>3, <1>4, <1>5 DEF Control!Restored, Control!Top

(* A longjmp within an activation puts its guest stack back to where the   *)
(* frame it lands in left it; one out of an activation forgets that one.   *)
LEMMA LandsKeeps ==
  ASSUME CoreAssumption, ControlInv, NEW b \in Buffers, Control!Lands(b)
  PROVE  ControlInv'
<1>1. PICK h \in 1 .. Len(frames), saved \in 1 .. MaxSp :
        /\ armed[b].host = h /\ armed[b].saved = saved
        /\ Control!Unwind(h)
        /\ acts' = SubSeq([acts EXCEPT ![Len(acts)].sp = saved], 1, frames[h])
        /\ UNCHANGED <<t_callback_stack, t_callback_busy, malloced, t_jmps, t_jmp_next,
                       t_recovery, guarded, ended>>
  BY LandsWhere
<1>2. PICK n, top, a \in Nat : /\ n = Len(frames) /\ top = Len(acts) /\ a = frames[h]
                               /\ h \in Nat \ {0} /\ h <= n /\ a \in 1 .. top
  BY Lengths
<1>3. /\ acts \in Seq(ActSet) /\ top \in 1 .. top
      /\ \A i \in 1 .. n : frames[i] \in 1 .. top
      /\ \A j \in 1 .. top : acts[j] \in ActSet
      /\ MaxSp \in Nat
  <2>1. top \in 1 .. top
    BY <1>2
  <2> QED
    BY <1>2, <2>1, Lengths
<1> DEFINE base == [acts EXCEPT ![top].sp = saved]
<1>4. /\ base \in Seq(ActSet) /\ Len(base) = top
      /\ base[top].sp = saved /\ base[top].stack = acts[top].stack
      /\ \A j \in 1 .. top : j # top => base[j] = acts[j]
  <2>1. base = [acts EXCEPT ![top] = [acts[top] EXCEPT !.sp = saved]]
    OBVIOUS
  <2>2. [acts[top] EXCEPT !.sp = saved] \in ActSet
    BY <1>3 DEF ActSet
  <2>3. base \in Seq(ActSet) /\ Len(base) = top
    BY <1>2, <1>3, <2>1, <2>2
  <2>4. base[top] = [acts[top] EXCEPT !.sp = saved]
    BY <1>2, <1>3, <2>1
  <2>5. \A j \in 1 .. top : j # top => base[j] = acts[j]
    BY <1>2, <1>3, <2>1
  <2>6. acts[top] \in ActSet
    BY <1>3
  <2>7. base[top].sp = saved /\ base[top].stack = acts[top].stack
    BY <2>4, <2>6 DEF ActSet
  <2> QED
    BY <2>3, <2>5, <2>7
<1> HIDE DEF base
<1>5. /\ acts' \in Seq(ActSet) /\ Len(acts') = a
      /\ \A j \in 1 .. a : acts'[j] = base[j] /\ acts'[j].stack = acts[j].stack
  <2>1. acts' = SubSeq(base, 1, a) /\ a \in 0 .. top
    BY <1>1, <1>2 DEF base
  <2>2. /\ acts' \in Seq(ActSet) /\ Len(acts') = a
        /\ \A j \in 1 .. a : acts'[j] = base[j]
    BY <1>2, <1>4, <2>1, Front
  <2>3. \A j \in 1 .. a : j \in 1 .. top
    BY <1>2
  <2> QED
    BY <1>4, <2>2, <2>3
<1>6. /\ frames' \in Seq(1 .. Len(acts')) /\ Len(frames') = h /\ h <= MaxDepth
      /\ \A i \in 1 .. h : frames'[i] = frames[i]
      /\ armed' \in [Buffers -> SeenSet]
      /\ FramesClimb' /\ SlotsMatch' /\ ArmedLive'
  <2>1. Len(acts') = IF h = 0 THEN 0 ELSE frames[h]
    BY <1>2, <1>5
  <2>2. h \in 0 .. Len(frames)
    BY <1>2
  <2> QED
    BY <1>1, <1>5, <2>1, <2>2, UnwindKeeps
<1>7. Control!TypeOK'
  BY <1>1, <1>5, <1>6 DEF ControlInv, Control!TypeOK, Control!Here, Control!SlotIds, ActSet, SeenSet
<1>8. DeepEnough'
  <2> SUFFICES ASSUME NEW i \in 1 .. h, NEW j \in 1 .. h, i <= j, frames'[i] = frames'[j]
               PROVE  acts'[frames'[j]].sp > j - i
    BY <1>6 DEF DeepEnough
  <2>1. i \in 1 .. n /\ j \in 1 .. n /\ h \in 1 .. n /\ j <= h /\ i \in 1 .. h
    BY <1>2
  <2>2. frames[i] = frames[j] /\ frames'[j] = frames[j]
    BY <1>6
  <2>3. frames[j] <= a /\ frames[j] \in 1 .. top /\ frames[j] \in 1 .. a
    <3>1. frames[j] <= frames[h]
      BY <1>2, <2>1 DEF ControlInv, FramesClimb
    <3>2. frames[j] \in 1 .. top
      BY <1>3, <2>1
    <3> QED
      BY <1>2, <3>1, <3>2
  <2>4. CASE frames[j] = top
    <3>1. a = top
      BY <1>2, <2>3, <2>4
    <3>2. saved > h - i
      BY <1>1, <1>2, <2>1, <2>2, <2>4, <3>1 DEF ControlInv, ArmedLive
    <3>3. acts'[frames'[j]].sp = saved
      BY <1>4, <1>5, <2>2, <2>3, <2>4
    <3> QED
      BY <1>2, <1>3, <2>1, <3>2, <3>3
  <2>5. CASE frames[j] # top
    <3>1. acts[frames[j]].sp > j - i
      BY <1>2, <2>1, <2>2 DEF ControlInv, DeepEnough
    <3>2. acts'[frames'[j]] = acts[frames[j]]
      BY <1>4, <1>5, <2>2, <2>3, <2>5
    <3> QED
      BY <3>1, <3>2
  <2> QED
    BY <2>4, <2>5
<1>9. StacksApart'
  <2>1. \A j \in 1 .. a : j \in 1 .. top
    BY <1>2
  <2> QED
    BY <1>1, <1>2, <1>5, <2>1 DEF ControlInv, StacksApart, Control!NoSharedStack, Control!Top
<1>10. SlotsApart'
  BY <1>1 DEF ControlInv, SlotsApart, Control!SlotIds
<1> QED
  BY <1>6, <1>7, <1>8, <1>9, <1>10 DEF ControlInv

(* One case per action.                                                    *)
LEMMA ControlStep ==
  ASSUME CoreAssumption, ControlInv, Control!Next
  PROVE  ControlInv'
<1>1. ASSUME NEW b \in Buffers, Control!Longjmp(b) PROVE ControlInv'
  <2>1. CASE Control!Holding(b) = {}
    BY <1>1, <2>1, TrappedKeeps DEF Control!Longjmp
  <2>2. CASE Control!Holding(b) # {}
    BY <1>1, <2>2, LandsKeeps DEF Control!Lands
  <2> QED
    BY <2>1, <2>2
<1>2. CASE Control!Trap
  BY <1>2, TrappedKeeps DEF Control!Trap
<1> QED
  BY <1>1, <1>2, EnterKeeps, CallKeeps, ReturnKeeps, LeaveKeeps, EndCallbackKeeps, CallGuestKeeps,
     SetjmpKeeps DEF Control!Next

(* Nothing of the thread's control changes.                                *)
LEMMA ControlRest ==
  ASSUME ControlInv, UNCHANGED controlVars
  PROVE  ControlInv'
  BY DEF controlVars, ControlInv, Control!TypeOK, Control!Here, Control!SlotIds, FramesClimb,
     DeepEnough, StacksApart, Control!NoSharedStack, Control!Top, SlotsApart, SlotsMatch, ArmedLive

(* What the invariant says of slots is what a longjmp relies on.           *)
LEMMA ControlPromise ==
  ASSUME CoreAssumption, ControlInv
  PROVE  Control!TypeOK /\ Control!NoSharedStack /\ Control!SlotHoldsLatest
<1>1. ASSUME NEW b \in Buffers PROVE Cardinality(Control!Holding(b)) <= 1
  <2>1. b # NoBuf
    BY DEF CoreAssumption, Control!ControlAssumption
  <2>2. CASE Control!Holding(b) = {}
    BY <2>2, FS_EmptySet
  <2>3. CASE Control!Holding(b) # {}
    <3>1. PICK i \in Control!Holding(b) : TRUE
      BY <2>3
    <3>2. Control!Holding(b) = {i}
      BY <2>1, <3>1 DEF Control!Holding, ControlInv, SlotsApart
    <3>3. Cardinality(Control!Holding(b)) = 1
      BY <3>2, FS_Singleton
    <3> QED
      BY <3>3
  <2> QED
    BY <2>2, <2>3
<1>2. \A b \in Buffers : armed[b].host # 0 => \A i \in Control!Holding(b) :
         t_jmps[i].host = armed[b].host /\ t_jmps[i].saved = armed[b].saved
  BY DEF Control!Holding, ControlInv, SlotsMatch
<1>3. Control!SlotHoldsLatest
  <2> SUFFICES ASSUME NEW b \in Buffers, armed[b].host # 0
               PROVE  /\ Control!Cardinality(Control!Holding(b)) <= 1
                      /\ \A i \in Control!Holding(b) : /\ t_jmps[i].host = armed[b].host
                                                       /\ t_jmps[i].saved = armed[b].saved
    BY DEF Control!SlotHoldsLatest
  <2>1. \A S : Control!Cardinality(S) = Cardinality(S)
    BY DEF Control!Cardinality, Cardinality
  <2>2. Control!Cardinality(Control!Holding(b)) <= 1
    BY <1>1, <2>1
  <2> QED
    BY <1>2, <2>2
<1> QED
  BY <1>3 DEF ControlInv, StacksApart

(* A longjmp inside one guest call lands with the registers its setjmp saw.*)
LEMMA JumpsBackWithin ==
  ASSUME CoreAssumption, ControlInv, NEW b \in Buffers, Control!Lands(b),
         frames[armed[b].host] = Control!Top
  PROVE  Control!JumpsBack(b)
<1>1. PICK h \in 1 .. Len(frames), saved \in 1 .. MaxSp :
        /\ armed[b].host = h /\ armed[b].saved = saved
        /\ Control!Unwind(h)
        /\ acts' = SubSeq([acts EXCEPT ![Len(acts)].sp = saved], 1, frames[h])
  BY LandsWhere
<1>2. PICK n, top \in Nat : n = Len(frames) /\ top = Len(acts) /\ frames[h] = top /\ top \in 1 .. top
                            /\ h \in 0 .. n
  BY <1>1, Lengths DEF Control!Top
<1>3. acts \in Seq(ActSet) /\ frames \in Seq(1 .. Len(acts))
  BY Lengths
<1> DEFINE base == [acts EXCEPT ![top].sp = saved]
<1>4. base \in Seq(ActSet) /\ Len(base) = top /\ base[top].sp = saved
  <2>1. acts[top] \in ActSet
    BY <1>2, <1>3, ElementOfSeq
  <2>2. [acts[top] EXCEPT !.sp = saved] \in ActSet /\ [acts[top] EXCEPT !.sp = saved].sp = saved
    BY <2>1 DEF ActSet
  <2>3. base = [acts EXCEPT ![top] = [acts[top] EXCEPT !.sp = saved]]
    OBVIOUS
  <2>4. base[top] = [acts[top] EXCEPT !.sp = saved]
    BY <1>2, <1>3, <2>3
  <2>5. base \in Seq(ActSet) /\ Len(base) = top
    BY <1>2, <1>3, <2>2, <2>3
  <2> QED
    BY <2>2, <2>4, <2>5
<1> HIDE DEF base
<1>5. acts' = SubSeq(base, 1, top) /\ top \in 0 .. top
  BY <1>1, <1>2 DEF base
<1>6. Len(acts') = top /\ acts'[top] = base[top]
  BY <1>2, <1>4, <1>5, Front
<1>7. Len(frames') = h
  BY <1>1, <1>2, <1>3, Front DEF Control!Unwind
<1> QED
  BY <1>1, <1>4, <1>6, <1>7 DEF Control!JumpsBack, Control!Here, Control!Top

-----------------------------------------------------------------------------
(* Census.  Every call is somewhere in the tally, and a function's probe   *)
(* passes neither a free slot nor one of its own before the one it has, so *)
(* that its next probe ends there again.                                   *)
Sums(hits) == LET s[n \in 0 .. CensusSlots] == IF n = 0 THEN 0 ELSE s[n - 1] + hits[n - 1]
              IN  s

Tallies(t, c) ==
    /\ t \in [key : [Tally!Ids -> GuestFunctions \cup {0}], hits : [Tally!Ids -> Nat], lost : Nat]
    /\ \A i \in Tally!Ids : t.key[i] = 0 <=> t.hits[i] = 0
    /\ t.lost <= c /\ \A i \in Tally!Ids : t.hits[i] <= c
    /\ t.lost + Sums(t.hits)[CensusSlots] = c

ProbesUnbroken(t) == \A f \in GuestFunctions : \A n \in Tally!Ids :
    t.key[Tally!Slot(f, n)] = f => \A m \in 0 .. n - 1 : t.key[Tally!Slot(f, m)] \notin {0, f}

CensusInv ==
    /\ Tallies(table, calls) /\ ProbesUnbroken(table)
    /\ calls \in 0 .. MaxCalls
    /\ {started, pending, spinning} \subseteq BOOLEAN /\ (pending => started)

(* Induction up to a bound, in the form of a set.                          *)
LEMMA Climbs ==
  ASSUME NEW N \in Nat, NEW S, 0 \in S, \A n \in 0 .. N - 1 : n \in S => n + 1 \in S
  PROVE  \A n \in 0 .. N : n \in S
<1> DEFINE T == {n \in 0 .. N : n \notin S}
<1>1. SUFFICES T = {}
  OBVIOUS
<1>2. SUFFICES ASSUME T # {} PROVE FALSE
  OBVIOUS
<1>3. T \in SUBSET Nat
  OBVIOUS
<1> HIDE DEF T
<1>4. PICK m \in T : \A j \in T : m <= j
  BY <1>2, <1>3, Least
<1>5. m \in 0 .. N /\ m \notin S /\ m # 0
  BY DEF T
<1>6. m - 1 \in 0 .. N - 1 /\ m - 1 \in 0 .. N
  BY <1>5
<1>7. m - 1 \notin T
  BY <1>4, <1>5
<1>8. m - 1 \in S
  BY <1>6, <1>7 DEF T
<1>9. (m - 1) + 1 \in S
  BY <1>6, <1>8
<1> QED
  BY <1>5, <1>9

(* The partial sums of a table's hits are what their recursion says.       *)
LEMMA SumsAre ==
  ASSUME CoreAssumption, NEW hits \in [Tally!Ids -> Nat]
  PROVE  /\ Sums(hits) \in [0 .. CensusSlots -> Nat] /\ Sums(hits)[0] = 0
         /\ \A n \in 1 .. CensusSlots : Sums(hits)[n] = Sums(hits)[n - 1] + hits[n - 1]
<1>1. CensusSlots \in Nat \ {0} /\ \A i \in 0 .. CensusSlots - 1 : hits[i] \in Nat
  BY DEF CoreAssumption, Tally!CensusAssumption, Tally!Ids
<1> DEFINE Upto(n) == {s \in [0 .. n -> Nat] :
                         s[0] = 0 /\ \A m \in 1 .. n : s[m] = s[m - 1] + hits[m - 1]}
           S == {n \in 0 .. CensusSlots : Upto(n) # {}}
<1>2. 0 \in S
  <2>1. [i \in 0 .. 0 |-> 0] \in Upto(0)
    OBVIOUS
  <2> QED
    BY <1>1, <2>1
<1>3. ASSUME NEW n \in 0 .. CensusSlots - 1, n \in S PROVE n + 1 \in S
  <2>1. PICK s : s \in Upto(n)
    BY <1>3
  <2> DEFINE longer == [i \in 0 .. n + 1 |-> IF i = n + 1 THEN s[n] + hits[n] ELSE s[i]]
  <2>2. n \in Nat /\ n + 1 \in 0 .. CensusSlots /\ s[n] \in Nat /\ hits[n] \in Nat
    BY <1>1, <2>1
  <2>3. longer \in [0 .. n + 1 -> Nat]
    BY <2>1, <2>2
  <2>4. longer[0] = 0
    BY <2>1, <2>2
  <2>5. \A m \in 1 .. n + 1 : longer[m] = longer[m - 1] + hits[m - 1]
    <3> TAKE m \in 1 .. n + 1
    <3>1. CASE m = n + 1
      BY <2>2, <3>1
    <3>2. CASE m # n + 1
      <4>1. m \in 1 .. n /\ m \in 0 .. n + 1 /\ m - 1 \in 0 .. n + 1 /\ m - 1 # n + 1
        BY <2>2, <3>2
      <4>2. s[m] = s[m - 1] + hits[m - 1]
        BY <2>1, <4>1
      <4> QED
        BY <3>2, <4>1, <4>2
    <3> QED
      BY <3>1, <3>2
  <2>6. longer \in Upto(n + 1)
    BY <2>3, <2>4, <2>5
  <2> QED
    BY <2>2, <2>6
<1> HIDE DEF S
<1>4. CensusSlots \in S
  BY <1>1, <1>2, <1>3, Climbs
<1>5. PICK s : s \in Upto(CensusSlots)
  BY <1>4 DEF S
<1>6. s = [n \in 0 .. CensusSlots |-> IF n = 0 THEN 0 ELSE s[n - 1] + hits[n - 1]]
  BY <1>1, <1>5
<1>7. Sums(hits) = [n \in 0 .. CensusSlots |->
                      IF n = 0 THEN 0 ELSE Sums(hits)[n - 1] + hits[n - 1]]
  BY <1>6 DEF Sums
<1> DEFINE sums == Sums(hits)
<1> HIDE DEF sums
<1>8. /\ sums[0] = 0
      /\ \A n \in 1 .. CensusSlots : sums[n] = sums[n - 1] + hits[n - 1]
      /\ sums = [n \in 0 .. CensusSlots |-> sums[n]]
  BY <1>1, <1>7 DEF sums
<1> DEFINE P == {n \in 0 .. CensusSlots : sums[n] \in Nat}
<1>9. 0 \in P /\ \A n \in 0 .. CensusSlots - 1 : n \in P => n + 1 \in P
  <2>1. 0 \in P
    BY <1>1, <1>8
  <2>2. ASSUME NEW n \in 0 .. CensusSlots - 1, n \in P PROVE n + 1 \in P
    <3>1. n + 1 \in 1 .. CensusSlots /\ (n + 1) - 1 = n
      BY <1>1
    <3>2. sums[n + 1] = sums[n] + hits[n]
      BY <1>8, <3>1
    <3> QED
      BY <1>1, <2>2, <3>1, <3>2
  <2> QED
    BY <2>1, <2>2
<1> HIDE DEF P
<1>10. \A n \in 0 .. CensusSlots : n \in P
  BY <1>1, <1>9, Climbs
<1>11. sums \in [0 .. CensusSlots -> Nat]
  BY <1>8, <1>10 DEF P
<1> QED
  BY <1>8, <1>11 DEF sums

(* One more hit adds one to the sum of all.                                *)
LEMMA SumsAdd ==
  ASSUME CoreAssumption, NEW hits \in [Tally!Ids -> Nat], NEW i \in Tally!Ids
  PROVE  Sums([hits EXCEPT ![i] = hits[i] + 1])[CensusSlots] = Sums(hits)[CensusSlots] + 1
<1> DEFINE more == [hits EXCEPT ![i] = hits[i] + 1]
           old  == Sums(hits)
           new  == Sums(more)
           S    == {n \in 0 .. CensusSlots : new[n] = IF n > i THEN old[n] + 1 ELSE old[n]}
<1>1. CensusSlots \in Nat \ {0} /\ i \in 0 .. CensusSlots - 1 /\ more \in [Tally!Ids -> Nat]
  BY DEF CoreAssumption, Tally!CensusAssumption, Tally!Ids
<1>2. /\ old \in [0 .. CensusSlots -> Nat] /\ old[0] = 0
      /\ \A n \in 1 .. CensusSlots : old[n] = old[n - 1] + hits[n - 1]
  BY SumsAre
<1>3. /\ new \in [0 .. CensusSlots -> Nat] /\ new[0] = 0
      /\ \A n \in 1 .. CensusSlots : new[n] = new[n - 1] + more[n - 1]
  BY <1>1, SumsAre
<1>4. /\ \A n \in 0 .. CensusSlots - 1 : hits[n] \in Nat /\ (n # i => more[n] = hits[n])
      /\ more[i] = hits[i] + 1
  BY <1>1 DEF Tally!Ids
<1> HIDE DEF more, old, new
<1>5. 0 \in S
  BY <1>1, <1>2, <1>3
<1>6. ASSUME NEW n \in 0 .. CensusSlots - 1, n \in S PROVE n + 1 \in S
  <2>1. n + 1 \in 1 .. CensusSlots /\ (n + 1) - 1 = n /\ n \in 0 .. CensusSlots
    BY <1>1
  <2>2. new[n + 1] = new[n] + more[n] /\ old[n + 1] = old[n] + hits[n]
    BY <1>2, <1>3, <2>1
  <2>3. old[n] \in Nat /\ new[n] = (IF n > i THEN old[n] + 1 ELSE old[n]) /\ hits[n] \in Nat
    BY <1>2, <1>4, <1>6, <2>1
  <2>4. CASE n = i
    BY <1>1, <1>4, <2>1, <2>2, <2>3, <2>4
  <2>5. CASE n # i
    BY <1>1, <1>4, <2>1, <2>2, <2>3, <2>5
  <2> QED
    BY <2>4, <2>5
<1> HIDE DEF S
<1>7. CensusSlots \in S
  <2>1. \A n \in 0 .. CensusSlots - 1 : n \in S => n + 1 \in S
    BY <1>6
  <2>2. \A n \in 0 .. CensusSlots : n \in S
    BY <1>1, <1>5, <2>1, Climbs
  <2> QED
    BY <1>1, <2>2
<1>8. new[CensusSlots] = old[CensusSlots] + 1
  BY <1>1, <1>7 DEF S
<1> QED
  BY <1>8 DEF new, old, more

(* ... and no hits add up to nothing.                                      *)
LEMMA SumsOfNone ==
  ASSUME CoreAssumption
  PROVE  Sums([i \in Tally!Ids |-> 0])[CensusSlots] = 0
<1> DEFINE none == [i \in Tally!Ids |-> 0]
           sums == Sums(none)
           S    == {n \in 0 .. CensusSlots : sums[n] = 0}
<1>1. CensusSlots \in Nat \ {0} /\ none \in [Tally!Ids -> Nat]
      /\ \A n \in 0 .. CensusSlots - 1 : none[n] = 0
  BY DEF CoreAssumption, Tally!CensusAssumption, Tally!Ids
<1>2. /\ sums[0] = 0
      /\ \A n \in 1 .. CensusSlots : sums[n] = sums[n - 1] + none[n - 1]
  BY <1>1, SumsAre
<1> HIDE DEF none, sums
<1>3. 0 \in S
  BY <1>1, <1>2
<1>4. ASSUME NEW n \in 0 .. CensusSlots - 1, n \in S PROVE n + 1 \in S
  <2>1. n + 1 \in 1 .. CensusSlots /\ (n + 1) - 1 = n
    BY <1>1
  <2> QED
    BY <1>1, <1>2, <1>4, <2>1
<1> HIDE DEF S
<1>5. CensusSlots \in S
  BY <1>1, <1>3, <1>4, Climbs
<1> QED
  BY <1>5 DEF S, sums, none

(* A probe's slots are the table's slots, each once.                       *)
LEMMA SlotIs ==
  ASSUME CoreAssumption, NEW f \in GuestFunctions, NEW n \in Tally!Ids
  PROVE  /\ CensusHash[f] \in Tally!Ids
         /\ Tally!Slot(f, n) = IF CensusHash[f] + n < CensusSlots THEN CensusHash[f] + n
                               ELSE CensusHash[f] + n - CensusSlots
<1>1. PICK N, h, k \in Nat : /\ N = CensusSlots /\ h = CensusHash[f] /\ k = n
                             /\ h < N /\ k < N
  BY DEF CoreAssumption, Tally!CensusAssumption, Tally!Ids
<1>2. CASE h + k < N
  <2>1. (h + k) % N = h + k
    BY <1>1, <1>2
  <2> QED
    BY <1>1, <1>2, <2>1 DEF Tally!Slot, Tally!Ids
<1>3. CASE ~(h + k < N)
  <2>1. (h + k) % N = h + k - N
    BY <1>1, <1>3
  <2> QED
    BY <1>1, <1>3, <2>1 DEF Tally!Slot, Tally!Ids
<1> QED
  BY <1>2, <1>3

(* ... so a probe looks at every slot, and at each once.                   *)
LEMMA SlotsOnce ==
  ASSUME CoreAssumption, NEW f \in GuestFunctions
  PROVE  /\ \A n \in Tally!Ids : Tally!Slot(f, n) \in Tally!Ids
         /\ \A m, n \in Tally!Ids : Tally!Slot(f, m) = Tally!Slot(f, n) => m = n
         /\ \A i \in Tally!Ids : \E n \in Tally!Ids : Tally!Slot(f, n) = i
<1>1. PICK N, h \in Nat : N = CensusSlots /\ h = CensusHash[f] /\ h < N
  BY DEF CoreAssumption, Tally!CensusAssumption, Tally!Ids
<1>2. Tally!Ids = 0 .. N - 1
  BY <1>1 DEF Tally!Ids
<1>3. \A n \in 0 .. N - 1 : Tally!Slot(f, n) = IF h + n < N THEN h + n ELSE h + n - N
  BY <1>1, <1>2, SlotIs
<1>4. \A n \in Tally!Ids : Tally!Slot(f, n) \in Tally!Ids
  <2> TAKE n \in Tally!Ids
  <2>1. (IF h + n < N THEN h + n ELSE h + n - N) \in 0 .. N - 1
    BY <1>1, <1>2
  <2> QED
    BY <1>2, <1>3, <2>1
<1>5. \A m, n \in Tally!Ids : Tally!Slot(f, m) = Tally!Slot(f, n) => m = n
  BY <1>1, <1>2, <1>3
<1>6. \A i \in Tally!Ids : \E n \in Tally!Ids : Tally!Slot(f, n) = i
  <2> TAKE i \in Tally!Ids
  <2>1. CASE i >= h
    <3>1. i - h \in 0 .. N - 1 /\ h + (i - h) = i /\ i < N
      BY <1>1, <1>2, <2>1
    <3> QED
      BY <1>2, <1>3, <3>1
  <2>2. CASE ~(i >= h)
    <3>1. i - h + N \in 0 .. N - 1 /\ h + (i - h + N) - N = i /\ ~(h + (i - h + N) < N)
      BY <1>1, <1>2, <2>2
    <3> QED
      BY <1>2, <1>3, <3>1
  <2> QED
    BY <2>1, <2>2
<1> QED
  BY <1>4, <1>5, <1>6

(* The empty table.                                                        *)
LEMMA EmptyTallies ==
  ASSUME CoreAssumption
  PROVE  Tallies(Tally!Empty, 0) /\ ProbesUnbroken(Tally!Empty)
<1>1. /\ Tally!Empty.key = [i \in Tally!Ids |-> 0] /\ Tally!Empty.hits = [i \in Tally!Ids |-> 0]
      /\ Tally!Empty.lost = 0
      /\ Tally!Empty \in [key : [Tally!Ids -> GuestFunctions \cup {0}],
                          hits : [Tally!Ids -> Nat], lost : Nat]
  BY DEF Tally!Empty
<1>2. Tallies(Tally!Empty, 0)
  BY <1>1, SumsOfNone DEF Tallies
<1>3. \A f \in GuestFunctions : f # 0
  BY DEF CoreAssumption, Tally!CensusAssumption
<1>4. ProbesUnbroken(Tally!Empty)
  BY <1>1, <1>3, SlotsOnce DEF ProbesUnbroken
<1> QED
  BY <1>2, <1>4

(* A note of a function that the probe finds a slot for, or gives up on.   *)
LEMMA CountedKeeps ==
  ASSUME CoreAssumption, NEW t, NEW c \in Nat, Tallies(t, c), ProbesUnbroken(t),
         NEW f \in GuestFunctions, Tally!Stops(t, f) # {}
  PROVE  Tallies(Tally!Counted(t, f), c + 1) /\ ProbesUnbroken(Tally!Counted(t, f))
<1> DEFINE u == Tally!Counted(t, f)
<1>1. /\ t \in [key : [Tally!Ids -> GuestFunctions \cup {0}], hits : [Tally!Ids -> Nat], lost : Nat]
      /\ t.key \in [Tally!Ids -> GuestFunctions \cup {0}]
      /\ t.hits \in [Tally!Ids -> Nat] /\ t.lost \in Nat
      /\ \A i \in Tally!Ids : t.key[i] = 0 <=> t.hits[i] = 0
      /\ t.lost <= c /\ \A i \in Tally!Ids : t.hits[i] <= c
      /\ t.lost + Sums(t.hits)[CensusSlots] = c
      /\ \A g \in GuestFunctions : g # 0
  BY DEF Tallies, CoreAssumption, Tally!CensusAssumption
<1>2. Sums(t.hits)[CensusSlots] \in Nat
  <2>1. CensusSlots \in 0 .. CensusSlots
    BY DEF CoreAssumption, Tally!CensusAssumption
  <2> QED
    BY <1>1, <2>1, SumsAre
<1>3. PICK n : n = Tally!Min(Tally!Stops(t, f))
  OBVIOUS
<1>4. /\ n \in Tally!Ids /\ t.key[Tally!Slot(f, n)] \in {f, 0}
      /\ \A m \in Tally!Ids : m < n => t.key[Tally!Slot(f, m)] \notin {f, 0}
  <2>1. Tally!Stops(t, f) \in SUBSET Nat /\ Tally!Ids \subseteq Nat
    BY DEF Tally!Stops, Tally!Ids
  <2>2. \E i \in Tally!Stops(t, f) : \A j \in Tally!Stops(t, f) : i <= j
    BY <2>1, Least
  <2>3. n \in Tally!Stops(t, f) /\ \A j \in Tally!Stops(t, f) : n <= j
    BY <1>3, <2>2 DEF Tally!Min
  <2>4. n \in Nat /\ \A m \in Tally!Ids : m < n => m \notin Tally!Stops(t, f)
    BY <2>1, <2>3
  <2> QED
    BY <2>3, <2>4 DEF Tally!Stops
<1>5. PICK i \in Tally!Ids : i = Tally!Slot(f, n)
  BY <1>4, SlotsOnce
<1>6. CASE Tally!GivesUp(t, f, n)
  <2>1. u = [t EXCEPT !.lost = t.lost + 1]
    BY <1>3, <1>6 DEF Tally!Counted
  <2>2. u.key = t.key /\ u.hits = t.hits /\ u.lost = t.lost + 1
        /\ u \in [key : [Tally!Ids -> GuestFunctions \cup {0}], hits : [Tally!Ids -> Nat], lost : Nat]
    BY <1>1, <2>1
  <2> HIDE DEF u
  <2>3. \A j \in Tally!Ids : t.hits[j] <= c + 1
    BY <1>1
  <2>4. (t.lost + 1) + Sums(t.hits)[CensusSlots] = c + 1 /\ t.lost + 1 <= c + 1
    BY <1>1, <1>2
  <2>5. Tallies(u, c + 1)
    BY <1>1, <2>2, <2>3, <2>4 DEF Tallies
  <2>6. ProbesUnbroken(u)
    BY <2>2 DEF ProbesUnbroken
  <2> QED
    BY <2>5, <2>6 DEF u
<1>7. CASE ~Tally!GivesUp(t, f, n)
  <2>1. u = [t EXCEPT !.key[i] = f, !.hits[i] = t.hits[i] + 1]
    BY <1>3, <1>5, <1>7 DEF Tally!Counted
  <2>2. /\ u.key = [t.key EXCEPT ![i] = f] /\ u.hits = [t.hits EXCEPT ![i] = t.hits[i] + 1]
        /\ u.lost = t.lost
    BY <1>1, <2>1
  <2>3. u = [key |-> u.key, hits |-> u.hits, lost |-> u.lost]
    BY <1>1, <2>1
  <2> HIDE DEF u
  <2>4. u.key \in [Tally!Ids -> GuestFunctions \cup {0}] /\ u.hits \in [Tally!Ids -> Nat]
    BY <1>1, <2>2
  <2>5. u \in [key : [Tally!Ids -> GuestFunctions \cup {0}], hits : [Tally!Ids -> Nat], lost : Nat]
    BY <1>1, <2>2, <2>3, <2>4
  <2>6. /\ u.key[i] = f /\ u.hits[i] = t.hits[i] + 1
        /\ \A j \in Tally!Ids : j # i => u.key[j] = t.key[j] /\ u.hits[j] = t.hits[j]
    BY <1>1, <2>2
  <2>7. \A j \in Tally!Ids : u.key[j] = 0 <=> u.hits[j] = 0
    BY <1>1, <2>6
  <2>8. u.lost <= c + 1 /\ \A j \in Tally!Ids : u.hits[j] <= c + 1
    BY <1>1, <2>2, <2>6
  <2>9. Sums(u.hits)[CensusSlots] = Sums(t.hits)[CensusSlots] + 1
    BY <1>1, <2>2, SumsAdd
  <2>10. u.lost + Sums(u.hits)[CensusSlots] = c + 1
    BY <1>1, <1>2, <2>2, <2>9
  <2>11. Tallies(u, c + 1)
    BY <2>5, <2>7, <2>8, <2>10 DEF Tallies
  <2>12. ProbesUnbroken(u)
    <3> SUFFICES ASSUME NEW g \in GuestFunctions, NEW k \in Tally!Ids, u.key[Tally!Slot(g, k)] = g,
                        NEW m \in 0 .. k - 1
                 PROVE  u.key[Tally!Slot(g, m)] \notin {0, g}
      BY DEF ProbesUnbroken
    <3>1. m \in Tally!Ids /\ m < k /\ m \in Nat /\ k \in Nat /\ n \in Nat
      <4>1. CensusSlots \in Nat
        BY DEF CoreAssumption, Tally!CensusAssumption
      <4>2. k \in 0 .. CensusSlots - 1 /\ n \in 0 .. CensusSlots - 1
        BY <1>4 DEF Tally!Ids
      <4>3. m \in 0 .. CensusSlots - 1 /\ m < k /\ m \in Nat /\ k \in Nat /\ n \in Nat
        BY <4>1, <4>2
      <4> QED
        BY <4>3 DEF Tally!Ids
    <3>2. Tally!Slot(g, k) \in Tally!Ids /\ Tally!Slot(g, m) \in Tally!Ids
      BY <3>1, SlotsOnce
    <3>3. CASE g # f
      <4>1. t.key[Tally!Slot(g, k)] = g
        BY <2>6, <3>2, <3>3
      <4>2. t.key[Tally!Slot(g, m)] \notin {0, g}
        BY <4>1 DEF ProbesUnbroken
      <4> QED
        BY <1>1, <2>6, <3>2, <3>3, <4>2
    <3>4. CASE g = f
      <4>1. k = n
        <5>1. CASE Tally!Slot(f, k) = i
          BY <1>4, <1>5, <5>1, SlotsOnce
        <5>2. CASE Tally!Slot(f, k) # i
          <6>1. t.key[Tally!Slot(f, k)] = f
            BY <2>6, <3>2, <3>4, <5>2
          <6>2. k # n /\ ~(k < n)
            BY <1>4, <1>5, <5>2, <6>1
          <6>3. n \in 0 .. k - 1
            BY <3>1, <6>2
          <6> QED
            BY <1>4, <6>1, <6>3 DEF ProbesUnbroken
        <5> QED
          BY <5>1, <5>2
      <4>2. t.key[Tally!Slot(f, m)] \notin {0, f}
        BY <1>4, <3>1, <4>1
      <4>3. Tally!Slot(f, m) # i
        BY <1>4, <1>5, <4>2
      <4> QED
        BY <2>6, <3>2, <3>4, <4>2, <4>3
    <3> QED
      BY <3>3, <3>4
  <2> QED
    BY <2>11, <2>12 DEF u
<1> QED
  BY <1>6, <1>7

(* The table is empty.                                                     *)
LEMMA CensusBegin ==
  ASSUME CoreAssumption, Tally!Init
  PROVE  CensusInv
<1>1. MaxCalls \in Nat
  BY DEF CoreAssumption, Tally!CensusAssumption
<1>2. table = Tally!Empty /\ calls = 0 /\ started = FALSE /\ pending = FALSE /\ spinning = FALSE
  BY DEF Tally!Init
<1>3. Tallies(table, calls) /\ ProbesUnbroken(table)
  BY <1>2, EmptyTallies
<1>4. started \in BOOLEAN /\ pending \in BOOLEAN /\ spinning \in BOOLEAN /\ (pending => started)
  BY <1>2
<1>5. calls \in 0 .. MaxCalls
  BY <1>1, <1>2
<1> QED
  BY <1>3, <1>4, <1>5 DEF CensusInv

(* A report empties the table.                                             *)
LEMMA ReportKeeps ==
  ASSUME CoreAssumption, CensusInv, Tally!Report
  PROVE  CensusInv'
<1>1. /\ table' = Tally!Empty /\ calls' = 0 /\ pending' = FALSE
      /\ UNCHANGED <<started, spinning>>
  BY DEF Tally!Report
<1>2. MaxCalls \in Nat
  BY DEF CoreAssumption, Tally!CensusAssumption
<1>3. Tallies(table', calls') /\ ProbesUnbroken(table')
  BY <1>1, EmptyTallies
<1>4. started' \in BOOLEAN /\ pending' \in BOOLEAN /\ spinning' \in BOOLEAN /\ (pending' => started')
  BY <1>1 DEF CensusInv
<1>5. calls' \in 0 .. MaxCalls
  BY <1>1, <1>2
<1> QED
  BY <1>3, <1>4, <1>5 DEF CensusInv

(* A note counts into the table, emptied first by the marker's first run.  *)
LEMMA NoteKeeps ==
  ASSUME CoreAssumption, CensusInv, NEW f \in GuestFunctions, Tally!Note(f)
  PROVE  CensusInv'
<1> DEFINE starts == Marker = f /\ ~started
           base   == IF starts THEN Tally!Empty ELSE table
           noted  == IF starts THEN 0 ELSE calls
<1>1. /\ calls < MaxCalls
      /\ started' = (started \/ starts) /\ pending' = (pending \/ starts)
      /\ IF Tally!Stops(base, f) = {}
         THEN spinning' = TRUE /\ UNCHANGED <<table, calls>>
         ELSE /\ table' = Tally!Counted(base, f)
              /\ calls' = IF starts THEN 1 ELSE calls + 1
              /\ UNCHANGED spinning
  BY DEF Tally!Note
<1>2. calls \in 0 .. MaxCalls /\ MaxCalls \in Nat /\ started \in BOOLEAN /\ pending \in BOOLEAN
      /\ spinning \in BOOLEAN /\ (pending => started)
  BY DEF CensusInv, CoreAssumption, Tally!CensusAssumption
<1>3. started' \in BOOLEAN /\ pending' \in BOOLEAN /\ (pending' => started')
  BY <1>1, <1>2
<1>4. noted \in Nat /\ noted < MaxCalls /\ Tallies(base, noted) /\ ProbesUnbroken(base)
  BY <1>1, <1>2, EmptyTallies DEF CensusInv
<1>5. CASE Tally!Stops(base, f) = {}
  BY <1>1, <1>2, <1>3, <1>5 DEF CensusInv
<1>6. CASE Tally!Stops(base, f) # {}
  <2>1. table' = Tally!Counted(base, f) /\ calls' = noted + 1 /\ spinning' = spinning
    BY <1>1, <1>2, <1>6
  <2> HIDE DEF base, noted
  <2>2. Tallies(table', calls') /\ ProbesUnbroken(table')
    BY <1>4, <1>6, <2>1, CountedKeeps
  <2>3. calls' \in 0 .. MaxCalls
    BY <1>2, <1>4, <2>1
  <2> QED
    BY <1>2, <1>3, <2>1, <2>2, <2>3 DEF CensusInv
<1> QED
  BY <1>5, <1>6

(* One case per action.                                                    *)
LEMMA CensusStep ==
  ASSUME CoreAssumption, CensusInv, Tally!Next
  PROVE  CensusInv'
  BY ReportKeeps, NoteKeeps DEF Tally!Next

(* Nothing of the census changes.                                          *)
LEMMA CensusRest ==
  ASSUME CensusInv, UNCHANGED censusVars
  PROVE  CensusInv'
  BY DEF censusVars, CensusInv

(* What a report says follows.                                             *)
LEMMA CensusPromise ==
  ASSUME CoreAssumption, CensusInv
  PROVE  Tally!TypeOK /\ Tally!EveryCallCounted /\ Tally!OneSlotEach
<1>1. Tally!TypeOK
  <2>1. calls \in 0 .. MaxCalls /\ MaxCalls \in Nat
    BY DEF CensusInv, CoreAssumption, Tally!CensusAssumption
  <2>2. /\ table \in [key : [Tally!Ids -> GuestFunctions \cup {0}], hits : [Tally!Ids -> Nat], lost : Nat]
        /\ table.lost <= calls /\ \A i \in Tally!Ids : table.hits[i] <= calls
    BY DEF CensusInv, Tallies
  <2>3. table.lost \in 0 .. MaxCalls
    BY <2>1, <2>2
  <2>4. table.hits \in [Tally!Ids -> 0 .. MaxCalls]
    <3>1. table.hits \in [Tally!Ids -> Nat]
      BY <2>2
    <3>2. \A i \in Tally!Ids : table.hits[i] \in 0 .. MaxCalls
      BY <2>1, <2>2, <3>1
    <3> QED
      BY <3>1, <3>2
  <2>5. table \in [key : [Tally!Ids -> GuestFunctions \cup {0}],
                   hits : [Tally!Ids -> 0 .. MaxCalls], lost : 0 .. MaxCalls]
    BY <2>2, <2>3, <2>4
  <2> QED
    BY <2>5 DEF CensusInv, Tallies, Tally!TypeOK
<1>2. Tally!EveryCallCounted
  <2>1. Tally!HitsBelow = Sums(table.hits)
    BY DEF Tally!HitsBelow, Sums
  <2> QED
    BY <2>1 DEF CensusInv, Tallies, Tally!EveryCallCounted
<1>3. Tally!OneSlotEach
  <2> SUFFICES ASSUME NEW i \in Tally!Ids, NEW j \in Tally!Ids, i # j,
                      table.key[i] = table.key[j], table.key[i] # 0
               PROVE  FALSE
    BY DEF Tally!OneSlotEach
  <2>1. PICK f \in GuestFunctions : f = table.key[i]
    BY DEF CensusInv, Tallies
  <2>2. PICK m, n \in Tally!Ids : Tally!Slot(f, m) = i /\ Tally!Slot(f, n) = j
    BY <2>1, SlotsOnce
  <2>3. m # n /\ m \in Nat /\ n \in Nat
    BY <2>2 DEF Tally!Ids
  <2>4. ~(m < n)
    <3>1. m < n => m \in 0 .. n - 1
      BY <2>3
    <3> QED
      BY <2>1, <2>2, <3>1 DEF CensusInv, ProbesUnbroken
  <2>5. ~(n < m)
    <3>1. n < m => n \in 0 .. m - 1
      BY <2>3
    <3> QED
      BY <2>1, <2>2, <3>1 DEF CensusInv, ProbesUnbroken
  <2> QED
    BY <2>3, <2>4, <2>5
<1> QED
  BY <1>1, <1>2, <1>3

-----------------------------------------------------------------------------
(* The composition.  A step is one of the focus's own and leaves the other *)
(* parts alone.                                                            *)
CoreInv == IInv /\ ControlInv /\ CensusInv

(* One part at a time.                                                     *)
LEMMA CoreStep ==
  ASSUME CoreAssumption, CoreInv, [MCNext]_allVars
  PROVE  CoreInv'
<1>1. UNCHANGED vars \/ Next
  BY DEF MCNext, Steps, allVars
<1>2. UNCHANGED controlVars \/ Control!Next
  BY DEF MCNext, Steps, allVars
<1>3. UNCHANGED censusVars \/ Tally!Next
  BY DEF MCNext, Steps, allVars
<1>4. IInv'
  BY <1>1, NextIInv DEF CoreInv
<1>5. ControlInv'
  BY <1>2, ControlStep, ControlRest DEF CoreInv
<1>6. CensusInv'
  BY <1>3, CensusStep, CensusRest DEF CoreInv
<1> QED
  BY <1>4, <1>5, <1>6 DEF CoreInv

(* The inductive invariants of the exclusives, of a thread's control and   *)
(* of the census hold side by side.                                        *)
THEOREM CoreInvariance == MCSpec => []CoreInv
<1>1. MCInit => CoreInv
  BY CoreAssumption, InitIInv, ControlBegin, CensusBegin DEF MCInit, CoreInv
<1>2. CoreInv /\ [MCNext]_allVars => CoreInv'
  BY CoreAssumption, CoreStep
<1> QED
  BY <1>1, <1>2, PTL DEF MCSpec

(* However callbacks nest and jumps and traps cut them short, no two live  *)
(* guest calls share a stack and a live buffer's slot holds what its last  *)
(* setjmp saw.                                                             *)
THEOREM CallsKeep == MCSpec => []CallsKeepTheirs
<1>1. CoreInv => CallsKeepTheirs
  BY CoreAssumption, ControlPromise DEF CoreInv, CallsKeepTheirs
<1> QED
  BY <1>1, CoreInvariance, PTL

(* A longjmp inside one guest call puts back the registers its setjmp saw. *)
THEOREM JumpsRestore == MCSpec => JumpWithinCallRestores
<1>1. CoreInv => \A b \in Buffers :
         Control!Lands(b) /\ frames[armed[b].host] = Control!Top => Control!JumpsBack(b)
  BY CoreAssumption, JumpsBackWithin DEF CoreInv
<1>2. CoreInv /\ [MCNext]_allVars =>
         [\A b \in Buffers : Control!Lands(b) /\ frames[armed[b].host] = Control!Top
                                => Control!JumpsBack(b)]_controlVars
  BY <1>1
<1> QED
  BY <1>2, CoreInvariance, PTL DEF MCSpec, JumpWithinCallRestores, Control!JumpWithinCallRestores,
     Control!vars, controlVars

(* While one thread registers, a branch finds what was registered before   *)
(* it began, whole and in one entry; and every call is in the census, each *)
(* function on one line.                                                   *)
THEOREM TablesAreSound == OneRegistrar /\ MCSpec => []TablesSound
<1> SUFFICES ASSUME OneRegistrar PROVE MCSpec => []TablesSound
  OBVIOUS
<1>1. MCInit => TablesInv
  BY CoreAssumption, TablesBegin DEF MCInit
<1>2. TablesInv /\ [MCNext]_allVars => TablesInv'
  <2>1. ASSUME [MCNext]_allVars PROVE UNCHANGED tableVars \/ Tables!Next
    BY <2>1 DEF MCNext, Steps, allVars
  <2> QED
    BY CoreAssumption, <2>1, TablesStep, TablesRest
<1>3. TablesInv /\ CoreInv => TablesSound
  BY CoreAssumption, TablesPromise, CensusPromise DEF CoreInv, TablesSound
<1> QED
  BY <1>1, <1>2, <1>3, CoreInvariance, PTL DEF MCSpec
=============================================================================
