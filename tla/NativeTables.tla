---------------------------- MODULE NativeTables ----------------------------
(***************************************************************************)
(* The two tables of host functions the guest may branch to: those that    *)
(* take the guest context (arc_register_ctx_native) and those reached      *)
(* through the integer thunk (arc_register_native).  Imports are announced *)
(* while an image loads; ShimHandOut announces one more whenever dlsym or  *)
(* eglGetProcAddress answers, on whatever thread asked, while every other  *)
(* thread may be searching the tables in arc_dispatch_miss.  No lock and   *)
(* no atomic is involved.                                                  *)
(*                                                                         *)
(* Plain loads and stores are single steps, in the order the source has    *)
(* them; the compiler may load the count once or again for the increment.  *)
(* A function's name is modelled as its address.                           *)
(***************************************************************************)
EXTENDS Naturals, FiniteSets

CONSTANTS Registrars,     \* the threads that register
          Dispatchers,    \* the threads that branch
          Addrs,          \* host functions, none of them null
          Max,            \* ARC_MAX_CTX_NATIVES, ARC_MAX_NATIVES
          Null

Kinds   == {"ctx", "native"}
HostThreads == Registrars \cup Dispatchers
Indices == 0 .. (IF Max["ctx"] > Max["native"] THEN Max["ctx"] ELSE Max["native"])

TablesAssumption == Max \in [Kinds -> Nat \ {0}]

VARIABLES address, name,   \* the entries of each table
          count,           \* g_ctx_native_count, g_native_count
          pc, kind, target, index, limit,   \* each thread's locals
          known,           \* ghost: <<kind, address>> a registration has accepted
          wanted           \* ghost: what was known when the dispatch began

vars == <<address, name, count, pc, kind, target, index, limit, known, wanted>>
tables == <<address, name, count>>

TypeOK ==
    /\ address \in [Kinds -> [Indices -> Addrs \cup {Null}]]
    /\ name \in [Kinds -> [Indices -> Addrs \cup {Null}]]
    /\ \A k \in Kinds : count[k] \in 0 .. Max[k]
    /\ pc \in [HostThreads -> {"idle", "address", "name", "count",
                           "search", "found", "missed"}]
    /\ \A t \in HostThreads : pc[t] \in {"address", "name", "count"} =>
          index[t] < Max[kind[t]]
    /\ known \subseteq Kinds \X Addrs

Init ==
    /\ address = [k \in Kinds |-> [i \in Indices |-> Null]]
    /\ name = address
    /\ count = [k \in Kinds |-> 0]
    /\ pc = [t \in HostThreads |-> "idle"]
    /\ kind = [t \in HostThreads |-> "ctx"] /\ target = [t \in HostThreads |-> Null]
    /\ index = [t \in HostThreads |-> 0] /\ limit = [t \in HostThreads |-> 0]
    /\ known = {} /\ wanted = [t \in HostThreads |-> {}]

Entries(k) == {address[k][i] : i \in {j \in Indices : j < count[k]}}

\* Takes a table for full one entry late.
Register_OffByOne(t, k, a) ==
    /\ t \in Registrars /\ pc[t] = "idle"
    /\ count[k] <= Max[k] /\ a \notin Entries(k)
    /\ pc' = [pc EXCEPT ![t] = "address"]
    /\ kind' = [kind EXCEPT ![t] = k] /\ target' = [target EXCEPT ![t] = a]
    /\ index' = [index EXCEPT ![t] = count[k]]
    /\ UNCHANGED <<tables, limit, known, wanted>>

(* The capacity check and the search for a duplicate: a full table drops   *)
(* the registration, an address already there needs nothing.               *)
Register(t, k, a) ==
    /\ t \in Registrars /\ pc[t] = "idle"
    /\ IF count[k] >= Max[k]
       THEN UNCHANGED vars
       ELSE IF a \in Entries(k)
       THEN /\ known' = known \cup {<<k, a>>}
            /\ UNCHANGED <<tables, pc, kind, target, index, limit, wanted>>
       ELSE /\ pc' = [pc EXCEPT ![t] = "address"]
            /\ kind' = [kind EXCEPT ![t] = k] /\ target' = [target EXCEPT ![t] = a]
            /\ index' = [index EXCEPT ![t] = count[k]]
            /\ UNCHANGED <<tables, limit, known, wanted>>

WriteAddress(t) ==
    /\ pc[t] = "address"
    /\ address' = [address EXCEPT ![kind[t]][index[t]] = target[t]]
    /\ pc' = [pc EXCEPT ![t] = "name"]
    /\ UNCHANGED <<name, count, kind, target, index, limit, known, wanted>>

WriteName(t) ==
    /\ pc[t] = "name"
    /\ name' = [name EXCEPT ![kind[t]][index[t]] = target[t]]
    /\ pc' = [pc EXCEPT ![t] = "count"]
    /\ UNCHANGED <<address, count, kind, target, index, limit, known, wanted>>

Increment(t) ==
    /\ pc[t] = "count"
    /\ \E n \in {index[t], count[kind[t]]} : count' = [count EXCEPT ![kind[t]] = n + 1]
    /\ known' = known \cup {<<kind[t], target[t]>>}
    /\ pc' = [pc EXCEPT ![t] = "idle"]
    /\ UNCHANGED <<address, name, kind, target, index, limit, wanted>>

(* arc_dispatch_miss: the context natives, then the thunk's, then a trap.  *)
Dispatch(t, a) ==
    /\ t \in Dispatchers /\ pc[t] = "idle"
    /\ pc' = [pc EXCEPT ![t] = "search"]
    /\ kind' = [kind EXCEPT ![t] = "ctx"] /\ target' = [target EXCEPT ![t] = a]
    /\ index' = [index EXCEPT ![t] = 0]
    /\ limit' = [limit EXCEPT ![t] = count["ctx"]]
    /\ wanted' = [wanted EXCEPT ![t] = {k \in Kinds : <<k, a>> \in known}]
    /\ UNCHANGED <<tables, known>>

Search(t) ==
    /\ pc[t] = "search" /\ index[t] < limit[t]
    /\ IF address[kind[t]][index[t]] = target[t]
       THEN pc' = [pc EXCEPT ![t] = "found"] /\ UNCHANGED index
       ELSE index' = [index EXCEPT ![t] = @ + 1] /\ UNCHANGED pc
    /\ UNCHANGED <<tables, kind, target, limit, known, wanted>>

\* Traps when the context natives do not have it.
Exhausted_OneTable(t) ==
    /\ pc[t] = "search" /\ index[t] >= limit[t]
    /\ pc' = [pc EXCEPT ![t] = "missed"]
    /\ UNCHANGED <<tables, kind, target, index, limit, known, wanted>>

Exhausted(t) ==
    /\ pc[t] = "search" /\ index[t] >= limit[t]
    /\ IF kind[t] = "ctx"
       THEN /\ kind' = [kind EXCEPT ![t] = "native"]
            /\ index' = [index EXCEPT ![t] = 0]
            /\ limit' = [limit EXCEPT ![t] = count["native"]]
            /\ UNCHANGED pc
       ELSE /\ pc' = [pc EXCEPT ![t] = "missed"]
            /\ UNCHANGED <<kind, index, limit>>
    /\ UNCHANGED <<tables, target, known, wanted>>

(* The entry's name goes to the trace and its function is called; a branch *)
(* to neither table traps.                                                 *)
Finish(t) ==
    /\ pc[t] \in {"found", "missed"}
    /\ pc' = [pc EXCEPT ![t] = "idle"]
    /\ UNCHANGED <<tables, kind, target, index, limit, known, wanted>>

Next == \E t \in HostThreads :
    \/ \E a \in Addrs : Dispatch(t, a) \/ \E k \in Kinds : Register(t, k, a)
    \/ WriteAddress(t) \/ WriteName(t) \/ Increment(t)
    \/ Search(t) \/ Exhausted(t) \/ Finish(t)

Spec == Init /\ [][Next]_vars

-----------------------------------------------------------------------------
(* A branch to a function whose registration was accepted before it began  *)
(* reaches that function, and the context-taking form of it if it has one: *)
(* what arc_dispatch_miss promises whatever is being registered meanwhile. *)
DispatchFindsKnown == \A t \in Dispatchers :
    /\ pc[t] = "missed" => wanted[t] = {}
    /\ pc[t] = "found" /\ kind[t] = "native" => "ctx" \notin wanted[t]

(* The entry a search stops at is whole: the name the trace keeps is that  *)
(* function's, never a null or another's, though it may have been written  *)
(* a moment ago by another thread.                                         *)
FoundIsWhole == \A t \in Dispatchers :
    pc[t] = "found" => name[kind[t]][index[t]] = target[t]

(* An address occupies one entry of a table, however often it is handed    *)
(* out: the tables fill with functions and not with calls to dlsym.        *)
OneEntryEach == \A k \in Kinds : \A i, j \in Indices :
    i < j /\ j < count[k] => address[k][i] # address[k][j]

(* What shim.h says of ShimHandOut: what it has handed out, the dispatcher *)
(* has heard of.                                                           *)
HandedOutIsKnown == \A t \in Dispatchers :
    pc[t] = "missed" => "native" \notin wanted[t]
=============================================================================
