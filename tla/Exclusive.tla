------------------------------ MODULE Exclusive ------------------------------
(***************************************************************************)
(* Load-exclusive and store-exclusive (arc_load_exclusive,                 *)
(* arc_store_exclusive): a reservation per thread, remembered as an        *)
(* address and the value seen there, and a store that is a compare-        *)
(* exchange against that value.  The hardware reserves the address.        *)
(*                                                                         *)
(* The guest is modelled by the two loops every lifted atomic compiles to: *)
(* add one to a counter, and take a spin lock, released by a plain store.  *)
(* Both words hold Modulus values; accesses are all of one width.          *)
(***************************************************************************)
EXTENDS Naturals, FiniteSets

CONSTANTS Threads, Modulus

ASSUME ExclusiveAssumption == Modulus \in Nat \ {0, 1}

Addrs  == {"counter", "lock"}
Values == 0 .. Modulus - 1

VARIABLES mem,             \* the two words
          t_reservation,   \* each thread's Arm64Reservation
          pc,              \* what the thread's loop does next
          added            \* ghost: increments that reported success, Modulus at most

vars == <<mem, t_reservation, pc, added>>

TypeOK ==
    /\ mem \in [Addrs -> Values]
    /\ t_reservation \in [Threads -> [address : Addrs, value : Values, valid : BOOLEAN]]
    /\ pc \in [Threads -> {"idle", "counter", "lock", "critical"}]
    /\ \A t \in Threads : pc[t] = "lock" => t_reservation[t].value = 0
    /\ added \in Values

Init ==
    /\ mem = [a \in Addrs |-> 0]
    /\ t_reservation = [t \in Threads |->
                          [address |-> "counter", value |-> 0, valid |-> FALSE]]
    /\ pc = [t \in Threads |-> "idle"]
    /\ added = 0

Write(a, v) == mem' = [mem EXCEPT ![a] = v]

LoadExclusive(t, a) ==
    /\ t_reservation' = [t_reservation EXCEPT ![t] =
                           [address |-> a, value |-> mem[a], valid |-> TRUE]]
    /\ UNCHANGED mem

\* Stores without comparing.
CompareExchange_Blind(a, expected) == TRUE

CompareExchange(a, expected) == mem[a] = expected

(* The store goes through: a valid reservation of this address, and the    *)
(* value the load saw.                                                     *)
Succeeds(t, a) ==
    /\ t_reservation[t].valid /\ t_reservation[t].address = a
    /\ CompareExchange(a, t_reservation[t].value)

(* A reservation for another address is left standing; one for this        *)
(* address is used up whether or not the store goes through.               *)
StoreExclusive(t, a, v) ==
    /\ IF t_reservation[t].address = a
       THEN t_reservation' = [t_reservation EXCEPT ![t].valid = FALSE]
       ELSE UNCHANGED t_reservation
    /\ IF Succeeds(t, a) THEN Write(a, v) ELSE UNCHANGED mem

(* The guest's loops.                                                      *)
Load(t, a) ==
    /\ pc[t] = "idle"
    /\ LoadExclusive(t, a)
    /\ pc' = [pc EXCEPT ![t] = IF a = "lock" /\ mem[a] # 0 THEN "idle" ELSE a]
    /\ UNCHANGED added

Increment(t) ==
    /\ pc[t] = "counter"
    /\ StoreExclusive(t, "counter", (t_reservation[t].value + 1) % Modulus)
    /\ pc' = [pc EXCEPT ![t] = "idle"]
    /\ added' = IF Succeeds(t, "counter") THEN (added + 1) % Modulus ELSE added

Acquire(t) ==
    /\ pc[t] = "lock"
    /\ StoreExclusive(t, "lock", 1)
    /\ pc' = [pc EXCEPT ![t] = IF Succeeds(t, "lock") THEN "critical" ELSE "idle"]
    /\ UNCHANGED added

Release(t) ==
    /\ pc[t] = "critical"
    /\ Write("lock", 0)
    /\ pc' = [pc EXCEPT ![t] = "idle"]
    /\ UNCHANGED <<t_reservation, added>>

Next == \E t \in Threads : \/ \E a \in Addrs : Load(t, a)
                           \/ Increment(t) \/ Acquire(t) \/ Release(t)

Spec == Init /\ [][Next]_vars

-----------------------------------------------------------------------------
(* No increment is lost and none is made twice, although the store looks   *)
(* at a value and not at whether anybody wrote: to a counter an intervening *)
(* round of writes that ends where it began is no different from none.     *)
NoLostIncrement == mem["counter"] = added

(* The lock excludes, for the same reason.                                 *)
LockExcludes == Cardinality({t \in Threads : pc[t] = "critical"}) <= 1
=============================================================================
