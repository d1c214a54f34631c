--------------------------- MODULE HandleBinding ---------------------------
(***************************************************************************)
(* What a table of lazily created objects promises: each object of the     *)
(* client is unbound, or bound to a handle that is its own and that it     *)
(* keeps until it is unbound.  Registry implements this.                   *)
(***************************************************************************)
EXTENDS Naturals

CONSTANTS Objects, Handles, Unbound  \* Unbound is not a handle

VARIABLE bound

Init == bound = [o \in Objects |-> Unbound]

Bind(o, h) ==
  /\ bound[o] = Unbound
  /\ \A p \in Objects : bound[p] # h
  /\ bound' = [bound EXCEPT ![o] = h]

Unbind(o) ==
  /\ bound[o] # Unbound
  /\ bound' = [bound EXCEPT ![o] = Unbound]

Next == \E o \in Objects : Unbind(o) \/ \E h \in Handles : Bind(o, h)

Spec == Init /\ [][Next]_bound
=============================================================================
