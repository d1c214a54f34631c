------------------------------- MODULE Varargs -------------------------------
(***************************************************************************)
(* Formatting of arguments the guest passed as AArch64 passes them: whole  *)
(* numbers in the general registers its named ones left, floating point in *)
(* the vector registers, what fits in neither on the stack.  A conversion  *)
(* is formatted on its own, into a piece.  Texts count as their lengths,   *)
(* registers and stack are counted in slots, and an argument is the place  *)
(* in the format of what it is for: a star is a place of its own.          *)
(***************************************************************************)
EXTENDS Integers, Sequences, FiniteSets

CONSTANTS Regs, VRegs,    \* general and vector registers that carry arguments
          NamedRegs,      \* how many general ones the named arguments may take
          Conversions,    \* what a format is made of: [kind, size]
          MaxFormat,      \* bound: how many
          Caps,           \* rooms that callers have
          PieceSize       \* of a piece, with its terminator

VarargsAssumption ==
    /\ Regs \in Nat /\ VRegs \in Nat /\ PieceSize \in Nat \ {0} /\ MaxFormat \in Nat
    /\ NamedRegs \subseteq 0 .. Regs /\ Caps \subseteq Nat \ {0}
    /\ \A c \in Conversions : c.size \in Nat

VARIABLES format, named,  \* the call
          pass, cap,      \* "measures", "writes" or "done", and the room there is
          ap, i,          \* the argument list, and the conversion it is at
          used, out,      \* the length so far, and how much of it is in the buffer
          fetched,        \* ghost: of each place, the argument taken for it in this pass
          full,           \* ghost: the length of what was asked for
          result          \* what the caller is answered

vars == <<format, named, pass, cap, ap, i, used, out, fetched, full, result>>

NoBuffer == 0

(* The caller: the arguments a format calls for, and where it puts the one *)
(* for the k-th place.                                                     *)
Takes(c) == IF c.kind = "double" THEN "double"
            ELSE IF c.kind \in {"text", "percent"} THEN "none" ELSE "int"
Places(type) == {k \in DOMAIN format : Takes(format[k]) = type}
Passed       == Places("int") \cup Places("double")
Before(k, S) == Cardinality({j \in S : j < k})

InRegister(k) == IF k \in Places("int") THEN named + Before(k, Places("int")) < Regs
                 ELSE Before(k, Places("double")) < VRegs
OnStack  == {k \in Passed : ~InRegister(k)}
Place(k) == IF k \in OnStack THEN <<"stack", Before(k, OnStack)>>
            ELSE IF k \in Places("int") THEN <<"x", named + Before(k, Places("int"))>>
            ELSE <<"q", Before(k, Places("double"))>>

-----------------------------------------------------------------------------
(* An argument list: what is left of each save area, from its end, and the *)
(* stack.                                                                  *)
VaFromContext(n) == [gr_offs |-> n - Regs, vr_offs |-> -VRegs, stack |-> 0]

At(area, n) == LET here == {k \in Passed : Place(k) = <<area, n>>} IN
               IF here = {} THEN 0 ELSE CHOOSE k \in here : TRUE

FromStack(a) == [got |-> At("stack", a.stack), ap |-> [a EXCEPT !.stack = @ + 1]]

NextInt(a) ==
    IF a.gr_offs < 0
    THEN [got |-> At("x", Regs + a.gr_offs), ap |-> [a EXCEPT !.gr_offs = @ + 1]]
    ELSE FromStack(a)

\* Doubles are looked for behind the whole numbers.
NextDouble_Int(a) == NextInt(a)

NextDouble(a) ==
    IF a.vr_offs < 0
    THEN [got |-> At("q", VRegs + a.vr_offs), ap |-> [a EXCEPT !.vr_offs = @ + 1]]
    ELSE FromStack(a)

Fetch(c) ==
    IF Takes(c) = "none" THEN UNCHANGED <<ap, fetched>>
    ELSE LET next == IF Takes(c) = "double" THEN NextDouble(ap) ELSE NextInt(ap)
         IN  ap' = next.ap /\ fetched' = fetched \cup {<<i, next.got>>}

-----------------------------------------------------------------------------
(* The buffer: what there is room for of what is put, its end left for the *)
(* terminator; the length counts on.                                       *)
SmallerOf(a, b) == IF a < b THEN a ELSE b

Put(n) ==
    /\ used' = used + n
    /\ out' = IF cap # NoBuffer /\ used < cap THEN used + SmallerOf(n, cap - used - 1) ELSE out

Extent(c) == CASE c.kind = "percent" -> 1 [] c.kind \in {"n", "star"} -> 0 [] OTHER -> c.size
Produced(c) == IF c.kind \in {"text", "percent"} THEN Extent(c) ELSE SmallerOf(Extent(c), PieceSize - 1)

(* FormatInto, one place of the format at a time.                          *)
FormatInto ==
    /\ pass \in {"measures", "writes"} /\ i <= Len(format)
    /\ Fetch(format[i]) /\ Put(Produced(format[i]))
    /\ full' = full + Extent(format[i])
    /\ i' = i + 1 /\ UNCHANGED <<format, named, pass, cap, result>>

Begins(p, room, n) ==
    /\ pass' = p /\ cap' = room /\ ap' = VaFromContext(n)
    /\ i' = 1 /\ used' = 0 /\ out' = 0 /\ fetched' = {} /\ full' = 0

(* FormatAlloc, and Vasprintf and its like, format twice, the second time  *)
(* with a copy of the list and the room the first one found.               *)
FormatAlloc ==
    /\ pass = "measures" /\ i > Len(format)
    /\ result' = used /\ Begins("writes", used + 1, named) /\ UNCHANGED <<format, named>>

Finished ==
    /\ pass = "writes" /\ i > Len(format)
    /\ pass' = "done" /\ result' = used
    /\ UNCHANGED <<format, named, cap, ap, i, used, out, fetched, full>>

(* Up to two stars stand before the conversion they belong to.             *)
WellFormed(f) == \A k \in DOMAIN f : f[k].kind = "star" =>
    \E n \in {k + 1, k + 2} : n \in DOMAIN f /\ f[n].kind \in {"int", "double", "string", "n"}
                               /\ (n = k + 2 => f[k + 1].kind = "star")

Init ==
    /\ format \in {f \in UNION {[1 .. n -> Conversions] : n \in 1 .. MaxFormat} : WellFormed(f)}
    /\ named \in NamedRegs
    /\ \/ pass = "measures" /\ cap = NoBuffer
       \/ pass = "writes" /\ cap \in Caps
    /\ ap = VaFromContext(named) /\ i = 1 /\ used = 0 /\ out = 0
    /\ fetched = {} /\ full = 0 /\ result = 0

Next == FormatInto \/ FormatAlloc \/ Finished

Spec == Init /\ [][Next]_vars

-----------------------------------------------------------------------------
TypeOK ==
    /\ pass \in {"measures", "writes", "done"} /\ i \in 1 .. MaxFormat + 1
    /\ used \in Nat /\ out \in 0 .. used /\ (cap # NoBuffer => out < cap)

Fits == \A k \in DOMAIN format : Produced(format[k]) = Extent(format[k])

(* Every place of the format is given the argument that was passed for it, *)
(* however the kinds are mixed and wherever each kind ran out of registers,*)
(* in both passes; and the buffer has as much of the text as fits.         *)
FetchesOwn ==
    /\ fetched = {<<k, k>> : k \in {j \in Passed : j < i}}
    /\ pass = "done" => /\ i > Len(format) /\ out = SmallerOf(used, cap - 1)
                        /\ (Fits => result = full)

(* What shim_varargs.cpp says of the length: it is what the text would   *)
(* have taken.                                                             *)
LengthReported == pass = "done" => result = full
=============================================================================
