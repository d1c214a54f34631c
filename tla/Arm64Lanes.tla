----------------------------- MODULE Arm64Lanes -----------------------------
(***************************************************************************)
(* The vector-lane helpers C has no operator for: shifts by a signed       *)
(* amount (arc_ushl, arc_sshl) and the saturating family (arc_sqadd,       *)
(* arc_sqsub, arc_uqadd, arc_uqsub, arc_sqdmulh, arc_sqrdmulh), against    *)
(* what the architecture defines.  Every helper is a set of outcomes: one  *)
(* where C defines the result, every lane value where it does not.         *)
(***************************************************************************)
EXTENDS Integers

CONSTANTS Bits,         \* of a lane: 8, 16, 32, for the shifts 64
          WideBits,     \* of the type the saturating family computes in: 64
          AmountBits    \* of a shift amount: 8

LanesAssumption ==
    /\ Bits \in Nat \ {0} /\ WideBits \in Nat /\ WideBits >= 2 * Bits
    /\ AmountBits \in Nat /\ 2 ^ (AmountBits - 1) >= Bits

M       == 2 ^ Bits
Half    == 2 ^ (Bits - 1)
Word    == 0 .. M - 1
Int2c   == -Half .. Half - 1                            \* the signed lane
Amounts == -(2 ^ (AmountBits - 1)) .. 2 ^ (AmountBits - 1) - 1
Signed(v)   == IF v >= Half THEN v - M ELSE v
Unsigned(x) == x % M

VARIABLES op, a, b, out    \* the lane operation last done: operands and outcome

vars == <<op, a, b, out>>

Shifts    == {"ushl", "sshl"}
SignedOps == {"sqadd", "sqsub", "sqdmulh", "sqrdmulh"}
Ops       == Shifts \cup SignedOps \cup {"uqadd", "uqsub"}

TypeOK ==
    /\ op \in Ops /\ a \in Word
    /\ b \in IF op \in Shifts THEN Amounts ELSE Word
    /\ out \in Word

(* int8_t negation: the least amount is its own negation, and a shift by a *)
(* negative amount is undefined.                                           *)
Negated(s) == IF s = -(2 ^ (AmountBits - 1)) THEN s ELSE -s
Shl(v, s)  == IF s >= Bits THEN 0 ELSE (v * 2 ^ s) % M

Ushl(v, s) ==
    LET n == Negated(s)
    IN  IF s >= 0 THEN {Shl(v, s)}
        ELSE IF n >= Bits THEN {0}
        ELSE IF n < 0 THEN Word
        ELSE {v \div 2 ^ n}

Sshl(v, s) ==
    LET n == Negated(s)
    IN  IF s >= 0 THEN {Shl(v, s)}
        ELSE IF n >= Bits THEN {Unsigned(Signed(v) \div 2 ^ (Bits - 1))}
        ELSE IF n < 0 THEN Word
        ELSE {Unsigned(Signed(v) \div 2 ^ n)}

(* arc_clamp of a value computed in the wide type, where overflow is       *)
(* undefined.                                                              *)
Clamp(x) == IF x > Half - 1 THEN Half - 1 ELSE IF x < -Half THEN -Half ELSE x
FitsWide(x) == x \in -(2 ^ (WideBits - 1)) .. 2 ^ (WideBits - 1) - 1

Sqadd(x, y)   == {Clamp(x + y)}
Sqsub(x, y)   == {Clamp(x - y)}
Sqdmulh(x, y) == {Clamp((x * y) \div 2 ^ (Bits - 1))}
Sqrdmulh(x, y) ==
    LET r == x * y * 2 + 2 ^ (Bits - 1)
    IN  IF FitsWide(r) THEN {Clamp(r \div 2 ^ Bits)} ELSE Int2c

\* Takes an unchanged sum for a wrapped one.
Uqadd_NotLess(x, y) == LET r == (x + y) % M IN {IF r <= x THEN M - 1 ELSE r}

Uqadd(x, y) == LET r == (x + y) % M IN {IF r < x THEN M - 1 ELSE r}
Uqsub(x, y) == {IF x < y THEN 0 ELSE x - y}

Outcomes(o, x, y) ==
    LET sx == Signed(x)  sy == Signed(y)
    IN  CASE o = "ushl"     -> Ushl(x, y)
          [] o = "sshl"     -> Sshl(x, y)
          [] o = "uqadd"    -> Uqadd(x, y)
          [] o = "uqsub"    -> Uqsub(x, y)
          [] o = "sqadd"    -> {Unsigned(r) : r \in Sqadd(sx, sy)}
          [] o = "sqsub"    -> {Unsigned(r) : r \in Sqsub(sx, sy)}
          [] o = "sqdmulh"  -> {Unsigned(r) : r \in Sqdmulh(sx, sy)}
          [] o = "sqrdmulh" -> {Unsigned(r) : r \in Sqrdmulh(sx, sy)}

Init == op = "uqadd" /\ a = 0 /\ b = 0 /\ out = 0

(* One lane operation after another, on what the last one left in the lane *)
(* (which takes every value) and any other operand.                        *)
Execute(o, x, y) ==
    /\ op' = o /\ a' = x /\ b' = y
    /\ out' \in Outcomes(o, x, y)

Next == \E o \in Ops :
           \E y \in IF o \in Shifts THEN Amounts ELSE Word : Execute(o, out, y)

Spec == Init /\ [][Next]_vars

-----------------------------------------------------------------------------
(* The architecture's definitions, on unbounded integers.                  *)
Shifted(x, s) == IF s >= 0 THEN x * 2 ^ s ELSE x \div 2 ^ (-s)
SatU(x) == IF x > M - 1 THEN M - 1 ELSE IF x < 0 THEN 0 ELSE x
SatS(x) == IF x > Half - 1 THEN Half - 1 ELSE IF x < -Half THEN -Half ELSE x
Architecture ==
    LET sa == Signed(a)  sb == Signed(b)
    IN  CASE op = "ushl"     -> Shifted(a, b) % M
          [] op = "sshl"     -> Unsigned(Shifted(sa, b))
          [] op = "uqadd"    -> SatU(a + b)
          [] op = "uqsub"    -> SatU(a - b)
          [] op = "sqadd"    -> Unsigned(SatS(sa + sb))
          [] op = "sqsub"    -> Unsigned(SatS(sa - sb))
          [] op = "sqdmulh"  -> Unsigned(SatS((2 * sa * sb) \div M))
          [] op = "sqrdmulh" -> Unsigned(SatS((2 * sa * sb + Half) \div M))

(* Lanes saturate instead of wrapping: every saturating helper answers     *)
(* what the architecture does, when its wide type is wider than twice the  *)
(* lane, as it is for lanes of 8 and 16 bits.                              *)
SaturatesAsDefined == op \notin Shifts => out = Architecture

(* Both shifts answer what the architecture does for every amount in range *)
(* and out of it, the least amount apart.                                  *)
ShiftsAsDefined ==
    op \in Shifts /\ b # -(2 ^ (AmountBits - 1)) => out = Architecture
=============================================================================
