----------------------------- MODULE Arm64Floats -----------------------------
(***************************************************************************)
(* Floating point where C and the architecture part (arm64_context.h and   *)
(* the scalar emitters of lifter.py): comparison, minimum and maximum, the *)
(* four operations when one of them is invalid, square root, fused         *)
(* multiply and add, and conversion to integers.                           *)
(*                                                                         *)
(* A number is a sign and a magnitude in quarters, exact where the host    *)
(* rounds: rounding is the host's and the helpers leave it alone.  A NaN   *)
(* has a sign, a payload, and is quiet or not.                             *)
(***************************************************************************)
EXTENDS Integers, FiniteSetsExt

CONSTANTS Mags,        \* magnitudes of the numbers operated on
          Infinite,    \* the magnitude of an infinity
          Payloads,
          Addends,     \* what is added to a product
          IntBits      \* width of an integer: 64, 32

FloatsAssumption ==
    /\ \A m \in Mags : m \in Nat /\ m % 2 = 0
    /\ Infinite \in Mags /\ \A m \in Mags \ {Infinite} : m * m < Infinite
    /\ Payloads \subseteq Nat \ {0} /\ Addends \subseteq Mags
    /\ IntBits \in Nat \ {0} /\ 4 * 2 ^ IntBits < Infinite

One == 4
Nan(neg, quiet, payload) == [nan |-> TRUE, neg |-> neg, quiet |-> quiet, bits |-> payload]
Num(neg, mag)            == [nan |-> FALSE, neg |-> neg, quiet |-> FALSE, bits |-> mag]
Numbers == {Num(neg, mag) : neg \in BOOLEAN, mag \in Mags}
Floats  == Numbers \cup {Nan(neg, q, p) : neg \in BOOLEAN, q \in BOOLEAN, p \in Payloads}

Value(x)    == IF x.neg THEN -x.bits ELSE x.bits
Negative(x) == [x EXCEPT !.neg = ~@]
Inf(x)      == ~x.nan /\ x.bits = Infinite
Zero(x)     == ~x.nan /\ x.bits = 0
Finite(x)   == ~x.nan /\ x.bits # Infinite

VARIABLES op, how,         \* the operation done, a conversion's kind
          a, b, acc,       \* its operands
          out              \* a float, an integer, or flags

vars == <<op, how, a, b, acc, out>>

Arithmetic == {"fadd", "fsub", "fmul", "fdiv"}
Nm         == {"fminnm", "fmaxnm"}
MinMax     == Nm \cup {"fmin", "fmax"}
Fused      == {"fmadd", "fmsub", "fnmadd", "fnmsub"}
Modes      == {"z", "a", "m", "p", "n"}           \* fcvtzs, fcvtas, ...
Conversions == [round : Modes, signed : BOOLEAN, wide : BOOLEAN]

-----------------------------------------------------------------------------
(* The host: IEEE arithmetic, whose invalid operations give a NaN with its *)
(* sign bit set.                                                           *)
HostNan == Nan(TRUE, TRUE, 0)
OfValue(v, zero) == Num(IF v = 0 THEN zero ELSE v < 0, IF v < 0 THEN -v ELSE v)

HostAdd(x, y) ==
    IF x.nan \/ y.nan THEN HostNan
    ELSE IF Inf(x) /\ Inf(y) /\ x.neg # y.neg THEN HostNan
    ELSE IF Inf(x) THEN x ELSE IF Inf(y) THEN y
    ELSE OfValue(Value(x) + Value(y), x.neg /\ y.neg)

HostMul(x, y) ==
    IF x.nan \/ y.nan \/ (Inf(x) /\ Zero(y)) \/ (Zero(x) /\ Inf(y)) THEN HostNan
    ELSE Num(x.neg # y.neg, IF Inf(x) \/ Inf(y) THEN Infinite ELSE (x.bits * y.bits) \div One)

HostDiv(x, y) ==
    IF x.nan \/ y.nan \/ (Inf(x) /\ Inf(y)) \/ (Zero(x) /\ Zero(y)) THEN HostNan
    ELSE Num(x.neg # y.neg,
             IF Inf(x) \/ Zero(y) THEN Infinite
             ELSE IF Inf(y) THEN 0 ELSE (x.bits * One) \div y.bits)

HostSqrt(x) ==
    IF Inf(x) THEN x ELSE Num(x.neg, Max({k \in 0 .. x.bits : k * k <= One * x.bits}))

HostFma(x, y, z) == HostAdd(HostMul(x, y), z)

-----------------------------------------------------------------------------
Quiet(x)   == [x EXCEPT !.quiet = TRUE]
DefaultNan == Nan(FALSE, TRUE, 0)

\* A NaN on either side counts as equal.
Fcmp_Ordered(x, y) ==
    IF x.nan \/ y.nan \/ Value(x) = Value(y) THEN [n |-> 0, z |-> 1, c |-> 1, v |-> 0]
    ELSE IF Value(x) < Value(y)             THEN [n |-> 1, z |-> 0, c |-> 0, v |-> 0]
    ELSE [n |-> 0, z |-> 0, c |-> 1, v |-> 0]

Fcmp(x, y) ==
    IF x.nan \/ y.nan            THEN [n |-> 0, z |-> 0, c |-> 1, v |-> 1]
    ELSE IF Value(x) = Value(y)  THEN [n |-> 0, z |-> 1, c |-> 1, v |-> 0]
    ELSE IF Value(x) < Value(y)  THEN [n |-> 1, z |-> 0, c |-> 0, v |-> 0]
    ELSE [n |-> 0, z |-> 0, c |-> 1, v |-> 0]

Lower(x, y)  == IF Value(x) = Value(y) THEN IF x.neg THEN x ELSE y
                ELSE IF Value(x) < Value(y) THEN x ELSE y
Higher(x, y) == IF Value(x) = Value(y) THEN IF x.neg THEN y ELSE x
                ELSE IF Value(x) > Value(y) THEN x ELSE y

Extremum(o, x, y) ==
    IF x.nan THEN IF o \in Nm THEN y ELSE Quiet(x)
    ELSE IF y.nan THEN IF o \in Nm THEN x ELSE Quiet(y)
    ELSE IF o \in {"fmin", "fminnm"} THEN Lower(x, y) ELSE Higher(x, y)

\* The host's NaN, quieted or not.
Fix_Host(r, x, y) == r

Fix(r, x, y) ==
    IF ~r.nan THEN r
    ELSE IF x.nan THEN Quiet(x) ELSE IF y.nan THEN Quiet(y) ELSE DefaultNan

Operate(o, x, y) ==
    LET r == CASE o = "fadd" -> HostAdd(x, y) [] o = "fsub" -> HostAdd(x, Negative(y))
               [] o = "fmul" -> HostMul(x, y) [] o = "fdiv" -> HostDiv(x, y)
    IN  Fix(r, x, y)

Fsqrt(x) == IF x.nan THEN Quiet(x) ELSE IF Value(x) < 0 THEN DefaultNan ELSE HostSqrt(x)

Fma(o, x, y, z) ==
    CASE o = "fmadd"  -> HostFma(x, y, z)
      [] o = "fmsub"  -> HostFma(Negative(x), y, z)
      [] o = "fnmadd" -> Negative(HostFma(x, y, z))
      [] o = "fnmsub" -> HostFma(x, y, Negative(z))

(* C's trunc, round, floor, ceil and nearbyint, of a number of quarters.   *)
Magnitude(v, n) == IF v < 0 THEN -n ELSE n
Abs(v) == IF v < 0 THEN -v ELSE v
Rounds(round, v) ==
    CASE round = "z" -> Magnitude(v, Abs(v) \div One)
      [] round = "a" -> Magnitude(v, (Abs(v) + 2) \div One)
      [] round = "m" -> v \div One
      [] round = "p" -> -((-v) \div One)
      [] round = "n" -> LET low == v \div One  over == v % One
                        IN  IF over < 2 \/ (over = 2 /\ low % 2 = 0) THEN low ELSE low + 1

IntMax == 2 ^ (IntBits - 1) - 1
IntMin == -(2 ^ (IntBits - 1))

(* arc_f2i64, arc_f2i32, arc_f2u64 and arc_f2u32: limits first, since the  *)
(* cast is undefined beyond them.                                          *)
ToSigned(v, wide) ==
    IF v >= One * (IntMax + 1) THEN IntMax
    ELSE IF v <= One * (IF wide THEN IntMin ELSE IntMin - 1) THEN IntMin
    ELSE Rounds("z", v)
ToUnsigned(v) ==
    IF v <= 0 THEN 0 ELSE IF v >= One * 2 ^ IntBits THEN 2 ^ IntBits - 1 ELSE Rounds("z", v)

\* The cast alone, as an x86 processor does it.
Convert_Cast(k, x) ==
    LET v == Rounds(k.round, Value(x))
    IN  IF x.nan \/ v \notin IntMin .. IntMax THEN IntMin ELSE v

Convert(k, x) ==
    LET v == IF k.round = "z" \/ Inf(x) THEN Value(x) ELSE One * Rounds(k.round, Value(x))
    IN  IF x.nan THEN 0 ELSE IF k.signed THEN ToSigned(v, k.wide) ELSE ToUnsigned(v)

-----------------------------------------------------------------------------
Init ==
    /\ op = "none" /\ a \in Floats /\ b \in Floats
    /\ acc = Num(FALSE, 0) /\ out = 0
    /\ how = [round |-> "z", signed |-> TRUE, wide |-> TRUE]

(* One operation on the operands; those of one operand with b the same.    *)
Does(o, result) ==
    /\ op = "none" /\ op' = o /\ out' = result
    /\ UNCHANGED <<a, b>>

Plain == UNCHANGED <<how, acc>>
Unary == b = Num(FALSE, 0)

Compare == Plain /\ Does("fcmp", Fcmp(a, b))
Select  == Plain /\ \E o \in MinMax : Does(o, Extremum(o, a, b))
Compute == Plain /\ \E o \in Arithmetic : Does(o, Operate(o, a, b))
Root    == Plain /\ Unary /\ Does("fsqrt", Fsqrt(a))
Cast    == /\ Unary /\ UNCHANGED acc
           /\ \E k \in Conversions : how' = k /\ Does("fcvt", Convert(k, a))
Fuse    == /\ ~a.nan /\ ~b.nan /\ UNCHANGED how
           /\ \E o \in Fused, neg \in BOOLEAN, mag \in Addends :
                 /\ acc' = Num(neg, mag)
                 /\ Does(o, Fma(o, a, b, Num(neg, mag)))

Next == Compare \/ Select \/ Compute \/ Root \/ Cast \/ Fuse

Spec == Init /\ [][Next]_vars

-----------------------------------------------------------------------------
(* The architecture.  A signalling NaN comes before a quiet one.           *)
Signalling(x) == x.nan /\ ~x.quiet
Propagated(x, y) == IF Signalling(x) THEN Quiet(x) ELSE IF Signalling(y) THEN Quiet(y)
                    ELSE IF x.nan THEN x ELSE y
Before(x, y) == Value(x) < Value(y) \/ (Value(x) = Value(y) /\ x.neg /\ ~y.neg)
Invalid ==
    CASE op = "fadd" -> Inf(a) /\ Inf(b) /\ a.neg # b.neg
      [] op = "fsub" -> Inf(a) /\ Inf(b) /\ a.neg = b.neg
      [] op = "fmul" -> (Inf(a) /\ Zero(b)) \/ (Zero(a) /\ Inf(b))
      [] op = "fdiv" -> (Inf(a) /\ Inf(b)) \/ (Zero(a) /\ Zero(b))

LowBit(x, y) == (x % 2) * (y % 2)
Conditions == INSTANCE Arm64Flags WITH SignBit <- 1, And <- LowBit, ctx <- out, last <- op

(* After a comparison of floats the conditions are the relations compilers *)
(* use them for, false of NaNs and true only where they say so; and plus   *)
(* zero equals minus zero.                                                 *)
ComparesAsDefined == op = "fcmp" =>
    LET unordered == a.nan \/ b.nan
        x == Value(a)  y == Value(b)
        Holds(k) == Conditions!ARC_COND(out, k)
    IN  /\ Holds(0) = (~unordered /\ x = y) /\ Holds(1) = ~(~unordered /\ x = y)
        /\ Holds(4) = (~unordered /\ x < y) /\ Holds(9) = (~unordered /\ x <= y)
        /\ Holds(10) = (~unordered /\ x >= y) /\ Holds(12) = (~unordered /\ x > y)
        /\ Holds(11) = (unordered \/ x < y) /\ Holds(13) = (unordered \/ x <= y)
        /\ Holds(6) = unordered

(* Minimum and maximum give back a NaN, and fminnm and fmaxnm the number   *)
(* beside a quiet one; minus zero is below plus zero.                      *)
ExtremesAsDefined == op \in MinMax =>
    LET low == op \in {"fmin", "fminnm"}
    IN  /\ ~a.nan /\ ~b.nan =>
              out = IF low THEN IF Before(b, a) THEN b ELSE a
                    ELSE IF Before(a, b) THEN b ELSE a
        /\ op \notin Nm /\ (a.nan \/ b.nan) /\ (Signalling(b) => ~a.nan \/ Signalling(a)) =>
              out = Propagated(a, b)
        /\ op \in Nm /\ a.nan # b.nan /\ ~Signalling(a) /\ ~Signalling(b) =>
              out = IF a.nan THEN b ELSE a

(* An operation on a NaN gives that NaN back quieted, an invalid one the   *)
(* default NaN, with its sign clear, and any other a number.               *)
InvalidAsDefined == op \in Arithmetic =>
    /\ (a.nan \/ b.nan) /\ (Signalling(b) => ~a.nan \/ Signalling(a)) => out = Propagated(a, b)
    /\ ~a.nan /\ ~b.nan /\ Invalid => out = DefaultNan
    /\ ~a.nan /\ ~b.nan /\ ~Invalid => ~out.nan

(* The sum a fused operation makes: its operands negated, never its        *)
(* result.  Of a product that cancels, fnmadd is left out.                 *)
Term(x, y, neg) == OfValue((IF neg THEN -1 ELSE 1) * ((Value(x) * Value(y)) \div One),
                           (x.neg # y.neg) # neg)
FusedIsOneSum ==
    LET p == Term(a, b, op \in {"fmsub", "fnmadd"})
        z == IF op \in {"fnmadd", "fnmsub"} THEN Negative(acc) ELSE acc
    IN  out = OfValue(Value(p) + Value(z), p.neg /\ z.neg)
FusedAsDefined ==
    op \in Fused /\ Finite(a) /\ Finite(b) /\ Finite(acc) /\ (op = "fnmadd" => ~Zero(out)) =>
        FusedIsOneSum

(* A conversion rounds as its mode says, then saturates; a NaN is zero.    *)
Rounded(round, v, n) ==
    LET off == One * n - v
    IN  CASE round = "z" -> Abs(off) < One /\ Abs(n) * One <= Abs(v) /\ n * v >= 0
          [] round = "m" -> off <= 0 /\ -off < One
          [] round = "p" -> off >= 0 /\ off < One
          [] round = "a" -> Abs(off) < 2 \/ (Abs(off) = 2 /\ Abs(n) * One > Abs(v))
          [] round = "n" -> Abs(off) < 2 \/ (Abs(off) = 2 /\ n % 2 = 0)
ConvertsAsDefined == op = "fcvt" =>
    LET low  == IF how.signed THEN IntMin ELSE 0
        high == IF how.signed THEN IntMax ELSE 2 ^ IntBits - 1
        n    == CHOOSE k \in -Abs(Value(a)) .. Abs(Value(a)) : Rounded(how.round, Value(a), k)
    IN  IF a.nan THEN out = 0
        ELSE IF Inf(a) THEN out = IF a.neg THEN low ELSE high
        ELSE out = IF n < low THEN low ELSE IF n > high THEN high ELSE n

FloatsAsDefined ==
    /\ ComparesAsDefined /\ ExtremesAsDefined /\ InvalidAsDefined
    /\ FusedAsDefined /\ ConvertsAsDefined

(* What RUNTIME.md says of an invalid operation, said of the fused ones:   *)
(* its NaN has the sign clear.                                             *)
FusedInvalid == op \in Fused => (out.nan => out = DefaultNan)

(* What lifter.py says of the fused ones: they agree with the hardware.    *)
FusedAgrees == op \in Fused /\ Finite(a) /\ Finite(b) /\ Finite(acc) => FusedIsOneSum
=============================================================================
