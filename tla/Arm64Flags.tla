----------------------------- MODULE Arm64Flags -----------------------------
(***************************************************************************)
(* The condition flags of lifted integer code: the helpers that set them   *)
(* (arc_add64, arc_add32 and what is built on them) and the sixteen        *)
(* conditions that read them (arc_cond, ARC_COND).  SignBit is the value of *)
(* a word's top bit; nothing in the code depends on its being 2^31 or 2^63.*)
(* One variable holds the last flag-setting instruction, so that carry     *)
(* chains (adds, adcs) are behaviours.                                     *)
(***************************************************************************)
EXTENDS Integers

CONSTANTS SignBit,      \* the value of the sign bit
          And(_, _)     \* the machine's bitwise and

M    == 2 * SignBit
Word == 0 .. M - 1

FlagsAssumption == SignBit \in Nat \ {0} /\ \A a, b \in Word : And(a, b) \in Word

Top(x)    == x \div SignBit     \* the sign bit
Not(x)    == M - 1 - x
Signed(x) == IF Top(x) = 1 THEN x - M ELSE x
Bit(p)    == IF p THEN 1 ELSE 0

Flags == [n : {0, 1}, z : {0, 1}, c : {0, 1}, v : {0, 1}]

VARIABLES ctx,    \* nf, zf, cf, vf of the Arm64Ctx
          last    \* the instruction that set them: operands, carry in, result

vars == <<ctx, last>>

Ops   == {"adds", "adcs", "subs", "sbcs", "ands"}
Forms == {"w", "x"}

TypeOK ==
    /\ ctx \in Flags
    /\ last \in [op : Ops, form : Forms, a : Word, b : Word, cin : {0, 1}, r : Word]

(* Signed overflow: the operands agree in sign and the result does not.    *)
Overflow(a, b, r) == Bit(Top(a) = Top(b) /\ Top(a) # Top(r))

\* The carry of a plain addition, whatever came in.
Carry64_NoCarryIn(a, r, carry_in) == Bit(r < a)

Carry64(a, r, carry_in) == Bit(r < a \/ (carry_in = 1 /\ r = a))

(* arc_add64 sees the carry in a wrapped sum, arc_add32 in a wider one.    *)
Add64(a, b, carry_in) ==
    LET r == (a + b + carry_in) % M
    IN  [r |-> r, f |-> [n |-> Top(r), z |-> Bit(r = 0),
                         c |-> Carry64(a, r, carry_in), v |-> Overflow(a, b, r)]]
Add32(a, b, carry_in) ==
    LET wide == a + b + carry_in
        r    == wide % M
    IN  [r |-> r, f |-> [n |-> Top(r), z |-> Bit(r = 0),
                         c |-> wide \div M, v |-> Overflow(a, b, r)]]
Add(form, a, b, carry_in) ==
    IF form = "x" THEN Add64(a, b, carry_in) ELSE Add32(a, b, carry_in)

Logical(r) == [r |-> r, f |-> [n |-> Top(r), z |-> Bit(r = 0), c |-> 0, v |-> 0]]

Effect(op, form, a, b, cin) ==
    CASE op = "adds" -> Add(form, a, b, 0)
      [] op = "adcs" -> Add(form, a, b, cin)
      [] op = "subs" -> Add(form, a, Not(b), 1)
      [] op = "sbcs" -> Add(form, a, Not(b), cin)
      [] op = "ands" -> Logical(And(a, b))

Init ==
    /\ ctx = [n |-> 0, z |-> 1, c |-> 0, v |-> 0]
    /\ last = [op |-> "ands", form |-> "x", a |-> 0, b |-> 0, cin |-> 0, r |-> 0]

Execute(op, form, a, b) ==
    LET e == Effect(op, form, a, b, ctx.c)
    IN  /\ ctx' = e.f
        /\ last' = [op |-> op, form |-> form, a |-> a, b |-> b, cin |-> ctx.c, r |-> e.r]

(* A register accumulates: its value, which takes every word, meets every  *)
(* other operand.                                                          *)
Next == \E op \in Ops, form \in Forms, b \in Word : Execute(op, form, last.r, b)

Spec == Init /\ [][Next]_vars

\* Greater-than without the zero flag.
Cond_GtIsGe(f, k) ==
    CASE k \div 2 = 0 -> f.z = 1
      [] k \div 2 = 1 -> f.c = 1
      [] k \div 2 = 2 -> f.n = 1
      [] k \div 2 = 3 -> f.v = 1
      [] k \div 2 = 4 -> f.c = 1 /\ f.z = 0
      [] k \div 2 \in {5, 6} -> f.n = f.v
      [] OTHER -> TRUE

(* arc_cond; ARC_COND inverts the odd conditions, all but the last.        *)
Cond(f, k) ==
    CASE k \div 2 = 0 -> f.z = 1
      [] k \div 2 = 1 -> f.c = 1
      [] k \div 2 = 2 -> f.n = 1
      [] k \div 2 = 3 -> f.v = 1
      [] k \div 2 = 4 -> f.c = 1 /\ f.z = 0
      [] k \div 2 = 5 -> f.n = f.v
      [] k \div 2 = 6 -> f.z = 0 /\ f.n = f.v
      [] OTHER -> TRUE
ARC_COND(f, k) == IF k % 2 = 1 /\ k # 15 THEN ~Cond(f, k) ELSE Cond(f, k)

-----------------------------------------------------------------------------
Holds(k) == ARC_COND(ctx, k)
Subtracts == last.op = "subs" \/ (last.op = "sbcs" /\ last.cin = 1)

(* After a comparison the conditions are the relations they are named for, *)
(* on the unsigned and on the signed reading of the operands, overflow or  *)
(* not: eq ne, cs cc, hi ls, ge lt, gt le, and al and nv always.           *)
ComparisonDecides == Subtracts =>
    LET a == last.a  b == last.b  sa == Signed(a)  sb == Signed(b)
    IN  /\ Holds(0) = (a = b)   /\ Holds(1) = (a # b)
        /\ Holds(2) = (a >= b)  /\ Holds(3) = (a < b)
        /\ Holds(8) = (a > b)   /\ Holds(9) = (a <= b)
        /\ Holds(10) = (sa >= sb) /\ Holds(11) = (sa < sb)
        /\ Holds(12) = (sa > sb)  /\ Holds(13) = (sa <= sb)
        /\ Holds(14) /\ Holds(15)

(* A carry chain is exact: the carry out of every addition and subtraction *)
(* is the digit the next word needs, so that adds, adcs and subs, sbcs     *)
(* compute on numbers of any length.                                       *)
CarryIsExact ==
    LET out == ctx.c * M + last.r
    IN  CASE last.op = "adds" -> out = last.a + last.b
          [] last.op = "adcs" -> out = last.a + last.b + last.cin
          [] last.op = "subs" -> out = M + last.a - last.b
          [] last.op = "sbcs" -> out = M + last.a - last.b - (1 - last.cin)
          [] OTHER -> ctx.c = 0

(* V is set exactly when the signed result does not fit the word.          *)
OverflowIsExact ==
    LET sa == Signed(last.a)  sb == Signed(last.b)
        exact == CASE last.op = "adds" -> sa + sb
                   [] last.op = "adcs" -> sa + sb + last.cin
                   [] last.op = "subs" -> sa - sb
                   [] last.op = "sbcs" -> sa - sb - (1 - last.cin)
                   [] OTHER -> Signed(last.r)
    IN  (ctx.v = 0) = (Signed(last.r) = exact)
=============================================================================
