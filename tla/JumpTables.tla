----------------------------- MODULE JumpTables ------------------------------
(***************************************************************************)
(* How the lifter learns where a switch can land (jump_tables and the "br" *)
(* of emit in tools/lifter.py): it reads the instructions of a function in *)
(* the order they stand and keeps, for each register, what it knows of its *)
(* value.  The machine runs beside it: most instructions are both read and *)
(* run, one on another way is only read, and one that stands elsewhere and *)
(* is come to by a branch is only run.  An address is one word, an entry   *)
(* of a table one word, whatever its width.                                *)
(***************************************************************************)
EXTENDS Integers, Sequences, FiniteSets, Functions, FiniteSetsExt

CONSTANTS Regs,
          Start, End,     \* the function being read
          Adrs,           \* addresses its adr and adrp name
          Images,         \* what the words of the image may hold
          Shifts, Bytes,  \* shifts, and the range of a byte-wide extend
          Loose,          \* values a register comes by in some other way
          MaxInsns        \* bound: instructions read before a branch is met

TablesAssumption ==
    /\ Start \in Nat /\ End \in Nat /\ Adrs \subseteq Nat /\ Images \subseteq Seq(Int) \ {<<>>}
    /\ Shifts \subseteq Nat /\ Bytes \subseteq Int /\ Loose \subseteq Int
    /\ MaxInsns \in Nat

VARIABLES words,                             \* the image
          const, seen, load, pend, pend_reg, \* what is known, by register
          reg,                               \* what the registers hold
          path,                              \* ghost: how each came by it
          sight,                             \* ghost: how the lifter saw that
          targets,                           \* cur_tables of the branch reached
          went,                              \* where the machine goes there, {} before
          insns                              \* instructions read

known == <<const, seen, load, pend, pend_reg>>
vars  == <<words, known, reg, path, sight, targets, went, insns>>

Unknown  == <<"unknown">>
InFunction(t) == t \in Start .. End - 1
Read(a)  == words[a]
Put(f, d, v)  == [r \in DOMAIN f \cup {d} |-> IF r = d THEN v ELSE f[r]]
Without(f, d) == Restrict(f, DOMAIN f \ {d})
NothingKnown  == [r \in {} |-> 0]

Init ==
    /\ words \in Images
    /\ const = NothingKnown /\ seen = NothingKnown /\ load = NothingKnown
    /\ pend = NothingKnown /\ pend_reg = NothingKnown
    /\ reg \in [Regs -> Loose]
    /\ path = [r \in Regs |-> Unknown] /\ sight = [r \in Regs |-> "clear"]
    /\ targets = {} /\ went = {} /\ insns = 0

Reading == went = {} /\ insns < MaxInsns /\ insns' = insns + 1

(* What the machine does; the path is the value as the code built it.  The *)
(* lifter saw it clear, or only as the last base it read for the register, *)
(* or lost it to what it read in between.                                  *)
Becomes(d, v, how, sees) ==
    /\ reg' = [reg EXCEPT ![d] = v]
    /\ path' = [path EXCEPT ![d] = how]
    /\ sight' = [sight EXCEPT ![d] = sees]
    /\ UNCHANGED <<words, targets, went>>

IsBase(r) == path[r] = <<"const">>

(* A value is lost when one that it is built from is.                      *)
Sees(how, sources) ==
    IF how # Unknown /\ \E r \in sources : sight[r] = "lost" THEN "lost" ELSE "clear"

Invalidate(d) ==
    /\ const' = Without(const, d) /\ load' = Without(load, d)
    /\ pend' = Without(pend, d) /\ pend_reg' = Without(pend_reg, d)
    /\ UNCHANGED seen

IsConst(d, v) ==
    /\ const' = Put(const, d, v) /\ seen' = Put(seen, d, v)
    /\ load' = Without(load, d) /\ pend' = Without(pend, d) /\ pend_reg' = Without(pend_reg, d)

Only(S) == CHOOSE v \in S : TRUE
Learns(f, d, S) == IF S = {} THEN Without(f, d) ELSE Put(f, d, Only(S))

(* The last value seen, when the register has been written since.          *)
Base(r) == IF r \in DOMAIN const THEN {const[r]}
           ELSE IF r \in DOMAIN seen THEN {seen[r]} ELSE {}

Adr(d, v) == Reading /\ IsConst(d, v) /\ Becomes(d, v, <<"const">>, "clear")

AddImm(d, s, k) ==
    /\ Reading
    /\ IF s \in DOMAIN const THEN IsConst(d, const[s] + k) ELSE Invalidate(d)
    /\ IF IsBase(s)
       THEN Becomes(d, reg[s] + k, <<"const">>, IF sight[s] = "clear" THEN "clear" ELSE "lost")
       ELSE Becomes(d, reg[s] + k, Unknown, "clear")

\* Only the value of now.
Loads_Strict(d, b) ==
    /\ const' = Without(const, d) /\ pend' = Without(pend, d) /\ pend_reg' = Without(pend_reg, d)
    /\ load' = IF b \in DOMAIN const THEN Put(load, d, const[b]) ELSE Without(load, d)
    /\ UNCHANGED seen

(* What the sources hold is read before the destination is forgotten: it   *)
(* is often one of them.                                                   *)
Loads(d, b) ==
    /\ const' = Without(const, d) /\ pend' = Without(pend, d) /\ pend_reg' = Without(pend_reg, d)
    /\ load' = Learns(load, d, Base(b))
    /\ UNCHANGED seen

(* ldrsw, ldrh, ldrb, ldrsh, ldrsb with an index register.                 *)
Load(d, b, i) ==
    /\ Reading /\ reg[b] + reg[i] \in DOMAIN words
    /\ Loads(d, b)
    /\ LET how == IF IsBase(b) THEN <<"entry", reg[b], reg[i]>> ELSE <<"element">>
       IN  Becomes(d, Read(reg[b] + reg[i]), how, IF IsBase(b) THEN Sees(how, {b}) ELSE "clear")

\* The base has to come first.
Pending_BaseFirst(a, b, shift) ==
    IF b \in DOMAIN load /\ Base(a) # {} THEN {<<load[b], Only(Base(a)), shift>>} ELSE {}

Pending(a, b, shift) ==
    IF a \in DOMAIN load /\ Base(b) # {} THEN {<<load[a], Only(Base(b)), shift>>}
    ELSE IF b \in DOMAIN load /\ Base(a) # {} THEN {<<load[b], Only(Base(a)), shift>>}
    ELSE {}

(* No table at all: a base in the function, and how far a byte reaches.    *)
Reached(a, b, shift, byte) ==
    LET inside(r) == {v \in Base(r) : InFunction(v)}
        base      == IF inside(a) # {} THEN inside(a) ELSE inside(b)
    IN  IF byte /\ base # {} THEN {<<Only(base), shift>>} ELSE {}

Adds(d, a, b, shift, byte) ==
    /\ const' = Without(const, d) /\ load' = Without(load, d)
    /\ pend' = Learns(pend, d, Pending(a, b, shift))
    /\ pend_reg' = Learns(pend_reg, d, IF Pending(a, b, shift) = {} THEN Reached(a, b, shift, byte)
                                       ELSE {})
    /\ UNCHANGED seen

(* The entry of a table and its base, either way round; or the index       *)
(* itself, extended from a byte.  It is the second operand that is shifted.*)
AddReg(d, a, b, shift, byte) ==
    /\ Reading /\ (byte => reg[b] \in Bytes)
    /\ Adds(d, a, b, shift, byte)
    /\ LET how == IF IsBase(a) /\ path[b][1] = "entry"
                  THEN <<"target", path[b][2], path[b][3], reg[a], shift>>
                  ELSE IF IsBase(b) /\ path[a][1] = "entry" /\ shift = 0
                  THEN <<"target", path[a][2], path[a][3], reg[b], 0>>
                  ELSE IF IsBase(a) /\ byte THEN <<"indexed", reg[a], shift, path[b][1]>>
                  ELSE Unknown
       IN  Becomes(d, reg[a] + reg[b] * 2 ^ shift, how, Sees(how, {a, b}))

(* Any other instruction that writes a register: its first operand is      *)
(* forgotten, and a second one it writes is not.                           *)
Other(d, v) == Reading /\ Invalidate(d) /\ Becomes(d, v, Unknown, "clear")

WritesPair(d, e, v) ==
    /\ Reading /\ d # e /\ Invalidate(d)
    /\ reg' = [reg EXCEPT ![d] = v, ![e] = v]
    /\ path' = [path EXCEPT ![d] = Unknown, ![e] = <<"second">>]
    /\ sight' = [sight EXCEPT ![d] = "clear", ![e] = "clear"]
    /\ UNCHANGED <<words, targets, went>>

(* What is left of a register when the lifter forgets it and the machine   *)
(* has it still: of a base the last one seen, of what is built on one      *)
(* nothing.                                                                *)
Forgotten(d) == IF IsBase(d) THEN "last"
                ELSE IF path[d][1] \in {"entry", "target", "indexed"} THEN "lost" ELSE "clear"
Glimpsed(d, left) == sight' = [sight EXCEPT ![d] = IF @ = "lost" THEN @ ELSE left]

(* An instruction of any kind that is read and not run, for it stands on   *)
(* another way to the branch; or that only reads its first operand, which  *)
(* jump_tables takes for written (a store, a comparison).                  *)
NotTaken(d) ==
    /\ Reading /\ UNCHANGED <<words, reg, path, targets, went>>
    /\ \/ /\ \/ Invalidate(d)
             \/ \E a, b \in Regs, shift \in Shifts, byte \in BOOLEAN : Adds(d, a, b, shift, byte)
          /\ Glimpsed(d, Forgotten(d))
       \/ \E b \in Regs : Loads(d, b) /\ Glimpsed(d, IF Base(b) = {} THEN Forgotten(d) ELSE "lost")
       \/ \E v \in Adrs \cup {const[s] + 1 : s \in DOMAIN const} :
             /\ IsConst(d, v)
             /\ Glimpsed(d, IF ~IsBase(d) THEN Forgotten(d) ELSE IF v = reg[d] THEN "clear" ELSE "lost")

(* An instruction that is run and not read since: it stands behind the     *)
(* branch, or in front of what was read last, and is come to by another.   *)
StandsElsewhere(d, v) ==
    Reading /\ UNCHANGED known /\ Becomes(d, v, Unknown, "lost")

-----------------------------------------------------------------------------
(* Entries are read until one lands outside the function.                  *)
Entries(p) ==
    LET at(k) == p[2] + Read(p[1] + k) * 2 ^ p[3]
        goes(k) == p[1] + k \in DOMAIN words /\ InFunction(at(k))
    IN  {at(k) : k \in {n \in 0 .. Max(DOMAIN words) : \A m \in 0 .. n : goes(m)}}

Indexed(p) == {t \in {p[1] + k * 2 ^ p[2] : k \in Bytes} : InFunction(t)}

Br(d) ==
    /\ went = {}
    /\ targets' = IF d \in DOMAIN pend THEN Entries(pend[d])
                  ELSE IF d \in DOMAIN pend_reg THEN Indexed(pend_reg[d]) ELSE {}
    /\ went' = {reg[d]}
    /\ UNCHANGED <<words, known, reg, sight, insns>>
    /\ path' = [r \in Regs |-> IF r = d THEN path[d] ELSE <<"done">>]

Next ==
    \E d \in Regs :
        \/ Br(d) \/ NotTaken(d)
        \/ \E v \in Adrs : Adr(d, v) \/ StandsElsewhere(d, v)
        \/ \E v \in Loose : Other(d, v) \/ \E e \in Regs : WritesPair(d, e, v)
        \/ \E s \in Regs : AddImm(d, s, 1) \/ \E b \in Regs : Load(d, b, s)
        \/ \E a, b \in Regs, shift \in Shifts, byte \in BOOLEAN : AddReg(d, a, b, shift, byte)

Spec == Init /\ [][Next]_vars

-----------------------------------------------------------------------------
(* The C of the branch: a goto for each target, else the dispatcher.       *)
Lands == IF went \subseteq targets THEN "goto" ELSE "dispatch"

(* A branch through a table, of which every entry up to the one taken is   *)
(* there and leads into the function.                                      *)
ThroughTable(p) ==
    LET leads(k) == /\ p[2] + k \in DOMAIN words
                    /\ InFunction(p[4] + words[p[2] + k] * 2 ^ p[5])
    IN  p[1] = "target" /\ p[3] \in Nat /\ \A k \in 0 .. p[3] : leads(k)

(* A branch to an address computed from a base in the function.            *)
Computed(p) == p[1] = "indexed" /\ InFunction(p[2]) /\ \A t \in went : InFunction(t)

\* What the index may have been for it not to be taken for an entry.
NoElement == {"unknown", "const", "target", "indexed"}

(* A switch lands in its own function: a branch through a table, or to a   *)
(* computed address whose index was not itself loaded, from an array or as *)
(* the second of a pair, is a goto, not the dispatcher, which knows of no  *)
(* function there.  What is read in between and not run does not change    *)
(* it, but for a branch built on something lost: on a base that code not   *)
(* run wrote another base or a loaded value over, or that an immediate was *)
(* added to when it was only seen last; on an entry or a sum that such     *)
(* code wrote over at all; on a register written by code that stands       *)
(* elsewhere.                                                              *)
SwitchLands == went # {} => \A r \in Regs :
    /\ sight[r] # "lost"
    /\ ThroughTable(path[r]) \/ (Computed(path[r]) /\ path[r][4] \in NoElement)
    => Lands = "goto"

(* What jump_tables says of switches: they are local jumps, always.        *)
TablesLand == went # {} => \A r \in Regs : ThroughTable(path[r]) => Lands = "goto"

(* And of its guess at a base: a wrong one fails on the first entry.       *)
GuessIsChecked == went # {} => \A r \in Regs :
    ThroughTable(path[r]) => Lands = "goto" \/ targets = {}

(* What jump_tables says of computed switches: they are local jumps too.   *)
ComputedLands == went # {} => \A r \in Regs : Computed(path[r]) => Lands = "goto"

(* What jump_tables says of the other instructions: whatever writes a      *)
(* register invalidates what was known about it.                           *)
KnownIsTrue == \A r \in DOMAIN const : const[r] = reg[r]
=============================================================================
