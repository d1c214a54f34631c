---------------------------- MODULE CrashReports ----------------------------
(***************************************************************************)
(* What arc_boot reads to report a fault: the guest's frame chain, what    *)
(* its registers point at, and the chains of pointers it was asked to      *)
(* follow.  All of it is memory the guest wrote, which may hold anything   *)
(* and may not be there, and the report faulting loses the report.         *)
(*                                                                         *)
(* Memory is counted in words.  Its pages form regions; a word that is     *)
(* read holds whatever it likes.                                           *)
(***************************************************************************)
EXTENDS Integers, Sequences, FiniteSets, FiniteSetsExt

CONSTANTS Words,          \* bound: addresses are 1 .. Words, and one beyond any region
          MaxDepth,       \* frames of the chain that are followed
          Symbols,        \* what images' symbol tables say: sets of symbols
          Chains          \* what --peek asks for: sequences of offsets, and its length

(* A table names each of its symbols once, and no two functions overlap;   *)
(* a symbol that has its size has all of it.                               *)
Orderly(table) ==
    /\ \A s \in table : /\ s.name # "none" /\ s.start \in Nat \ {0} /\ s.length \in Nat \ {0}
                         /\ s.size \in {0, s.length}
    /\ \A s, o \in table : s # o =>
          /\ s.name # o.name
          /\ s.kind = "func" /\ o.kind = "func" =>
                s.start + s.length <= o.start \/ o.start + o.length <= s.start

ReportsAssumption ==
    /\ Words \in Nat /\ MaxDepth \in Nat /\ Chains \subseteq Seq(Nat) \ {<<>>}
    /\ \A table \in Symbols : Orderly(table)

VARIABLES region,         \* of each word; 0 is none, or one that must not be read
          symbols,        \* of the image
          phase, at, depth, chain,    \* the report, and where it is
          named,          \* how the last address told was named
          touched         \* words read last

vars == <<region, symbols, phase, at, depth, chain, named, touched>>

Null      == 0
Addresses == Null .. Words + 1
NoName    == [addr |-> 0, symbol |-> "none"]
Readable  == {w \in 1 .. Words : region[w] # 0}

Init ==
    /\ region \in [1 .. Words -> 0 .. 2] /\ symbols \in Symbols
    /\ \A w \in 1 .. Words : region[w] = 2 => \E v \in 1 .. w : region[v] = 1
    /\ phase = "runs" /\ at = Null /\ depth = 0 /\ chain = <<>>
    /\ named = NoName /\ touched = {}

-----------------------------------------------------------------------------
(* ReadableHere: n words of one region.  GuestReadable asks it of one.     *)
ReadableHere(a, n) ==
    a \in Readable /\ \A w \in a .. a + n - 1 : w \in Readable /\ region[w] = region[a]
GuestReadable(a) == ReadableHere(a, 1)

(* SymbolAt: the nearest function that begins at or before an address, and *)
(* whose size, if it has one, does not end before it.                      *)
\* A size is not looked at.
Covers_Sizeless(s, a) == s.kind = "func" /\ s.start <= a

Covers(s, a) == s.kind = "func" /\ s.start <= a /\ (s.size = 0 \/ a < s.start + s.size)

SymbolAt(a) ==
    LET over == {s \in symbols : Covers(s, a)} IN
    IF over = {} THEN "none"
    ELSE (CHOOSE s \in over : s.start = Max({o.start : o \in over})).name

PrintGuestAddress(a) == named' = [addr |-> a, symbol |-> SymbolAt(a)]

-----------------------------------------------------------------------------
(* The guest faults: its frame pointer and registers hold anything.        *)
Fault ==
    /\ phase = "runs"
    /\ \E fp \in Addresses : at' = fp
    /\ phase' = "stack" /\ UNCHANGED <<region, symbols, depth, chain, named, touched>>

(* ReportGuestStack follows x29, a pair of words on an even address, as    *)
(* long as it is there and goes up.                                        *)
\* The second word of the pair goes unasked.
Framed_Half(fp) == fp # Null /\ fp % 2 = 0 /\ GuestReadable(fp)

Framed(fp) == fp # Null /\ fp % 2 = 0 /\ GuestReadable(fp) /\ GuestReadable(fp + 1)

StackEnds == phase' = "points" /\ at' = Null /\ depth' = 0

ReportGuestStack ==
    /\ phase = "stack"
    /\ IF depth = MaxDepth \/ ~Framed(at)
       THEN StackEnds /\ UNCHANGED <<named, touched>>
       ELSE \E next, ret \in Addresses :
               /\ touched' = {at, at + 1}
               /\ IF ret = Null THEN StackEnds /\ UNCHANGED named
                  ELSE /\ PrintGuestAddress(ret)
                       /\ IF next <= at THEN StackEnds
                          ELSE at' = next /\ depth' = depth + 1 /\ UNCHANGED phase
    /\ UNCHANGED <<region, symbols, chain>>

(* DumpBytes of what a register points at: less and less, until that much  *)
(* is there.                                                               *)
Readables(a, want) == {n \in {want, want \div 2, want \div 4} : n > 0 /\ ReadableHere(a, n)}
DumpBytes(a, want) ==
    IF Readables(a, want) = {} THEN {} ELSE a .. a + Max(Readables(a, want)) - 1

(* ReportPointedAt: that, and one level down, at an offset asked for.      *)
ReportPointedAt ==
    /\ phase = "points"
    /\ \E r, inner \in Addresses, off \in {0, 1} :
          touched' = IF r = Null THEN {} ELSE DumpBytes(r, 4) \cup
             IF ~ReadableHere(r + off, 1) THEN {}
             ELSE {r + off} \cup IF inner = Null THEN {} ELSE DumpBytes(inner, 4)
    /\ phase' = "reported" /\ named' = NoName /\ UNCHANGED <<region, symbols, at, depth, chain>>

-----------------------------------------------------------------------------
(* ReportPeek: adds an offset to the image's base, then follows the word   *)
(* there and adds the next, and prints words at the end; with a star, also *)
(* what each of them points at.  A null ends it.                           *)
Peek(c) ==
    /\ phase \in {"runs", "reported"}
    /\ phase' = "peeks" /\ chain' = Tail(c) /\ at' = 1 + Head(c)
    /\ depth' = 0 /\ named' = NoName /\ touched' = {}
    /\ UNCHANGED <<region, symbols>>

Hop ==
    /\ phase = "peeks" /\ chain # <<>> /\ at \in Addresses
    /\ \E next \in Addresses :
          /\ touched' = {at}
          /\ IF next = Null THEN phase' = "peeked" /\ UNCHANGED <<at, chain>>
             ELSE at' = next + Head(chain) /\ chain' = Tail(chain) /\ UNCHANGED phase
    /\ UNCHANGED <<region, symbols, depth, named>>

Peeked ==
    /\ phase = "peeks" /\ chain = <<>>
    /\ \E slot \in Addresses :
          touched' = {at} \cup (IF ReadableHere(slot, 1) THEN {slot} ELSE {})
    /\ phase' = "peeked" /\ UNCHANGED <<region, symbols, at, depth, chain, named>>

Next == Fault \/ ReportGuestStack \/ ReportPointedAt \/ (\E c \in Chains : Peek(c)) \/ Hop \/ Peeked

Spec == Init /\ [][Next]_vars

-----------------------------------------------------------------------------
TypeOK ==
    /\ phase \in {"runs", "stack", "points", "reported", "peeks", "peeked"}
    /\ depth \in 0 .. MaxDepth /\ at \in Nat /\ touched \subseteq Nat

(* Until it peeks, a report reads only what is there, whatever the guest   *)
(* left in its registers and frames.                                       *)
ReportsSafely == phase \in {"stack", "points", "reported"} => touched \subseteq Readable

(* An address inside a function is named as that function's, though        *)
(* symbols without a size, and of other things, are laid out around it;    *)
(* and one outside is not, if the symbol has its size.                     *)
NamesFunction ==
    \A s \in symbols :
       LET inside == s.kind = "func" /\ named.addr \in s.start .. s.start + s.length - 1 IN
       /\ inside => named.symbol = s.name
       /\ named.symbol = s.name => inside \/ s.size = 0

(* What ReportPeek says of wild values: they do not crash the host.        *)
WildIsNoCrash == phase \in {"peeks", "peeked"} => touched \subseteq Readable
=============================================================================
