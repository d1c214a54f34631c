------------------------------- MODULE Lifter --------------------------------
(***************************************************************************)
(* tools/lifter.py from the functions a library describes to the lifted    *)
(* program: emit_program lifts what is described, then whatever that       *)
(* refers to and nobody defined, the runs no function covers with it the   *)
(* first time, until nothing more turns up; what is left becomes a stub    *)
(* that traps, and the dispatch table spans every image.  An address is    *)
(* one instruction, a range <<first, end>> excludes its end, and an entry  *)
(* of the PLT is one instruction.                                          *)
(***************************************************************************)
EXTENDS Naturals, Sequences, FiniteSets, FiniteSetsExt, Functions

CONSTANTS Text, Plt,      \* the ranges of .text and .plt
          RECOVER_MAX,
          Bases, Span,    \* arc_image_bases (0: not announced), and how far each image reaches
          Programs        \* what can be lifted: images of code, eh_frame, symbols, plt names, limit

Words(r)  == r[1] .. r[2] - 1
Sections  == {Text, Plt}
Addresses == Words(Text) \cup Words(Plt)

(* An instruction is its kind, of which "odd" is what no emitter handles,  *)
(* and its target if it is a branch that goes to one.                      *)

VARIABLES images,      \* code, eh_frame, symbols and plt names of each, and the limit
          index, stage, \* "lift", "stubs", "written"
          pending, defined, unlifted, referenced, extents, recovered, done,
          shards,      \* the functions written: <<image, range>>, in order
          per_image    \* their dispatch tables and stubs

passVars == <<pending, defined, unlifted, referenced, extents, recovered, done>>
vars == <<images, index, stage, passVars, shards, per_image>>

image == images[index]
code  == image.code

-----------------------------------------------------------------------------
(* What is described: unwind entries, the PLT in entries of one size, and  *)
(* the symbols of defined functions whose extent is known.                 *)
functions_from_eh_frame(im) == {r \in im.eh_frame : r[1] # 0 /\ r[1] < r[2]}
functions_from_plt          == {<<a, a + 1>> : a \in Words(Plt)}
functions_from_symbols(im)  ==
    {<<s.start, s.start + s.size>> :
        s \in {y \in im.symbols : y.func /\ y.defined /\ y.start # 0 /\ y.size # 0}}

\* The union of the pairs, a start as often as its extents differ.
dedupe_starts_Pairs(sources) == UNION Range(sources)

dedupe_starts(sources) ==
    LET starts(S) == {r[1] : r \in S}
        winner(a) == sources[Min({k \in DOMAIN sources : a \in starts(sources[k])})]
    IN  {<<a, Min({r[2] : r \in {q \in winner(a) : q[1] = a}})>> :
            a \in starts(UNION Range(sources))}

Described(im) == dedupe_starts(<<functions_from_eh_frame(im), functions_from_plt,
                                 functions_from_symbols(im)>>)

\* Lists of ranges are sorted, and taken from the front.
First(ranges) ==
    CHOOSE r \in ranges : \A q \in ranges : r[1] < q[1] \/ (r[1] = q[1] /\ r[2] <= q[2])

bytes_at(r) == \E s \in Sections : s[1] <= r[1] /\ r[2] <= s[2]

(* What describes a function keeps to one section, or is of none of them.  *)
WellDescribed(im) ==
    /\ im.code \in [Addresses -> [kind : STRING, to : Nat]]
    /\ im.eh_frame \subseteq Nat \X Nat
    /\ \A y \in im.symbols : y.start \in Nat /\ y.size \in Nat
    /\ \A r \in functions_from_eh_frame(im) \cup functions_from_symbols(im) :
          bytes_at(r) \/ \A s \in Sections : Words(r) \cap Words(s) = {}

LifterAssumption ==
    /\ Text[1] \in Nat \ {0} /\ Text[2] \in Nat /\ Text[1] < Text[2]
    /\ Plt[1] \in Nat \ {0} /\ Plt[2] \in Nat /\ Plt[1] <= Plt[2]
    /\ Text[2] <= Plt[1] /\ Plt[2] <= Span /\ RECOVER_MAX \in Nat \ {0}
    /\ Bases \in Seq(Nat) /\ Span \in Nat
    /\ \A i, j \in DOMAIN Bases : i < j /\ Bases[i] # 0 /\ Bases[j] # 0 =>
          Bases[i] + Span <= Bases[j] \/ Bases[j] + Span <= Bases[i]
    /\ Programs # {}
    /\ \A p \in Programs : /\ p \in Seq(Range(p)) /\ Len(p) \in 1 .. Len(Bases)
                            /\ \A im \in Range(p) : WellDescribed(im)

-----------------------------------------------------------------------------
(* lift_function: the functions one refers to by name, its jumps inside    *)
(* itself being gotos, and whether all of it has an emitter.  setjmp and   *)
(* longjmp are written out where they are called.                          *)
WrittenOut(im, t) == t \in DOMAIN im.plt_names /\ im.plt_names[t] \in {"setjmp", "longjmp"}

Going(im, r, kinds) == {im.code[a].to : a \in {x \in Words(r) : im.code[x].kind \in kinds}}
Calls(im, r) == {t \in Going(im, r, {"bl"}) : ~WrittenOut(im, t)}
Jumps(im, r) == Going(im, r, {"b", "b.cond"}) \ Words(r)

fn_names(im, r) == Calls(im, r) \cup Jumps(im, r)

Lifts(im, r) == \A a \in Words(r) : im.code[a].kind # "odd"

-----------------------------------------------------------------------------
(* uncovered_starts: where each run of words nobody covers begins.         *)
Covered(a) == \E r \in extents : a \in Words(r)
uncovered_starts ==
    UNION {{a \in Words(s) : ~Covered(a) /\ (a = s[1] \/ Covered(a - 1))} : s \in Sections}

(* recover_extents: to the end of the described range a target is in, or   *)
(* else to whatever is known to start next, and never past the next        *)
(* target.  Of the ranges that hold a target only the last to begin is     *)
(* looked at.                                                              *)
Holder(t) ==
    LET before == {r \in extents : r[1] <= t}
        last   == {r \in before : r[1] = Max({q[1] : q \in before})}
    IN  {r \in last : t < r[2] /\ r[2] = Max({q[2] : q \in last})}

\* Only a gap ends where the next thing starts.
EndOf_PastNext(t, section, targets) ==
    IF Holder(t) # {} THEN (CHOOSE r \in Holder(t) : TRUE)[2] ELSE section[2]

EndOf(t, section, targets) ==
    LET ends == IF Holder(t) # {} THEN {r[2] : r \in Holder(t)}
                ELSE {section[2]} \cup {r[1] : r \in {q \in extents : q[1] > t}}
    IN  Min(ends \cup {x \in targets : x > t})

recover_extents(targets) ==
    LET found == UNION {{<<t, EndOf(t, s, targets)>> : t \in targets \cap Words(s)} : s \in Sections}
    IN  {r \in found : r[2] <= r[1] + RECOVER_MAX}

-----------------------------------------------------------------------------
(* emit_program.                                                           *)
StartImage(i) ==
    /\ pending' = Described(images[i]) /\ extents' = pending'
    /\ stage' = IF pending' = {} THEN "stubs" ELSE "lift"
    /\ defined' = {} /\ unlifted' = {} /\ referenced' = {}
    /\ recovered' = 0 /\ done' = 0

AtLimit == image.limit # 0 /\ done >= image.limit

LiftNext ==
    /\ stage = "lift" /\ ~AtLimit /\ pending # {}
    /\ LET r == First(pending)
       IN  IF bytes_at(r)
           THEN /\ done' = done + 1
                /\ defined' = defined \cup {r[1]}
                /\ IF Lifts(image, r)
                   THEN /\ referenced' = (referenced \cup fn_names(image, r)) \ {r[1]}
                        /\ shards' = Append(shards, <<index, r>>)
                        /\ UNCHANGED unlifted
                   ELSE /\ referenced' = referenced \cup fn_names(image, r)
                        /\ unlifted' = unlifted \cup {r[1]}
                        /\ UNCHANGED shards
           ELSE UNCHANGED <<done, defined, referenced, unlifted, shards>>
    /\ pending' = pending \ {First(pending)}
    /\ UNCHANGED <<images, index, stage, extents, recovered, per_image>>

(* The end of a pass.                                                      *)
Recover ==
    /\ stage = "lift" /\ ~AtLimit /\ pending = {}
    /\ LET targets == (referenced \ defined) \cup (IF recovered = 0 THEN uncovered_starts ELSE {})
           found   == recover_extents(targets)
       IN  /\ pending' = found
           /\ extents' = extents \cup found
           /\ recovered' = recovered + Cardinality(found)
           /\ stage' = IF found = {} THEN "stubs" ELSE stage
    /\ UNCHANGED <<images, index, defined, unlifted, referenced, done, shards, per_image>>

StopAtLimit ==
    /\ stage = "lift" /\ AtLimit
    /\ stage' = "stubs"
    /\ UNCHANGED <<images, index, passVars, shards, per_image>>

WriteStubs ==
    /\ stage = "stubs"
    /\ LET stubs == unlifted \cup (referenced \ defined)
       IN  per_image' = Append(per_image, [fns |-> defined \cup stubs, stubs |-> stubs])
    /\ IF index < Len(images)
       THEN index' = index + 1 /\ StartImage(index + 1)
       ELSE stage' = "written" /\ UNCHANGED <<index, passVars>>
    /\ UNCHANGED <<images, shards>>

Init ==
    /\ index = 1 /\ shards = <<>> /\ per_image = <<>>
    /\ pending = Described(images[1]) /\ extents = pending
    /\ stage = IF pending = {} THEN "stubs" ELSE "lift"
    /\ defined = {} /\ unlifted = {} /\ referenced = {} /\ recovered = 0 /\ done = 0

Next == LiftNext \/ Recover \/ StopAtLimit \/ WriteStubs

(* arc_set_image and arc_dispatch_lifted: by the image the address is in,  *)
(* then by its offset; everything else is for arc_dispatch_miss.           *)
Miss == <<0, 0>>
Lookup(i, offset) == IF offset \in per_image[i].fns THEN <<i, offset>> ELSE Miss

Dispatched(target) ==
    LET here == {i \in DOMAIN per_image :
                    Bases[i] # 0 /\ target \in Bases[i] .. Bases[i] + Span - 1}
    IN  IF here = {} THEN Miss ELSE Lookup(Min(here), target - Bases[Min(here)])

-----------------------------------------------------------------------------
TypeOK ==
    /\ index \in DOMAIN images /\ stage \in {"lift", "stubs", "written"}
    /\ \A r \in extents \cup pending : r[1] < r[2]
    /\ unlifted \subseteq defined /\ Cardinality(defined) = done

(* The program links: a function is defined once, lifted or as a stub, and *)
(* what a lifted function names is one of them.                            *)
LinksWhole == stage = "written" =>
    LET Of(i) == {p[2] : p \in {q \in Range(shards) : q[1] = i}}
    IN  /\ \A m, n \in DOMAIN shards :
              shards[m][1] = shards[n][1] /\ shards[m][2][1] = shards[n][2][1] => m = n
        /\ \A i \in DOMAIN images :
              /\ \A r \in Of(i) : r[1] \notin per_image[i].stubs
                                 /\ fn_names(images[i], r) \subseteq per_image[i].fns
              /\ per_image[i].fns = {r[1] : r \in Of(i)} \cup per_image[i].stubs

(* Within the words after a, no longer than a recovered function may be,   *)
(* nothing among others begins and the section goes on.                    *)
TooFar(a, others) == \A s \in Sections : a \in Words(s) =>
    \A x \in a + 1 .. a + RECOVER_MAX : x \in Words(s) /\ x \notin others

(* No call that could be lifted ends in a stub, and no run that nothing    *)
(* described is passed over, unless it is too long (emit_program, whose    *)
(* loop begins if anything at all is described).                           *)
NothingLeft == stage = "stubs" /\ image.limit = 0 /\ Described(image) # {} =>
    LET D     == Described(image)
        Bare  == Addresses \ UNION {Words(r) : r \in D}
        Left  == referenced \ defined
    IN  /\ \A t \in Left \cap Addresses : TooFar(t, Left)
        /\ \A a \in Bare \ defined :
              a - 1 \in Bare \/ \A x \in a .. a + RECOVER_MAX : x \in Bare
        /\ \A r \in D : bytes_at(r) => r[1] \in defined

(* A recovered function keeps to a described function that its start is    *)
(* in, or else runs into none that is described.                           *)
KeepsToItsRange ==
    LET D == Described(image)
    IN  \A r \in extents \ D : \/ \E q \in D : r[1] \in Words(q) /\ r[2] <= q[2]
                               \/ \A q \in D : q[1] \notin Words(r)

(* Every turn of the search defines something new.                         *)
Advances == recovered > 0 =>
    \A r \in pending : bytes_at(r) /\ r[1] \notin defined

(* A branch to the start of a function of an announced image runs that     *)
(* function, and one to anywhere else runs none (arc_dispatch_lifted).     *)
DispatchLands == stage = "written" =>
    \A i \in DOMAIN images : Bases[i] # 0 =>
        \A a \in 0 .. Span - 1 :
            Dispatched(Bases[i] + a) = IF a \in per_image[i].fns THEN <<i, a>> ELSE Miss

LiftsWhole == TypeOK /\ LinksWhole /\ NothingLeft /\ KeepsToItsRange /\ Advances /\ DispatchLands

(* What recover_extents says of a target inside a described range, that it *)
(* is a second entry point into it.  Behind a range nested in that one, it *)
(* runs to whatever begins next.                                           *)
EntersItsRange == \A r \in extents \ Described(image) :
    LET holds == {q \in Described(image) : r[1] \in Words(q)}
    IN  holds # {} => \E q \in holds : r[2] <= q[2]

(* What lifter.py says of a target inside a described range: its function  *)
(* has the tail the two share.                                             *)
TailKept == \A r \in extents \ Described(image) : \A q \in Described(image) :
    r[1] \in Words(q) => r[2] = q[2] \/ image.code[r[2] - 1].kind \in {"b", "ret", "br"}

(* What LIFTER.md says of gaps: they catch everything that is reached only *)
(* as an address in data, whatever stands before it in the gap.            *)
GapsFound == stage = "stubs" /\ image.limit = 0 =>
    \A a \in Words(Text) \ UNION {Words(r) : r \in Described(image)} :
        a > Text[1] /\ image.code[a - 1].kind \in {"b", "ret", "br"} => a \in defined
=============================================================================
