------------------------------- MODULE MCHost -------------------------------
(***************************************************************************)
(* What is done around the lifted program, next to one another: how it is  *)
(* made (Lifter, JumpTables) and what its arithmetic does (Arm64Flags,     *)
(* Arm64Lanes, Arm64Floats); the stages of a boot, that is the inside of   *)
(* one Load (ElfImage), the linking of several images (Linking) and the    *)
(* loop that runs the title (FrameLoop); and the services the host keeps   *)
(* state for, JNI handles, preferences, socket flags and the redirect.     *)
(* They share no state, so a behaviour exercises one of them, its focus,   *)
(* and leaves the others as they began.                                    *)
(***************************************************************************)
EXTENDS ElfImage, TLC

CONSTANTS Functions, Needed, Engine, GuestThreads,
          Steps, FrameLimit, HasThreads, Places, MaxFrames, MaxEvents,
          Blocks, Texts, Numerals, MaxAllocs, MaxHeld,
          KeyOrder, Spaced, Values, MaxCalls, MaxCrashes,
          Fds, Ports, TlsPort, MaxConnects,
          TextSection, PltSection, RecoverMax, ImageBases, ImageSpan, Programs,
          SwitchStart, SwitchEnd, Adrs, TableImages, TableShifts, Bytes, Loose, MaxInsns,
          SignBit, And(_, _)

VARIABLES focus,
          world, turn, phase, g_deps, g_lifted_deps, g_mappings, bound, natives,
          g_unresolved, answered,
          pc, step, call, guest, holder, denied, alive, open, frames, issued,
          resized_, down_, last_, pointers_, pressed, heard, taken, turns, events,
          g_arena_used, block, todo, made, filling, held, allocs, overrun,
          g_prefs, g_prefs_loaded, prefsFile, saving, locked, found, stale, answer,
          due, kept, calls, crashes,
          mode, g_nonblock, fcntlPc, fd, on, mixed,
          parsed, target, looked, have, connectPc, meant, service, byName, to,
          informed, reached, connects,
          images, index, lifting, pending, defined, unlifted, referenced, extents,
          recovered, done, shards, per_image,
          words, const, seen, load, pend, pend_reg, reg, path, sight, targets, went, insns,
          nzcv, lastFlags, lop, la, lb, lout, fop, how, fa, fb, acc, fout

linkVars == <<world, turn, phase, g_deps, g_lifted_deps, g_mappings, bound, natives,
              g_unresolved, answered>>
loopVars == <<pc, step, call, guest, holder, denied, alive, open, frames, issued,
              resized_, down_, last_, pointers_, pressed, heard, taken, turns, events>>

handleVars == <<g_arena_used, block, todo, made, filling, held, allocs, overrun>>
prefVars == <<g_prefs, g_prefs_loaded, prefsFile, saving, locked, found, stale, answer,
              due, kept, calls, crashes>>
flagVars == <<mode, g_nonblock, fcntlPc, fd, on, mixed>>
netVars  == <<parsed, target, looked, have, connectPc, meant, service, byName, to,
              informed, reached, connects>>
liftVars == <<images, index, lifting, pending, defined, unlifted, referenced, extents,
              recovered, done, shards, per_image>>
switchVars == <<words, const, seen, load, pend, pend_reg, reg, path, sight, targets, went, insns>>
flagRegs  == <<nzcv, lastFlags>>
laneVars  == <<lop, la, lb, lout>>
floatVars == <<fop, how, fa, fb, acc, fout>>
arithVars == <<flagRegs, laneVars, floatVars>>
toolVars  == <<liftVars, switchVars, arithVars>>

Link == INSTANCE Linking WITH Names <- Functions, next <- turn, stage <- phase
Loop == INSTANCE FrameLoop

Jni   == INSTANCE JniHandles WITH Users <- GuestThreads
Prefs == INSTANCE Preferences WITH Callers <- GuestThreads, file <- prefsFile
Modes == INSTANCE SocketFlags WITH Openers <- GuestThreads \cup {"main"}, pc <- fcntlPc
Net   == INSTANCE Redirect WITH Sockets <- GuestThreads, pc <- connectPc

Lift   == INSTANCE Lifter WITH Text <- TextSection, Plt <- PltSection, RECOVER_MAX <- RecoverMax,
                               Bases <- ImageBases, Span <- ImageSpan, stage <- lifting
Switch == INSTANCE JumpTables WITH Regs <- GuestThreads, Images <- TableImages,
                                   Start <- SwitchStart, End <- SwitchEnd, Shifts <- TableShifts

Flags  == INSTANCE Arm64Flags WITH ctx <- nzcv, last <- lastFlags
Lanes  == INSTANCE Arm64Lanes WITH Bits <- 3, WideBits <- 16, AmountBits <- 4,
                                   op <- lop, a <- la, b <- lb, out <- lout
Floats == INSTANCE Arm64Floats WITH Mags <- {0, 2, 4, 6, 14, 16, 18, 20, 30, 32, 34, 2000},
                                    Infinite <- 2000, Payloads <- {1, 2},
                                    Addends <- {0, 4, 16}, IntBits <- 3,
                                    op <- fop, a <- fa, b <- fb, out <- fout

ASSUME HostAssumption ==
    /\ Flags!FlagsAssumption /\ Lanes!LanesAssumption /\ Floats!FloatsAssumption
    /\ Lift!LifterAssumption /\ Switch!TablesAssumption
    /\ Link!LinkingAssumption /\ Loop!LoopAssumption /\ Jni!HandlesAssumption
    /\ Prefs!PreferencesAssumption /\ Modes!FlagsAssumption /\ Net!RedirectAssumption

(* Files: relocations of every kind over three words, in either table, the *)
(* same word and the same name more than once.                             *)
Name(k)   == [name |-> k, defined |-> FALSE, value |-> 0]
Word(t, o, s, a) == [type |-> t, offset |-> o, sym |-> s, addend |-> a]
Own       == [name |-> "own", defined |-> TRUE, value |-> 1]
InRela    == {Word("RELATIVE", 0, Own, 2), Word("SYMBOL", 0, Name("a"), 0),
              Word("SYMBOL", 1, Name("b"), 0), Word("SYMBOL", 1, Own, 0)}
InJmprel  == {Word("SYMBOL", 1, Name("a"), 0), Word("SYMBOL", 2, Name("b"), 0),
              Word("SYMBOL", 0, Name("c"), 1), Word("other", 2, Own, 0)}
UpTo(S, n) == UNION {[1 .. k -> S] : k \in 0 .. n}
GoodFile  == [headers |-> TRUE, whole |-> TRUE, tables |-> TRUE,
              words |-> [o \in 0 .. 2 |-> o], rela |-> <<>>, jmprel |-> <<>>,
              init_arr |-> <<0, 1>>]
MCNames   == {"a", "b", "c", "own"}
MCFiles   == {[GoodFile EXCEPT !.rela = r, !.jmprel = j] :
                 r \in UpTo(InRela, 2), j \in UpTo(InJmprel, 2)}
             \cup {[GoodFile EXCEPT ![part] = FALSE] :
                      part \in {"headers", "whole", "tables"}}
MCNeeded  == <<"libA", "libB">>
MCSteps   == <<0, 2, 1, 2>>
MCKeys    == <<"DLCSource", "Last Login", "Token">>
MCAnd(a, b) ==
    LET bits[x \in Nat, y \in Nat] ==
            IF x = 0 \/ y = 0 THEN 0 ELSE (x % 2) * (y % 2) + 2 * bits[x \div 2, y \div 2]
    IN  bits[a, b]
MCText    == <<1, 9>>
MCPlt     == <<9, 11>>
MCBases   == <<20, 40>>
MCTables  == {<<3, 5, -1, 1>>}

(* Libraries of eight words and a PLT: the first four of five kinds,       *)
(* described by unwind entries and symbols that agree, nest, overlap or    *)
(* leave gaps; some lifted up to a limit, some with a second library.  In  *)
(* one, both gaps refer to what follows them, the longer only piecewise.   *)
Insn(k)      == [kind |-> k, to |-> 0]
Branch(k, t) == [kind |-> k, to |-> t]
Words4  == [1 .. 4 -> {Insn("ret"), Insn("odd"), Branch("bl", 3),
                       Branch("b.cond", 4), Branch("b", 2)}]
Sym(s, n) == [func |-> TRUE, defined |-> TRUE, start |-> s, size |-> n]
Said(unwind, syms) == [eh_frame |-> unwind, symbols |-> syms]
Sayings == {Said({}, {}), Said({<<1, 5>>}, {}), Said({<<1, 5>>, <<2, 3>>}, {Sym(2, 2)}),
            Said({<<1, 2>>}, {[Sym(3, 1) EXCEPT !.defined = FALSE], [Sym(2, 1) EXCEPT !.func = FALSE]}),
            Said({<<2, 3>>}, {Sym(2, 2), Sym(1, 2)}), Said({<<1, 3>>}, {Sym(4, 1)})}
Library(four, said, most) ==
    [code |-> [a \in 1 .. 10 |-> IF a <= 4 THEN four[a] ELSE Insn("br")],
     eh_frame |-> said.eh_frame \cup {<<5, 9>>}, symbols |-> said.symbols,
     plt_names |-> 10 :> "setjmp", limit |-> most]
Plain     == Library([a \in 1 .. 4 |-> Branch("bl", 10)], Said({<<1, 2>>, <<3, 5>>}, {}), 0)
Nested    == [Plain EXCEPT !.code[1] = Branch("bl", 5), !.code[2] = Branch("bl", 7),
                           !.eh_frame = {<<3, 6>>, <<4, 5>>}]
MCPrograms == {<<Library(w, s, 0)>> : w \in Words4, s \in Sayings} \cup {<<Nested>>}
              \cup {<<Library([Plain.code EXCEPT ![2] = i], s, n), Plain>> :
                       i \in {Insn("odd"), Branch("b", 3)}, s \in Sayings, n \in {0, 1, 3}}

Operands(at) == IF at = "floats" THEN Floats!Floats ELSE {Floats!Num(FALSE, 0)}

(* Worlds in which two functions matter: every way of exporting, shipping  *)
(* and lifting them, every import asked for.                               *)
MCInit ==
    /\ focus \in {"image", "link", "loop", "handles", "prefs", "flags", "net", "lifter",
                  "switches", "conditions", "lanes", "floats"}
    /\ images \in (IF focus = "lifter" THEN Programs ELSE {CHOOSE p \in Programs : TRUE}) /\ Lift!Init
    /\ IF focus = "image" THEN Init ELSE Init /\ file = GoodFile
    /\ IF focus = "link"
       THEN /\ world \in [shipped : SUBSET Link!Deps, lifted : SUBSET Link!Deps,
                          exports : [Link!Images -> SUBSET Functions],
                          imports : [Link!Images -> SUBSET Functions],
                          shim : SUBSET Functions, overrides : {{}, {"f"}}]
            /\ \A i \in Link!Images : world.exports[i] \cap world.imports[i] = {}
            /\ world.imports[Engine] = Functions /\ (world.overrides = {} \/ world.shim = {})
            /\ world.lifted \subseteq world.shipped
            /\ \A i \in Link!Deps \ world.shipped : world.exports[i] = {} /\ world.imports[i] = {}
       ELSE world = [shipped |-> {}, lifted |-> {}, exports |-> [i \in Link!Images |-> {}],
                     imports |-> [i \in Link!Images |-> {}], shim |-> {}, overrides |-> {}]
    /\ Link!Start /\ Loop!Init
    /\ last_ = CHOOSE p \in Places : TRUE
    /\ Jni!Init /\ Prefs!Init /\ Modes!Init /\ Net!Init
    /\ focus # "net" => parsed = FALSE /\ target = [family |-> "inet", host |-> "loopback", port |-> TlsPort]
    /\ words \in (IF focus = "switches" THEN TableImages ELSE {CHOOSE w \in TableImages : TRUE})
    /\ reg \in [GuestThreads -> IF focus = "switches" THEN Loose ELSE {CHOOSE v \in Loose : TRUE}]
    /\ fa \in Operands(focus) /\ fb \in Operands(focus)
    /\ Switch!Init /\ Flags!Init /\ Lanes!Init /\ Floats!Init

serviceVars == <<handleVars, prefVars, flagVars, netVars>>

Boots ==
    /\ UNCHANGED <<serviceVars, toolVars>>
    /\ \/ focus = "image" /\ Next /\ UNCHANGED <<linkVars, loopVars>>
       \/ focus = "link" /\ Link!Next /\ UNCHANGED <<vars, loopVars>>
       \/ focus = "loop" /\ Loop!Next /\ UNCHANGED <<vars, linkVars>>

Serves ==
    /\ UNCHANGED <<vars, linkVars, loopVars, toolVars>>
    /\ \/ focus = "handles" /\ Jni!Next /\ UNCHANGED <<prefVars, flagVars, netVars>>
       \/ focus = "prefs" /\ Prefs!Next /\ UNCHANGED <<handleVars, flagVars, netVars>>
       \/ focus = "flags" /\ Modes!Next /\ UNCHANGED <<handleVars, prefVars, netVars>>
       \/ focus = "net" /\ Net!Next /\ UNCHANGED <<handleVars, prefVars, flagVars>>

Lifts ==
    /\ UNCHANGED <<vars, linkVars, loopVars, serviceVars>>
    /\ \/ focus = "lifter" /\ Lift!Next /\ UNCHANGED <<switchVars, arithVars>>
       \/ focus = "switches" /\ Switch!Next /\ UNCHANGED <<liftVars, arithVars>>

Computes ==
    /\ UNCHANGED <<vars, linkVars, loopVars, serviceVars, liftVars, switchVars>>
    /\ \/ focus = "conditions" /\ Flags!Next /\ UNCHANGED <<laneVars, floatVars>>
       \/ focus = "lanes" /\ Lanes!Next /\ UNCHANGED <<flagRegs, floatVars>>
       \/ focus = "floats" /\ Floats!Next /\ UNCHANGED <<flagRegs, laneVars>>

MCNext == UNCHANGED focus /\ (Boots \/ Serves \/ Lifts \/ Computes)

MCSpec == MCInit /\ [][MCNext]_<<focus, vars, linkVars, loopVars, serviceVars, toolVars>>

Symmetry == Permutations(GuestThreads)

-----------------------------------------------------------------------------
(* Linking: every binding leads somewhere the runtime knows, nothing it    *)
(* would call as host code lies in guest code, whatever dlsym hands out    *)
(* later, and the engine's imports come from where they should.            *)
EveryImportKnown == Link!EveryImportKnown /\ Link!EngineBinding /\ Link!AnswersKnown

(* Linking, what arc_boot.cpp says of every image's imports.               *)
ShippedWins == Link!ShippedWins

(* FrameLoop: the GL context is handed over and back around every call.    *)
ContextHandedOver == Loop!ContextHandedOver

(* FrameLoop: the guest hears of touches as one finger makes them, and     *)
(* takes each step once, at its frame.                                     *)
EventsInOrder == Loop!TouchesFollow /\ Loop!StepsOnce

(* FrameLoop, what GRAPHICS.md says: the guest's thread has the context.   *)
GuestHasContext == Loop!GuestHasContext

(* JniHandles: a handle reads as what it was made for until the arena has  *)
(* gone round.                                                             *)
HandlesSound == Jni!TypeOK /\ Jni!HandlesReadAsMeant

(* Preferences: a title reads back what it stored.                         *)
ReadsBack == Prefs!TypeOK /\ Prefs!ReadsBack

(* SocketFlags: what F_GETFL answers is the mode the socket is in.         *)
(* Redirect: connections end where the redirect sends what the title meant.*)
ConnectionsDue == Modes!TypeOK /\ Modes!FlagsAgree /\ Net!TypeOK /\ Net!EndsWhereDue

(* Lifter: the program links, nothing that could be lifted is left a stub, *)
(* no function takes in another's words, and branches find functions.      *)
LiftsWhole == Lift!LiftsWhole

(* Lifter, what lifter.py says of a function inside a described range.     *)
TailKept == Lift!TailKept

(* JumpTables: a switch lands in its own function, through a table or to a *)
(* computed address, unless the lifter lost what it goes through to code   *)
(* that stands between and is not run.                                     *)
SwitchLands == Switch!SwitchLands

(* Arm64Flags: after a comparison the conditions are the relations they    *)
(* are named for; carries chain and overflow is exact.                     *)
FlagsExact == Flags!ComparisonDecides /\ Flags!CarryIsExact /\ Flags!OverflowIsExact

(* Arm64Lanes: lanes shift and saturate as the architecture defines.       *)
(* Arm64Floats: comparisons, extremes, invalid operations, fused sums and  *)
(* conversions are the architecture's and not C's.                         *)
NumbersAsDefined ==
    Lanes!SaturatesAsDefined /\ Lanes!ShiftsAsDefined /\ Floats!FloatsAsDefined
=============================================================================
