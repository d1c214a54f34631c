---------------------------- MODULE MCRuntimeCore ----------------------------
(***************************************************************************)
(* The parts of the runtime every lifted function relies on, next to one   *)
(* another: exclusives, the control flow of one thread, the tables of host *)
(* functions and the census.  They share no state, so a behaviour          *)
(* exercises one of them, its focus, and leaves the others as they began.  *)
(***************************************************************************)
EXTENDS Exclusive, TLC

CONSTANTS Buffers, JmpSlots, Heap, MaxDepth, MaxSp, NoBuf, Boot, None,
          Registrars, Dispatchers, HostFunctions, TableMax, Null,
          GuestFunctions, CensusSlots, CensusHash, Marker, MaxCalls

VARIABLES focus,
          frames, acts, t_callback_stack, t_callback_busy, malloced, t_jmps,
          t_jmp_next, armed, t_recovery, guarded, ended,
          address, name, count, tablePc, kind, target, index, limit, known, wanted,
          table, started, pending, spinning, calls

controlVars == <<frames, acts, t_callback_stack, t_callback_busy, malloced,
                 t_jmps, t_jmp_next, armed, t_recovery, guarded, ended>>
tableVars   == <<address, name, count, tablePc, kind, target, index, limit, known, wanted>>
censusVars  == <<table, started, pending, spinning, calls>>
allVars     == <<focus, vars, controlVars, tableVars, censusVars>>

Control == INSTANCE GuestControl WITH Slots <- JmpSlots
Tables  == INSTANCE NativeTables
             WITH Addrs <- HostFunctions, Max <- TableMax, pc <- tablePc
Tally   == INSTANCE Census
             WITH Functions <- GuestFunctions, Slots <- CensusSlots, Hash <- CensusHash

ASSUME CoreAssumption ==
    /\ Control!ControlAssumption /\ Tables!TablesAssumption /\ Tally!CensusAssumption

MCInit ==
    /\ focus \in {"exclusives", "control", "tables", "census"}
    /\ Init /\ Control!Init /\ Tables!Init /\ Tally!Init
    /\ focus # "control" => guarded

Steps ==
    \/ focus = "exclusives" /\ Next /\ UNCHANGED <<controlVars, tableVars, censusVars>>
    \/ focus = "control" /\ Control!Next /\ UNCHANGED <<vars, tableVars, censusVars>>
    \/ focus = "tables" /\ Tables!Next /\ UNCHANGED <<vars, controlVars, censusVars>>
    \/ focus = "census" /\ Tally!Next /\ UNCHANGED <<vars, controlVars, tableVars>>

MCNext == UNCHANGED focus /\ Steps

MCSpec == MCInit /\ [][MCNext]_allVars

MCTableMax == [ctx |-> 1, native |-> 2]
MCHash     == [f \in GuestFunctions |-> (f \div 2) % CensusSlots]

Symmetry == Permutations(Buffers) \cup Permutations(Heap) \cup Permutations(HostFunctions)

-----------------------------------------------------------------------------
(* GuestControl: no two live guest calls run on the same guest stack, and  *)
(* a live buffer's slot holds what its last setjmp saw.                    *)
CallsKeepTheirs == Control!TypeOK /\ Control!NoSharedStack /\ Control!SlotHoldsLatest

(* GuestControl: a longjmp inside one guest call puts the registers back.  *)
JumpWithinCallRestores == Control!JumpWithinCallRestores

(* GuestControl, what arm64_context.h says: so does every longjmp.         *)
JumpRestores == Control!JumpRestores

(* NativeTables: a branch finds what was registered before it began, whole *)
(* and in one entry.  Census: every call is in the report, each function   *)
(* on one line.                                                            *)
TablesSound ==
    /\ Tables!TypeOK /\ Tally!TypeOK
    /\ Tables!DispatchFindsKnown /\ Tables!FoundIsWhole /\ Tables!OneEntryEach
    /\ Tally!EveryCallCounted /\ Tally!OneSlotEach

(* NativeTables, what shim.h says: what was handed out is known.           *)
HandedOutIsKnown == Tables!HandedOutIsKnown

(* Census, what arm64_runtime.c says of a full table: it stops learning.   *)
NoteReturns == Tally!NoteReturns
=============================================================================
