---------------------------- MODULE GuestControl ----------------------------
(***************************************************************************)
(* Control flow of one host thread that runs lifted code: calls out of a   *)
(* shim back into the guest (arc_call_guest), the guest's setjmp and       *)
(* longjmp (arc_jmpbuf_for, arc_longjmp) and traps with and without a      *)
(* recovery point (arc_trap, RunWithRecovery).  All of the state is        *)
(* thread-local, so one thread is the whole story; the three mechanisms    *)
(* meet because each unwinds host frames the others keep records about.    *)
(*                                                                         *)
(* A lifted function is a host function, so `frames` is the host stack, as *)
(* the sequence of activations its functions run in.  An activation is one *)
(* Arm64Ctx with a guest stack: the boot's, or one arc_call_guest made.    *)
(* `sp` stands for everything a setjmp saves, x19-x30 and the stack        *)
(* pointer: a prologue moves all of it one level, an epilogue moves it     *)
(* back.                                                                   *)
(***************************************************************************)
EXTENDS Naturals, Sequences, FiniteSets

CONSTANTS Buffers,     \* the guest's jmp_buf addresses
          Slots,       \* ARC_JMP_SLOTS
          Heap,        \* the stacks malloc can give out
          MaxDepth,    \* bound: host frames
          MaxSp,       \* bound: how deep one guest stack goes
          NoBuf, Boot, None

(* malloc never gives out the boot's stack, and neither null is an address. *)
ControlAssumption ==
    /\ {Slots, MaxDepth, MaxSp} \subseteq Nat \ {0}
    /\ Boot \notin Heap /\ None \notin Heap \cup {Boot} /\ NoBuf \notin Buffers

VARIABLES frames,            \* the activation of each host frame, outermost first
          acts,              \* the live activations: stack and saved registers
          t_callback_stack,  \* the thread's kept stack, None before its first use
          t_callback_busy,
          malloced,          \* stacks malloc gave out and free has not had back
          t_jmps,            \* slot -> the guest buffer, host frame and registers
          t_jmp_next,
          armed,             \* ghost: what the last setjmp of each buffer saw
          t_recovery,        \* is a recovery point armed
          guarded,           \* the thread runs the guest under RunWithRecovery
          ended              \* the process aborted, or the guest thread is over

vars == <<frames, acts, t_callback_stack, t_callback_busy, malloced, t_jmps,
          t_jmp_next, armed, t_recovery, guarded, ended>>
callback == <<t_callback_stack, t_callback_busy, malloced>>
jump     == <<t_jmps, t_jmp_next>>

SlotIds == 0 .. Slots - 1
Top     == Len(acts)
Here    == Len(frames)

TypeOK ==
    /\ acts \in Seq([stack : Heap \cup {Boot}, sp : 1 .. MaxSp])
    /\ frames \in Seq(1 .. Len(acts)) /\ Here <= MaxDepth
    /\ malloced \subseteq Heap
    /\ t_callback_stack \in malloced \cup {None} /\ t_callback_busy \in BOOLEAN
    /\ t_jmps \in [SlotIds -> [guest : Buffers \cup {NoBuf},
                               host : 0 .. MaxDepth, saved : 0 .. MaxSp]]
    /\ t_jmp_next \in SlotIds
    /\ armed \in [Buffers -> [host : 0 .. MaxDepth, saved : 0 .. MaxSp]]
    /\ {t_recovery, guarded, ended} \subseteq BOOLEAN

Init ==
    /\ frames = <<>> /\ acts = <<>>
    /\ t_callback_stack = None /\ t_callback_busy = FALSE /\ malloced = {}
    /\ t_jmps = [i \in SlotIds |-> [guest |-> NoBuf, host |-> 0, saved |-> 0]]
    /\ t_jmp_next = 0
    /\ armed = [b \in Buffers |-> [host |-> 0, saved |-> 0]]
    /\ t_recovery = FALSE /\ guarded \in BOOLEAN /\ ended = FALSE

(* A frame that is gone takes its setjmps with it: host = 0 is "not armed". *)
Forget(depth) ==
    armed' = [b \in Buffers |-> IF armed[b].host > depth
                                THEN [host |-> 0, saved |-> 0] ELSE armed[b]]
Unwind(depth) == /\ frames' = SubSeq(frames, 1, depth)
                 /\ Forget(depth)

(* The host enters the guest: the boot again and again, each time with a   *)
(* recovery point armed; a guest thread once, with none.                   *)
Enter ==
    /\ frames = <<>>
    /\ frames' = <<1>> /\ acts' = <<[stack |-> Boot, sp |-> 1]>>
    /\ t_recovery' = guarded
    /\ UNCHANGED <<callback, jump, armed, guarded, ended>>

(* A lifted function calls another in the same context. *)
Call ==
    /\ frames # <<>> /\ Here < MaxDepth /\ acts[Top].sp < MaxSp
    /\ frames' = Append(frames, Top)
    /\ acts' = [acts EXCEPT ![Top].sp = @ + 1]
    /\ UNCHANGED <<callback, jump, armed, t_recovery, guarded, ended>>

(* ... and returns to a caller in the same context. *)
Return ==
    /\ Here > 1 /\ frames[Here - 1] = Top
    /\ acts' = [acts EXCEPT ![Top].sp = @ - 1]
    /\ Unwind(Here - 1)
    /\ UNCHANGED <<callback, jump, t_recovery, guarded, ended>>

(* The outermost function returns: RunWithRecovery disarms, and a guest    *)
(* thread is over.                                                         *)
Leave ==
    /\ Here = 1
    /\ acts' = <<>> /\ t_recovery' = FALSE /\ ended' = ~guarded
    /\ Unwind(0)
    /\ UNCHANGED <<callback, jump, guarded>>

(* arc_call_guest: the kept stack if nobody has it, a fresh one otherwise. *)
(* When malloc has none to give, the call answers 0 and nothing changes.   *)
TakeStack(s) ==
    IF ~t_callback_busy
    THEN /\ t_callback_busy' = TRUE
         /\ IF t_callback_stack # None
            THEN s = t_callback_stack /\ UNCHANGED <<t_callback_stack, malloced>>
            ELSE /\ s \in Heap \ malloced
                 /\ t_callback_stack' = s /\ malloced' = malloced \cup {s}
    ELSE /\ s \in Heap \ malloced
         /\ malloced' = malloced \cup {s}
         /\ UNCHANGED <<t_callback_stack, t_callback_busy>>

CallGuest(s) ==
    /\ frames # <<>> /\ Here < MaxDepth
    /\ TakeStack(s)
    /\ acts' = Append(acts, [stack |-> s, sp |-> 1])
    /\ frames' = Append(frames, Top + 1)
    /\ UNCHANGED <<jump, armed, t_recovery, guarded, ended>>

\* Clears the flag for a nested call too, whichever stack it had.
EndCallback_AlwaysClears ==
    /\ Here > 1 /\ frames[Here - 1] < Top
    /\ t_callback_busy' = FALSE
    /\ malloced' = malloced \ ({acts[Top].stack} \ {t_callback_stack})
    /\ acts' = SubSeq(acts, 1, Top - 1)
    /\ Unwind(Here - 1)
    /\ UNCHANGED <<t_callback_stack, jump, t_recovery, guarded, ended>>

(* The callback returns into arc_call_guest.  `reused` is a local of the    *)
(* call that remembers which kind of stack it took.                        *)
EndCallback ==
    /\ Here > 1 /\ frames[Here - 1] < Top
    /\ LET reused == acts[Top].stack = t_callback_stack
       IN  IF reused
           THEN t_callback_busy' = FALSE /\ UNCHANGED malloced
           ELSE malloced' = malloced \ {acts[Top].stack} /\ UNCHANGED t_callback_busy
    /\ acts' = SubSeq(acts, 1, Top - 1)
    /\ Unwind(Here - 1)
    /\ UNCHANGED <<t_callback_stack, jump, t_recovery, guarded, ended>>

(* arc_jmpbuf_for: the buffer's own slot, else a slot never used, else the *)
(* next in turn.  A slot, once used, is only ever given to another buffer. *)
Holding(b) == {i \in SlotIds : t_jmps[i].guest = b}
First(S)   == CHOOSE i \in S : \A j \in S : i <= j

\* Without the search for the buffer's own slot.
SlotFor_Unused(b) == IF Holding(NoBuf) # {} THEN First(Holding(NoBuf))
                     ELSE t_jmp_next

SlotFor(b) == IF Holding(b) # {} THEN First(Holding(b))
              ELSE IF Holding(NoBuf) # {} THEN First(Holding(NoBuf))
              ELSE t_jmp_next

(* setjmp, emitted inline: arc_jmp_save the registers, then the host's own *)
(* setjmp captures the frame it is written in.                             *)
Setjmp(b) ==
    LET now == [host |-> Here, saved |-> acts[Top].sp]
        i   == SlotFor(b)
    IN  /\ frames # <<>>
        /\ t_jmps' = [t_jmps EXCEPT ![i] =
                        [guest |-> b, host |-> now.host, saved |-> now.saved]]
        /\ t_jmp_next' = IF Holding(b) \cup Holding(NoBuf) = {}
                         THEN (t_jmp_next + 1) % Slots ELSE t_jmp_next
        /\ armed' = [armed EXCEPT ![b] = now]
        /\ UNCHANGED <<frames, acts, callback, t_recovery, guarded, ended>>

(* arc_trap: to the recovery point if one is armed, else the process ends. *)
(* Neither way is a thread-local of the callback or jump machinery reset.  *)
Trapped ==
    /\ IF t_recovery
       THEN /\ acts' = <<>> /\ t_recovery' = FALSE
            /\ Unwind(0)
            /\ UNCHANGED ended
       ELSE ended' = TRUE /\ UNCHANGED <<frames, acts, armed, t_recovery>>
    /\ UNCHANGED <<callback, jump, guarded>>
Trap == frames # <<>> /\ Trapped

\* Only the host side of the jump.
Restored_HostOnly(i) == acts

(* arc_longjmp: the registers go back into the context of the function     *)
(* that jumps, and the host's longjmp lands in the frame that armed the    *)
(* slot -- which reads the context of *its* activation.  The guest jumps   *)
(* only to buffers whose frame is live: to any other, C defines nothing.   *)
Restored(i) == [acts EXCEPT ![Top].sp = t_jmps[i].saved]

Longjmp(b) ==
    /\ armed[b].host # 0
    /\ IF Holding(b) = {}
       THEN Trapped
       ELSE LET i == First(Holding(b))
            IN  /\ Unwind(t_jmps[i].host)
                /\ acts' = SubSeq(Restored(i), 1, frames[t_jmps[i].host])
                /\ UNCHANGED <<callback, jump, t_recovery, guarded, ended>>

Next ==
    /\ ~ended
    /\ \/ Enter \/ Call \/ Return \/ Leave \/ EndCallback \/ Trap
       \/ \E s \in Heap : CallGuest(s)
       \/ \E b \in Buffers : Setjmp(b) \/ Longjmp(b)

Spec == Init /\ [][Next]_vars

-----------------------------------------------------------------------------
(* No two live guest calls run on the same guest stack, whatever callbacks *)
(* nest and however jumps and traps cut them short: arc_call_guest's busy  *)
(* flag is never clear while the kept stack has frames on it.              *)
NoSharedStack ==
    \A j, k \in 1 .. Top : acts[j].stack = acts[k].stack => j = k

(* A live buffer that still has a slot has one, and it holds what the last *)
(* setjmp of that buffer saw, not an earlier one's frame or registers.     *)
SlotHoldsLatest ==
    \A b \in Buffers : armed[b].host # 0 =>
        /\ Cardinality(Holding(b)) <= 1
        /\ \A i \in Holding(b) : /\ t_jmps[i].host = armed[b].host
                                 /\ t_jmps[i].saved = armed[b].saved

(* A longjmp inside one guest call puts back the registers its setjmp saw, *)
(* so that the function it returns to finds its own frame.                 *)
JumpsBack(b) == /\ Here' = armed[b].host
                /\ acts'[Top'].sp = armed[b].saved
Lands(b) == Longjmp(b) /\ Holding(b) # {}
JumpWithinCallRestores ==
    [][\A b \in Buffers :
          Lands(b) /\ frames[armed[b].host] = Top => JumpsBack(b)]_vars

(* What arm64_context.h says of every longjmp, one out of a callback too.  *)
JumpRestores == [][\A b \in Buffers : Lands(b) => JumpsBack(b)]_vars
=============================================================================
