----------------------------- MODULE FrameLoop ------------------------------
(***************************************************************************)
(* The part of arc_boot that runs a title: the entry steps, then a loop    *)
(* that takes the window's events, hands the touches in, issues the steps  *)
(* due at this frame, renders and presents; and Window, whose queue and    *)
(* GL context it uses.  Every call into the guest runs on a thread of its  *)
(* own (call_guest, RunEntry), and a GL context is current on one thread   *)
(* at a time, so it has to be handed over and back around every call.      *)
(*                                                                         *)
(* SDL reports a button only when it changes; that much of it is assumed.  *)
(***************************************************************************)
EXTENDS Naturals, Sequences, SequencesExt

CONSTANTS Steps,         \* the --entry steps: at_frame of each, in order
          FrameLimit,    \* --frames, 0 for none
          HasThreads,    \* whether call_guest may start a thread: Windows
          Places,        \* where a pointer can be
          MaxFrames,     \* bound: iterations that present nothing go on
          MaxEvents      \* bound: touch events in a run

LoopAssumption ==
    /\ Steps \in Seq(Nat) /\ FrameLimit \in Nat /\ HasThreads \in BOOLEAN
    /\ MaxFrames \in Nat /\ MaxEvents \in Nat

VARIABLES pc,             \* where main is
          step,           \* the entry it is at
          call,           \* the call into the guest main waits for
          guest,          \* what runs the guest: "none", "starting", a thread
          holder,         \* the thread the GL context is current on
          denied,         \* ghost: the driver refused this call's MakeCurrent
          alive, open,
          frames, issued,
          resized_, down_, last_, pointers_,
          pressed,        \* the mouse button itself
          heard,          \* ghost: the last touch the guest was handed
          taken,          \* ghost: how often each step was taken
          turns, events   \* the bounds' counters

window == <<resized_, down_, last_, pointers_>>
counts == <<turns, events>>
vars   == <<pc, step, call, guest, holder, denied, alive, open, frames, issued,
            window, pressed, heard, taken, counts>>

StepIds == 1 .. Len(Steps)
NoCall  == [what |-> "none", then |-> "none"]
Touch   == [kind : {"Down", "Move", "Up"}, at : Places, from : Places]

Init ==
    /\ pc = "entries" /\ step = 1 /\ call = NoCall /\ guest = "none"
    /\ holder = "main" /\ denied = FALSE       \* Window::Open leaves it current
    /\ alive = TRUE /\ open = TRUE /\ frames = 0
    /\ issued = [i \in StepIds |-> FALSE]
    /\ resized_ = FALSE /\ down_ = FALSE /\ pointers_ = <<>>
    /\ last_ \in Places
    /\ pressed = FALSE
    /\ heard = [kind |-> "Up", at |-> last_, from |-> last_]
    /\ taken = [i \in StepIds |-> 0]
    /\ turns = 0 /\ events = 0

-----------------------------------------------------------------------------
(* call_guest: main gives the context up and starts a thread; where it     *)
(* cannot, the guest runs on main.                                         *)
Main(at) == pc = at /\ call = NoCall

CallGuest(what, then) ==
    /\ call' = [what |-> what, then |-> then]
    /\ guest' = "starting"
    /\ holder' = IF holder = "main" THEN "none" ELSE holder
    /\ denied' = FALSE

StartOnThread ==
    /\ guest = "starting" /\ HasThreads
    /\ guest' = "entry"
    /\ \E ok \in BOOLEAN :                     \* MakeCurrent
          /\ holder' = IF ok /\ holder = "none" THEN "entry" ELSE holder
          /\ denied' = ~ok
    /\ UNCHANGED <<pc, step, call, alive, open, frames, issued, window, pressed,
                   heard, taken, counts>>

StartOnMain ==                                 \* CreateThread failed, or none
    /\ guest = "starting"
    /\ guest' = "main"
    /\ UNCHANGED <<pc, step, call, holder, denied, alive, open, frames, issued, window,
                   pressed, heard, taken, counts>>

\* A thread that ends with the context current on it.
HandBack_Forgotten == UNCHANGED holder

HandBack == holder' = IF guest = "entry" /\ holder = "entry" THEN "none" ELSE holder

(* The guest returns, traps or faults.  An entry step's failure is only    *)
(* reported; a failure inside the loop ends it.                            *)
GuestReturns ==
    /\ guest \in {"entry", "main"}
    /\ HandBack
    /\ guest' = "none" /\ call' = NoCall
    /\ \E rc \in {0, 1, 2} :
          alive' = (alive /\ (rc = 0 \/ call.what = "step"))
    /\ pc' = call.then
    /\ UNCHANGED <<step, denied, open, frames, issued, window, pressed, heard, taken,
                   counts>>

-----------------------------------------------------------------------------
(* run_entry: a name the image does not export ends the program.           *)
RunEntry(i, then) ==
    /\ taken' = [taken EXCEPT ![i] = @ + 1]
    /\ \/ CallGuest("step", then) /\ UNCHANGED pc
       \/ pc' = "ended" /\ UNCHANGED <<call, guest, holder, denied>>

Entries ==
    /\ Main("entries")
    /\ IF step > Len(Steps)
       THEN /\ pc' = "pump"
            /\ UNCHANGED <<step, call, guest, holder, denied, taken>>
       ELSE /\ step' = step + 1
            /\ IF Steps[step] = 0 THEN RunEntry(step, "entries")
               ELSE UNCHANGED <<pc, call, guest, holder, denied, taken>>
    /\ UNCHANGED <<alive, open, frames, issued, window, pressed, heard, counts>>

(* PumpEvents, one event at a time, while the loop is alive.               *)
Pumping(event) ==
    /\ Main("pump") /\ alive /\ event
    /\ UNCHANGED <<pc, step, call, guest, holder, denied, alive, frames, issued, heard,
                   taken, turns>>

Queue(kind, at, from) ==
    pointers_' = Append(pointers_, [kind |-> kind, at |-> at, from |-> from])

Pressed(at) ==
    /\ ~pressed /\ events < MaxEvents
    /\ pressed' = TRUE /\ events' = events + 1
    /\ down_' = TRUE /\ last_' = at
    /\ Queue("Down", at, at)
    /\ UNCHANGED <<open, resized_>>

Released(at) ==
    /\ pressed /\ pressed' = FALSE
    /\ IF down_ THEN /\ down_' = FALSE /\ last_' = at
                     /\ Queue("Up", at, last_)
       ELSE UNCHANGED <<down_, last_, pointers_>>
    /\ UNCHANGED <<open, resized_, events>>

\* A motion is reported whether or not the button is held.
Moved_Hover(at) ==
    /\ events < MaxEvents /\ events' = events + 1
    /\ last_' = at
    /\ Queue("Move", at, last_)
    /\ UNCHANGED <<open, resized_, down_, pressed>>

Moved(at) ==
    /\ events < MaxEvents /\ events' = events + 1
    /\ IF down_ THEN last_' = at /\ Queue("Move", at, last_)
       ELSE UNCHANGED <<last_, pointers_>>
    /\ UNCHANGED <<open, resized_, down_, pressed>>

Resized ==
    /\ ~resized_ /\ resized_' = TRUE
    /\ UNCHANGED <<open, down_, last_, pointers_, pressed, events>>

Closed ==
    /\ open' = FALSE
    /\ UNCHANGED <<window, pressed, events>>

PumpDone ==
    /\ Main("pump")
    /\ pc' = IF alive /\ open THEN "resize" ELSE "ended"
    /\ open' = TRUE /\ turns' = turns + 1
    /\ turns < MaxFrames
    /\ UNCHANGED <<step, call, guest, holder, denied, alive, frames, issued, window,
                   pressed, heard, taken, events>>

(* TakeResized, and the resize handed in -- if the image has one.          *)
TakeResized ==
    /\ Main("resize")
    /\ resized_' = FALSE
    /\ \/ resized_ /\ CallGuest("resize", "touch") /\ UNCHANGED pc
       \/ pc' = "touch" /\ UNCHANGED <<call, guest, holder, denied>>
    /\ UNCHANGED <<step, alive, open, frames, issued, down_, last_, pointers_, pressed,
                   heard, taken, counts>>

NextPointer == Head(pointers_)

HandTouch ==
    /\ Main("touch") /\ alive /\ pointers_ # <<>>
    /\ heard' = NextPointer
    /\ pointers_' = Tail(pointers_)
    /\ \/ CallGuest("touch", "touch")
       \/ UNCHANGED <<call, guest, holder, denied>>      \* no such function
    /\ UNCHANGED <<pc, step, alive, open, frames, issued, resized_, down_, last_, pressed,
                   taken, counts>>

TouchesDone ==
    /\ Main("touch") /\ (~alive \/ pointers_ = <<>>)
    /\ pc' = IF alive THEN "steps" ELSE "ended"
    /\ step' = 1
    /\ UNCHANGED <<call, guest, holder, denied, alive, open, frames, issued, window,
                   pressed, heard, taken, counts>>

\* Looks at the frame counter alone.
Due_ByFrame(i) == Steps[i] = frames + 1

Due(i) == ~issued[i] /\ Steps[i] = frames + 1

FrameSteps ==
    /\ Main("steps")
    /\ IF step > Len(Steps)
       THEN /\ pc' = "render"
            /\ UNCHANGED <<step, call, guest, holder, denied, issued, taken>>
       ELSE /\ step' = step + 1
            /\ IF Due(step)
               THEN issued' = [issued EXCEPT ![step] = TRUE] /\ RunEntry(step, "steps")
               ELSE UNCHANGED <<pc, call, guest, holder, denied, issued, taken>>
    /\ UNCHANGED <<alive, open, frames, window, pressed, heard, counts>>

Render ==
    /\ Main("render")
    /\ CallGuest("render", "present")
    /\ UNCHANGED <<pc, step, alive, open, frames, issued, window, pressed, heard, taken,
                   counts>>

(* Main takes the context to present, and gives it up again; a frame it    *)
(* cannot present is not counted.                                          *)
Present ==
    /\ Main("present")
    /\ \E ok \in BOOLEAN :
          IF ok /\ holder # "entry"
          THEN frames' = frames + 1 /\ holder' = "none"
          ELSE UNCHANGED <<frames, holder>>
    /\ pc' = IF FrameLimit > 0 /\ frames' >= FrameLimit THEN "ended" ELSE "pump"
    /\ UNCHANGED <<step, call, guest, denied, alive, open, issued, window, pressed, heard,
                   taken, counts>>

Next == \/ Entries \/ StartOnThread \/ StartOnMain \/ GuestReturns
        \/ \E at \in Places : \/ Pumping(Pressed(at)) \/ Pumping(Released(at))
                              \/ Pumping(Moved(at))
        \/ Pumping(Resized) \/ Pumping(Closed) \/ PumpDone
        \/ TakeResized \/ HandTouch \/ TouchesDone \/ FrameSteps \/ Render \/ Present

Spec == Init /\ [][Next]_vars

-----------------------------------------------------------------------------
(* The context is free when a guest call takes it and when main presents,  *)
(* so neither ever finds it current on a thread that is gone; and a guest  *)
(* on a thread of its own has it, unless the driver itself refused.        *)
ContextHandedOver ==
    /\ guest = "starting" => holder = "none"
    /\ call = NoCall => holder # "entry"
    /\ guest = "entry" /\ ~denied => holder = "entry"

(* The guest is handed a touch as one finger makes it: down, moves, up,    *)
(* each from where the one before it ended, whatever the frames did to the *)
(* queue in between.                                                       *)
Follows(p, q) == /\ q.kind = "Down" <=> p.kind = "Up"
                 /\ q.kind # "Down" => q.from = p.at
TouchesFollow ==
    LET all == <<heard>> \o pointers_
    IN  /\ \A k \in 1 .. Len(all) - 1 : Follows(all[k], all[k + 1])
        /\ down_ <=> all[Len(all)].kind # "Up"

(* A step is taken once, at the frame it was given for: before that frame  *)
(* is counted, and not again when a frame could not be presented.          *)
StepsOnce == \A i \in StepIds :
    /\ taken[i] <= 1
    /\ pc # "ended" /\ Steps[i] > 0 => (taken[i] = 1) = issued[i]
    /\ Steps[i] > frames + 1 => taken[i] = 0
    /\ 0 < Steps[i] /\ Steps[i] <= frames => taken[i] = 1

(* What GRAPHICS.md says: the context is current on whichever thread runs  *)
(* the guest.                                                              *)
GuestHasContext == guest \in {"entry", "main"} /\ ~denied => holder = guest
=============================================================================
