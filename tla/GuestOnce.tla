----------------------------- MODULE GuestOnce -----------------------------
(***************************************************************************)
(* pthread_once in runtime/shim_pthread.cpp.  The control word holds the   *)
(* state machine itself: 0 untouched, 1 running, 2 done.  The initialiser  *)
(* is guest code dispatched through arc_call_guest(); it may call          *)
(* pthread_once on another control, and it may trap.  A trap on a thread   *)
(* with a recovery point abandons everything the thread was doing          *)
(* (arc_trap's longjmp); on any other thread it ends the process.          *)
(***************************************************************************)
EXTENDS Naturals, Sequences

CONSTANTS
  Threads,
  Recovering,  \* the threads that run with a recovery point armed
  Controls     \* the pthread_once_t words, numbered from 1

OnceAssumption ==
  /\ Recovering \subseteq Threads
  /\ \A o \in Controls : o \in Nat /\ o > 0

VARIABLES
  control,   \* control[o]: the word
  running,   \* running[t]: the controls whose initialisers t is inside, outermost first
  spinning,  \* spinning[t]: the control t is waiting for, or 0
  ran,       \* history: how often each initialiser was entered
  passed,    \* history: the controls some call returned for
  trapped,   \* history: the controls whose initialiser was abandoned
  aborted    \* the process is gone

vars == <<control, running, spinning, ran, passed, trapped, aborted>>

TypeOK ==
  /\ control \in [Controls -> {0, 1, 2}]
  /\ running \in [Threads -> Seq(Controls)]
  /\ spinning \in [Threads -> Controls \cup {0}]
  /\ ran \in [Controls -> Nat]
  /\ passed \subseteq Controls
  /\ trapped \subseteq Controls
  /\ aborted \in BOOLEAN

Init ==
  /\ control = [o \in Controls |-> 0]
  /\ running = [t \in Threads |-> <<>>]
  /\ spinning = [t \in Threads |-> 0]
  /\ ran = [o \in Controls |-> 0]
  /\ passed = {}
  /\ trapped = {}
  /\ aborted = FALSE

Runs(t) == ~aborted /\ spinning[t] = 0
Innermost(t) == running[t][Len(running[t])]

(* The guest's contract: an initialiser calls pthread_once only on later
   controls, so no two threads, and no thread and itself, wait in a cycle. *)
MayCall(t, o) == \A i \in 1..Len(running[t]) : o > running[t][i]

\* Test and set as two operations would let two callers in.
Once_Unlocked(t, o) ==
  /\ Runs(t) /\ MayCall(t, o)
  /\ control[o] # 2
  /\ control' = [control EXCEPT ![o] = 1]
  /\ running' = [running EXCEPT ![t] = Append(@, o)]
  /\ ran' = [ran EXCEPT ![o] = @ + 1]
  /\ UNCHANGED <<spinning, passed, trapped, aborted>>

(* compare_exchange from 0 to 1 succeeds: enter the initialiser.           *)
Once(t, o) ==
  /\ Runs(t) /\ MayCall(t, o)
  /\ control[o] = 0
  /\ control' = [control EXCEPT ![o] = 1]
  /\ running' = [running EXCEPT ![t] = Append(@, o)]
  /\ ran' = [ran EXCEPT ![o] = @ + 1]
  /\ UNCHANGED <<spinning, passed, trapped, aborted>>

(* It fails: spin until the word reads 2.                                  *)
Spin(t, o) ==
  /\ Runs(t) /\ MayCall(t, o)
  /\ control[o] # 0
  /\ spinning' = [spinning EXCEPT ![t] = o]
  /\ UNCHANGED <<control, running, ran, passed, trapped, aborted>>

SpinDone(t) ==
  /\ ~aborted /\ spinning[t] # 0
  /\ control[spinning[t]] = 2
  /\ passed' = passed \cup {spinning[t]}
  /\ spinning' = [spinning EXCEPT ![t] = 0]
  /\ UNCHANGED <<control, running, ran, trapped, aborted>>

\* The initialiser returns and the word is left at 1.
Finish_NotStored(t) ==
  /\ Runs(t) /\ running[t] # <<>>
  /\ passed' = passed \cup {Innermost(t)}
  /\ running' = [running EXCEPT ![t] = SubSeq(@, 1, Len(@) - 1)]
  /\ UNCHANGED <<control, spinning, ran, trapped, aborted>>

(* The initialiser returns; state->store(2); Once returns.                 *)
Finish(t) ==
  /\ Runs(t) /\ running[t] # <<>>
  /\ control' = [control EXCEPT ![Innermost(t)] = 2]
  /\ passed' = passed \cup {Innermost(t)}
  /\ running' = [running EXCEPT ![t] = SubSeq(@, 1, Len(@) - 1)]
  /\ UNCHANGED <<spinning, ran, trapped, aborted>>

(* The initialiser traps.  Nothing puts the words it was running back.     *)
Trap(t) ==
  /\ Runs(t) /\ running[t] # <<>>
  /\ IF t \in Recovering
     THEN /\ running' = [running EXCEPT ![t] = <<>>]
          /\ trapped' = trapped \cup {running[t][i] : i \in 1..Len(running[t])}
          /\ UNCHANGED aborted
     ELSE aborted' = TRUE /\ UNCHANGED <<running, trapped>>
  /\ UNCHANGED <<control, spinning, ran, passed>>

Next ==
  \E t \in Threads :
    \/ \E o \in Controls : Once(t, o) \/ Spin(t, o)
    \/ SpinDone(t)
    \/ Finish(t)
    \/ Trap(t)

(* Threads are scheduled.  An initialiser ends one way or the other, however
   often it calls pthread_once itself: hence strong fairness.              *)
Fairness ==
  \A t \in Threads : WF_vars(SpinDone(t)) /\ SF_vars(Finish(t) \/ Trap(t))

Spec == Init /\ [][Next]_vars
FairSpec == Spec /\ Fairness

-----------------------------------------------------------------------------
(* However many threads call pthread_once on a control, its initialiser is
   entered at most once, by one of them (the compare_exchange in Once).    *)
RunsAtMostOnce == \A o \in Controls : ran[o] <= 1

(* No call returns before the initialiser has run to its end: a caller that
   lost the race may rely on what the winner set up (Once).                *)
ReturnsAfterInit ==
  \A o \in passed :
    /\ ran[o] > 0
    /\ o \notin trapped
    /\ \A t \in Threads : \A i \in 1..Len(running[t]) : running[t][i] # o

(* A caller of pthread_once(o) is kept waiting for ever only by a trap in
   o's initialiser or in one that it waits for, or by the process's end.   *)
OnlyTrapsStrand ==
  \A t \in Threads, o \in Controls :
    spinning[t] = o ~> \/ spinning[t] = 0
                       \/ \E p \in trapped : p >= o
                       \/ aborted
=============================================================================
