---------------------------- MODULE GuestThreads ----------------------------
(***************************************************************************)
(* pthread_create, join, detach and self in runtime/shim_pthread.cpp, the  *)
(* build that is not Windows.  A guest thread is a slot of the g_threads   *)
(* registry, which is never released, and a host thread.  The creator and  *)
(* the new thread run at once: the creator notes started = true after the  *)
(* host thread exists, and the new thread counts itself alive only when it *)
(* first runs.                                                             *)
(*                                                                         *)
(* A thread is known to the guest when Create stored its id or when it     *)
(* published its own pthread_self().  Threads call for ids greater than    *)
(* their own only, so that joins never form a cycle.                       *)
(***************************************************************************)
EXTENDS Naturals, FiniteSets

CONSTANTS
  MaxThreads,  \* bound on how many slots are handed out
  Ceiling      \* ARC_MAX_THREADS

ASSUME ThreadsAssumption ==
  /\ MaxThreads \in Nat
  /\ Ceiling \in Nat \ {0}

VARIABLES
  made,          \* slots handed out so far: ids 1..made
  g_live_threads,
  life,          \* life[i]: how far the host thread of slot i has come
  started,       \* Thread::started
  detached,      \* Thread::detached
  result,        \* Thread::result; a thread's own result is its id
  reaped,        \* host threads joined or detached
  known,         \* ids the guest can name
  op,            \* what each caller is doing, and for which slot
  claimed,       \* ids a join or detach was called for
  overtook,      \* history: those called for before started was noted
  answer         \* history: answer[i], what a join of i returned

slot == <<started, detached, result, reaped>>
history == <<claimed, overtook, answer>>
vars == <<made, g_live_threads, life, slot, known, op, history>>

Ids == 1..MaxThreads
Main == 0
Callers == Ids \cup {Main}
Lives == {"none", "made", "born", "running", "stored", "ended"}
Steps == {"guest", "create", "start", "note", "out", "join", "copy", "detach"}
None == MaxThreads + 1

TypeOK ==
  /\ made \in 0..MaxThreads
  /\ g_live_threads \in 0..MaxThreads
  /\ life \in [Ids -> Lives]
  /\ started \in [Ids -> BOOLEAN]
  /\ detached \in [Ids -> BOOLEAN]
  /\ result \in [Ids -> Ids \cup {0}]
  /\ reaped \subseteq Ids
  /\ known \subseteq Ids
  /\ op \in [Callers -> Steps \X (Ids \cup {0})]
  /\ claimed \subseteq Ids
  /\ overtook \subseteq Ids
  /\ answer \in [Ids -> Ids \cup {0, None}]

Init ==
  /\ made = 0
  /\ g_live_threads = 0
  /\ life = [i \in Ids |-> "none"]
  /\ started = [i \in Ids |-> FALSE]
  /\ detached = [i \in Ids |-> FALSE]
  /\ result = [i \in Ids |-> 0]
  /\ reaped = {}
  /\ known = {}
  /\ op = [a \in Callers |-> <<"guest", 0>>]
  /\ claimed = {}
  /\ overtook = {}
  /\ answer = [i \in Ids |-> None]

At(a, step) == op[a][1] = step
Of(a) == op[a][2]
Do(a, step, i) == op' = [op EXCEPT ![a] = <<step, i>>]
InGuest(a) ==
  At(a, "guest") /\ a \in {Main} \cup {i \in Ids : life[i] = "running"}

-----------------------------------------------------------------------------
(* The bound: every Create under way finds a slot.                         *)
SlotsLeft == made + Cardinality({a \in Callers : At(a, "create")}) < MaxThreads

(* Create: the ceiling is looked at (a refusal changes nothing) ...        *)
CheckCeiling(a) ==
  /\ InGuest(a)
  /\ g_live_threads < Ceiling
  /\ SlotsLeft
  /\ Do(a, "create", 0)
  /\ UNCHANGED <<made, g_live_threads, life, slot, known, history>>

\* A Join that waits with g_registry held keeps every Obtain waiting.
ObtainSlot_JoinHoldsLock(a) ==
  /\ At(a, "create")
  /\ made < MaxThreads
  /\ \A b \in Callers : ~At(b, "join")
  /\ made' = made + 1
  /\ life' = [life EXCEPT ![made + 1] = "made"]
  /\ Do(a, "start", made + 1)
  /\ UNCHANGED <<g_live_threads, slot, known, history>>

(* ... a slot is obtained ...                                              *)
ObtainSlot(a) ==
  /\ At(a, "create")
  /\ made < MaxThreads
  /\ made' = made + 1
  /\ life' = [life EXCEPT ![made + 1] = "made"]
  /\ Do(a, "start", made + 1)
  /\ UNCHANGED <<g_live_threads, slot, known, history>>

(* ... a host thread is made for it, or cannot be: EAGAIN, and the slot is
   left in the registry ...                                                *)
StartHost(a) ==
  /\ At(a, "start")
  /\ \/ life' = [life EXCEPT ![Of(a)] = "born"] /\ Do(a, "note", Of(a))
     \/ Do(a, "guest", 0) /\ UNCHANGED life
  /\ UNCHANGED <<made, g_live_threads, slot, known, history>>

(* ... t->started = true ...                                               *)
NoteStarted(a) ==
  /\ At(a, "note")
  /\ started' = [started EXCEPT ![Of(a)] = TRUE]
  /\ Do(a, "out", Of(a))
  /\ UNCHANGED <<made, g_live_threads, life, detached, result, reaped, known, history>>

(* ... and the id is stored for the caller.                                *)
StoreId(a) ==
  /\ At(a, "out")
  /\ known' = known \cup {Of(a)}
  /\ Do(a, "guest", 0)
  /\ UNCHANGED <<made, g_live_threads, life, slot, history>>

-----------------------------------------------------------------------------
(* RunGuestThread: count, run the guest's entry point, store what it
   returned, uncount and end.                                              *)
Begin(i) ==
  /\ life[i] = "born"
  /\ life' = [life EXCEPT ![i] = "running"]
  /\ g_live_threads' = g_live_threads + 1
  /\ UNCHANGED <<made, slot, known, op, history>>

PublishSelf(i) ==
  /\ life[i] = "running" /\ At(i, "guest")
  /\ known' = known \cup {i}
  /\ UNCHANGED <<made, g_live_threads, life, slot, op, history>>

StoreResult(i) ==
  /\ life[i] = "running" /\ At(i, "guest")
  /\ life' = [life EXCEPT ![i] = "stored"]
  /\ result' = [result EXCEPT ![i] = i]
  /\ UNCHANGED <<made, g_live_threads, started, detached, reaped, known, op, history>>

End(i) ==
  /\ life[i] = "stored"
  /\ life' = [life EXCEPT ![i] = "ended"]
  /\ g_live_threads' = g_live_threads - 1
  /\ UNCHANGED <<made, slot, known, op, history>>

-----------------------------------------------------------------------------
(* By the guest's contract a thread is joined or detached once.            *)
MayClaim(a, i) == InGuest(a) /\ i \in known \ claimed /\ i >= a

Claim(i) ==
  /\ claimed' = claimed \cup {i}
  /\ overtook' = IF started[i] THEN overtook ELSE overtook \cup {i}
  /\ UNCHANGED answer

\* Join that does not wait when the thread is there to be waited for.
CallJoin_NoWait(a, i) ==
  /\ MayClaim(a, i) /\ i # a
  /\ Claim(i)
  /\ Do(a, "copy", i)
  /\ UNCHANGED <<made, g_live_threads, life, slot, known>>

(* Join waits for the host thread if it was started and is not detached.   *)
CallJoin(a, i) ==
  /\ MayClaim(a, i) /\ i # a
  /\ Claim(i)
  /\ Do(a, IF started[i] /\ ~detached[i] THEN "join" ELSE "copy", i)
  /\ UNCHANGED <<made, g_live_threads, life, slot, known>>

JoinHost(a) ==
  /\ At(a, "join")
  /\ life[Of(a)] = "ended"
  /\ reaped' = reaped \cup {Of(a)}
  /\ started' = [started EXCEPT ![Of(a)] = FALSE]
  /\ Do(a, "copy", Of(a))
  /\ UNCHANGED <<made, g_live_threads, life, detached, result, known, history>>

CopyResult(a) ==
  /\ At(a, "copy")
  /\ answer' = [answer EXCEPT ![Of(a)] = result[Of(a)]]
  /\ Do(a, "guest", 0)
  /\ UNCHANGED <<made, g_live_threads, life, slot, known, claimed, overtook>>

(* Detach notes it, then lets go of a host thread that was started.        *)
CallDetach(a, i) ==
  /\ MayClaim(a, i)
  /\ Claim(i)
  /\ detached' = [detached EXCEPT ![i] = TRUE]
  /\ Do(a, "detach", i)
  /\ UNCHANGED <<made, g_live_threads, life, started, result, reaped, known>>

\* Detach that only notes it.
DetachHost_Forgotten(a) ==
  /\ At(a, "detach")
  /\ Do(a, "guest", 0)
  /\ UNCHANGED <<made, g_live_threads, life, slot, known, history>>

DetachHost(a) ==
  /\ At(a, "detach")
  /\ IF started[Of(a)]
     THEN /\ reaped' = reaped \cup {Of(a)}
          /\ started' = [started EXCEPT ![Of(a)] = FALSE]
     ELSE UNCHANGED <<reaped, started>>
  /\ Do(a, "guest", 0)
  /\ UNCHANGED <<made, g_live_threads, life, detached, result, known, history>>

-----------------------------------------------------------------------------
CallerStep(a) ==
  \/ ObtainSlot(a) \/ StartHost(a) \/ NoteStarted(a) \/ StoreId(a)
  \/ JoinHost(a) \/ CopyResult(a) \/ DetachHost(a)

Next ==
  \/ \E a \in Callers :
       \/ CheckCeiling(a)
       \/ CallerStep(a)
       \/ \E i \in Ids : CallJoin(a, i) \/ CallDetach(a, i)
  \/ \E i \in Ids : Begin(i) \/ PublishSelf(i) \/ StoreResult(i) \/ End(i)

(* Threads are scheduled, and a guest thread's entry point returns, however
   long a run of calls it makes first.                                     *)
Fairness ==
  /\ \A a \in Callers : WF_vars(CallerStep(a))
  /\ \A i \in Ids : WF_vars(Begin(i)) /\ SF_vars(StoreResult(i)) /\ WF_vars(End(i))

Spec == Init /\ [][Next]_vars
FairSpec == Spec /\ Fairness

-----------------------------------------------------------------------------
(* A join answers with what the thread returned, after it ended, unless it
   was called before the creator had noted the thread as started; then, and
   only then, it may return at once with nothing (Join, Create).           *)
JoinDeliversResult ==
  \A i \in Ids : answer[i] # None /\ i \notin overtook =>
    answer[i] = i /\ life[i] = "ended"

(* A thread the guest has joined or detached leaves nothing on the host,
   with the same exception (Join, Detach, Create).                         *)
NoHostThreadLeft ==
  \A i \in claimed \ overtook :
    i \in reaped \/ \E a \in Callers : Of(a) = i /\ op[a][1] \in {"join", "detach"}

(* What the guest is told of a thread and what is left of it (the above).  *)
JoinsSound == TypeOK /\ JoinDeliversResult /\ NoHostThreadLeft

(* Every join returns: no thread waits for one that will not end.          *)
JoinsReturn == \A a \in Callers : At(a, "join") ~> At(a, "guest")
=============================================================================
