-------------------------- MODULE AbstractMonitor --------------------------
(***************************************************************************)
(* Mutexes and condition variables as their users think of them: a mutex   *)
(* has at most one holder and a level, a wait gives up one level and joins *)
(* the waiting threads in a single step, and a thread stops waiting when   *)
(* it is notified, times out or is woken for no reason.                    *)
(***************************************************************************)
EXTENDS Naturals

CONSTANTS Threads, Mutexes, Conds, NoThread

VARIABLES holder, level, waiting

vars == <<holder, level, waiting>>

Init ==
  /\ holder = [x \in Mutexes |-> NoThread]
  /\ level = [x \in Mutexes |-> 0]
  /\ waiting = [x \in Conds |-> {}]

GiveBack(t, x) ==
  /\ holder[x] = t
  /\ level' = [level EXCEPT ![x] = @ - 1]
  /\ holder' = [holder EXCEPT ![x] = IF level[x] = 1 THEN NoThread ELSE t]

Acquire(t, x) ==
  /\ holder[x] \in {NoThread, t}
  /\ holder' = [holder EXCEPT ![x] = t]
  /\ level' = [level EXCEPT ![x] = @ + 1]
  /\ UNCHANGED waiting

Release(t, x) == GiveBack(t, x) /\ UNCHANGED waiting

Wait(t, x, y) ==
  /\ GiveBack(t, x)
  /\ waiting' = [waiting EXCEPT ![y] = @ \cup {t}]

Wake(y) ==
  /\ \E some \in SUBSET waiting[y] : waiting' = [waiting EXCEPT ![y] = some]
  /\ UNCHANGED <<holder, level>>

Next ==
  \/ \E t \in Threads, x \in Mutexes :
       \/ Acquire(t, x)
       \/ Release(t, x)
       \/ \E y \in Conds : Wait(t, x, y)
  \/ \E y \in Conds : Wake(y)

Spec == Init /\ [][Next]_vars
=============================================================================
