---------------------------- MODULE SocketFlags ----------------------------
(***************************************************************************)
(* O_NONBLOCK of a socket on Windows: Winsock can be told the mode but not *)
(* asked for it, so fcntl keeps a set of the descriptors that are          *)
(* non-blocking beside the mode itself.  Descriptors are reused as soon as *)
(* they are closed.                                                        *)
(***************************************************************************)
EXTENDS Naturals

CONSTANTS Fds,            \* values of a SOCKET
          Openers         \* threads of the guest

VARIABLES mode,           \* of each socket: Winsock's side
          g_nonblock,     \* the set
          pc, fd, on,     \* per thread, the call it is in
          mixed           \* ghost: descriptors on which calls have overlapped

vars == <<mode, g_nonblock, pc, fd, on, mixed>>

NoFd == 0

FlagsAssumption == NoFd \notin Fds

Init ==
    /\ mode = [s \in Fds |-> "closed"] /\ g_nonblock = {}
    /\ pc = [t \in Openers |-> "idle"] /\ fd = [t \in Openers |-> NoFd]
    /\ on = [t \in Openers |-> FALSE]
    /\ mixed = {}

InCall(s) == \E t \in Openers : fd[t] = s
Leave(t) == pc' = [pc EXCEPT ![t] = "idle"] /\ fd' = [fd EXCEPT ![t] = NoFd]
Overlap(s) == mixed' = IF InCall(s) THEN mixed \cup {s} ELSE mixed

-----------------------------------------------------------------------------
(* Socket                                                                  *)
Socket(t, s) ==
    /\ pc[t] = "idle" /\ mode[s] = "closed"
    /\ mode' = [mode EXCEPT ![s] = "blocking"]
    /\ Overlap(s)
    /\ UNCHANGED <<g_nonblock, pc, fd, on>>

(* Fcntl of F_SETFL: SetNonblocking tells Winsock, then takes the lock and *)
(* keeps the set.                                                          *)
SetNonblocking(t, s, want) ==
    /\ pc[t] = "idle" /\ mode[s] # "closed"
    /\ mode' = [mode EXCEPT ![s] = IF want THEN "nonblocking" ELSE "blocking"]
    /\ pc' = [pc EXCEPT ![t] = "told"] /\ fd' = [fd EXCEPT ![t] = s]
    /\ on' = [on EXCEPT ![t] = want]
    /\ Overlap(s)
    /\ UNCHANGED g_nonblock

Note(t) ==
    /\ pc[t] = "told"
    /\ g_nonblock' = IF on[t] THEN g_nonblock \cup {fd[t]} ELSE g_nonblock \ {fd[t]}
    /\ Leave(t)
    /\ UNCHANGED <<mode, on, mixed>>

(* Close of a socket: the set forgets it, and only then may the descriptor *)
(* be reused.                                                              *)
Close(t, s) ==
    /\ pc[t] = "idle" /\ mode[s] # "closed"
    /\ pc' = [pc EXCEPT ![t] = "closes"] /\ fd' = [fd EXCEPT ![t] = s]
    /\ Overlap(s)
    /\ UNCHANGED <<mode, g_nonblock, on>>

\* Forgets nothing.
Forget_Nothing(t) ==
    /\ pc[t] = "closes"
    /\ pc' = [pc EXCEPT ![t] = "forgot"]
    /\ UNCHANGED <<mode, g_nonblock, fd, on, mixed>>

Forget(t) ==
    /\ pc[t] = "closes"
    /\ g_nonblock' = g_nonblock \ {fd[t]}
    /\ pc' = [pc EXCEPT ![t] = "forgot"]
    /\ UNCHANGED <<mode, fd, on, mixed>>

CloseSocket(t) ==
    /\ pc[t] = "forgot"
    /\ mode' = [mode EXCEPT ![fd[t]] = "closed"]
    /\ Leave(t)
    /\ UNCHANGED <<g_nonblock, on, mixed>>

Next == \E t \in Openers :
    \/ \E s \in Fds : Socket(t, s) \/ Close(t, s)
    \/ \E s \in Fds, want \in BOOLEAN : SetNonblocking(t, s, want)
    \/ Note(t) \/ Forget(t) \/ CloseSocket(t)

Spec == Init /\ [][Next]_vars

-----------------------------------------------------------------------------
TypeOK ==
    /\ mode \in [Fds -> {"closed", "blocking", "nonblocking"}]
    /\ g_nonblock \subseteq Fds /\ mixed \subseteq Fds
    /\ pc \in [Openers -> {"idle", "told", "closes", "forgot"}]
    /\ fd \in [Openers -> Fds \cup {NoFd}] /\ on \in [Openers -> BOOLEAN]

(* What F_GETFL answers is the mode the socket is in, for a socket no call *)
(* is changing, also for one that has the number of a socket another       *)
(* thread closed; unless the title itself let two calls on one socket      *)
(* overlap.                                                                *)
FlagsAgree ==
    \A s \in Fds \ mixed :
       mode[s] # "closed" /\ ~InCall(s) => (s \in g_nonblock <=> mode[s] = "nonblocking")
=============================================================================
