------------------------------ MODULE Sockets ------------------------------
(***************************************************************************)
(* Transfers of the title's HTTP client over Winsock: each resolves a      *)
(* name, tries its addresses in turn with a non-blocking socket, waits for *)
(* the connection with poll or select, asks how it went, sends a request   *)
(* and reads the reply.  The client is a Linux one: the numbers it hands   *)
(* over and is handed back are translated, and it makes of an answer what  *)
(* the answer means on Linux.  One of its threads makes every call; the    *)
(* host and the peers do their part whenever they like.                    *)
(***************************************************************************)
EXTENDS Integers, Sequences, TLC

CONSTANTS Transfers,      \* each is also the number of its socket
          SetBits         \* descriptors a guest's fd_set has room for

SocketsAssumption == Transfers \subseteq 0 .. SetBits - 1

VARIABLES waiter,         \* "poll" or "select": what this client waits with
          pc,             \* where each transfer is
          addrs, try,     \* the addresses its name has, and the one it tries
          ready,          \* what the last wait said of it
          sock,           \* Winsock's socket: family and state
          replied,        \* whether the peer has answered the request
          failed          \* ghost: the tries the host or the peer made fail

vars == <<waiter, pc, addrs, try, ready, sock, replied, failed>>

NoSock == [family |-> 0, state |-> "none"]
AfInet == 2
kGuestAfInet6 == 10
HostAfInet6   == 23

Init ==
    /\ waiter \in {"poll", "select"}
    /\ pc = [i \in Transfers |-> "begins"] /\ addrs = [i \in Transfers |-> <<>>]
    /\ try = [i \in Transfers |-> 0] /\ ready = [i \in Transfers |-> {}]
    /\ sock = [i \in Transfers |-> NoSock] /\ replied = [i \in Transfers |-> FALSE]
    /\ failed = [i \in Transfers |-> {}]

-----------------------------------------------------------------------------
(* Numbers that differ.  A set of flags is the set of their bits.          *)
FamilyToHost(f)  == IF f = kGuestAfInet6 THEN HostAfInet6 ELSE f
FamilyToGuest(f) == IF f = HostAfInet6 THEN kGuestAfInet6 ELSE f

HostAi  == 1 :> 1 @@ 2 :> 2 @@ 4 :> 4 @@ 8 :> 2048 @@ 16 :> 256 @@ 32 :> 1024 @@ 1024 :> 8
HostMsg == [b \in {1, 2, 4, 256} |-> IF b = 256 THEN 8 ELSE b]
Translate(bits, table) == {table[b] : b \in bits \cap DOMAIN table}
AiFlagsToHost(flags)  == Translate(flags, HostAi)
MsgFlagsToHost(flags) == Translate(flags, HostMsg)

kGuestSolSocket == 1
HostSolSocket   == 65535
TranslateSockLevel(l) == IF l = kGuestSolSocket THEN HostSolSocket ELSE l
TranslateSockopt(l, name) == IF l = kGuestSolSocket /\ name = 4 THEN "SO_ERROR" ELSE "other"

Kept == {"none", "EINPROGRESS", "EALREADY", "EISCONN", "ECONNREFUSED", "ECONNRESET", "ETIMEDOUT",
         "ENETUNREACH", "EHOSTUNREACH", "EINTR"}
ShimNetErrno(wsa) ==
    CASE wsa = "EWOULDBLOCK" -> "EAGAIN" [] wsa = "ECONNABORTED" -> "EPIPE"
      [] wsa \in Kept -> wsa [] OTHER -> "EINVAL"

kGuestPollIn == 1
kGuestPollOut == 4
HostEvent  == kGuestPollIn :> 256 @@ 2 :> 512 @@ kGuestPollOut :> 16
GuestEvent == 256 :> kGuestPollIn @@ 512 :> kGuestPollIn @@ 16 :> kGuestPollOut
              @@ 1 :> 8 @@ 2 :> 16 @@ 4 :> 32

-----------------------------------------------------------------------------
(* Winsock: what is so of a socket, in WSAPoll's bits, and what is done to *)
(* it by those at the other end.                                           *)
Broken(i) == sock[i].state \in {"refused", "reset"}
Events(i) ==
    (IF Broken(i) THEN {1, 2} ELSE {}) \cup (IF sock[i].state \in {"connected", "reset"} THEN {16} ELSE {})
    \cup (IF sock[i].state = "reset" \/ replied[i] THEN {256} ELSE {})
SoError(i) ==
    CASE sock[i].state = "refused" -> "ECONNREFUSED" [] sock[i].state = "reset" -> "ECONNRESET"
      [] OTHER -> "none"

Becomes(i, from, to) ==
    /\ sock[i].state = from /\ sock' = [sock EXCEPT ![i].state = to]
    /\ failed' = IF to = "connected" THEN failed ELSE [failed EXCEPT ![i] = @ \cup {try[i]}]
    /\ UNCHANGED <<waiter, pc, addrs, try, ready, replied>>
Establish(i) == Becomes(i, "connecting", "connected")
Refuse(i)    == Becomes(i, "connecting", "refused")
Reset(i)     == ~replied[i] /\ Becomes(i, "connected", "reset")
Reply(i) ==
    /\ pc[i] \in {"asked", "awaits"} /\ sock[i].state = "connected" /\ ~replied[i]
    /\ replied' = [replied EXCEPT ![i] = TRUE]
    /\ UNCHANGED <<waiter, pc, addrs, try, ready, sock, failed>>

-----------------------------------------------------------------------------
(* The client's calls.  What it makes of the result: goes on to a label,   *)
(* or, after an error, to the next address.                                *)
Goto(i, label) == pc' = [pc EXCEPT ![i] = label] /\ UNCHANGED try
NextAddress(i) ==
    /\ try' = [try EXCEPT ![i] = @ + 1]
    /\ pc' = [pc EXCEPT ![i] = IF try[i] < Len(addrs[i]) THEN "resolved" ELSE "gaveup"]
Keep(i) == UNCHANGED <<sock, failed>>
Drop(i) == NextAddress(i) /\ sock' = [sock EXCEPT ![i] = NoSock] /\ UNCHANGED failed
Used(i) == ready' = [ready EXCEPT ![i] = {}] /\ UNCHANGED <<waiter, replied>>

(* Getaddrinfo: an address carries its family twice, translated both       *)
(* times; asking for flags Winsock does not know fails.                    *)
Getaddrinfo(i) ==
    /\ pc[i] = "begins"
    /\ IF AiFlagsToHost({32}) \subseteq {HostAi[f] : f \in DOMAIN HostAi}
       THEN \E list \in {<<AfInet>>, <<HostAfInet6, AfInet>>} :
               /\ addrs' = [addrs EXCEPT ![i] = [k \in DOMAIN list |->
                     [ai_family |-> FamilyToGuest(list[k]), sa_family |-> FamilyToGuest(list[k])]]]
               /\ pc' = [pc EXCEPT ![i] = "resolved"] /\ try' = [try EXCEPT ![i] = 1]
       ELSE pc' = [pc EXCEPT ![i] = "gaveup"] /\ UNCHANGED <<addrs, try>>
    /\ Keep(i) /\ Used(i)

Socket(i) ==
    LET family == FamilyToHost(addrs[i][try[i]].ai_family) IN
    /\ pc[i] = "resolved"
    /\ IF family \in {AfInet, HostAfInet6}
       THEN /\ sock' = [sock EXCEPT ![i] = [family |-> family, state |-> "open"]]
            /\ Goto(i, "opened") /\ UNCHANGED failed
       ELSE Drop(i)
    /\ Used(i) /\ UNCHANGED addrs

\* A connection that has only begun is out of resources.
ConnectResult_Plain(wsa) == ShimNetErrno(wsa)

ConnectResult(wsa) == IF wsa = "EWOULDBLOCK" THEN "EINPROGRESS" ELSE ShimNetErrno(wsa)

ToHostSockaddr(a) == FamilyToHost(a.sa_family)

(* Connect: Winsock has begun, or knows at once that it will not.          *)
Connect(i) ==
    /\ pc[i] = "opened"
    /\ \E wsa \in {"EWOULDBLOCK", "ENETUNREACH"} :
          IF ToHostSockaddr(addrs[i][try[i]]) # sock[i].family THEN Drop(i)
          ELSE IF wsa = "EWOULDBLOCK" /\ ConnectResult(wsa) = "EINPROGRESS"
          THEN /\ sock' = [sock EXCEPT ![i].state = "connecting"]
               /\ Goto(i, "connects") /\ UNCHANGED failed
          ELSE /\ NextAddress(i) /\ sock' = [sock EXCEPT ![i] = NoSock]
               /\ failed' = IF wsa = "EWOULDBLOCK" THEN failed
                            ELSE [failed EXCEPT ![i] = @ \cup {try[i]}]
    /\ Used(i) /\ UNCHANGED addrs

(* The waits, for whatever is waited for, of every transfer that waits;    *)
(* they are left once something is so.                                     *)
Waiting == {i \in Transfers : pc[i] \in {"connects", "awaits"} /\ ready[i] = {}}
Awaited(i) == IF pc[i] = "connects" THEN {kGuestPollOut} ELSE {kGuestPollIn}

\* A connection's end is not told.
Polled_NoWrite(i) ==
    LET e == Translate(Awaited(i), HostEvent) \cup {1, 2, 4} IN
    Translate(Events(i) \cap e, GuestEvent) \ {kGuestPollOut}

Polled(i) == LET e == Translate(Awaited(i), HostEvent) \cup {1, 2, 4} IN
             Translate(Events(i) \cap e, GuestEvent)

GuestFdsToHost(guest, nfds) == {fd \in guest : fd < nfds /\ fd < SetBits}
HostFdsToGuest(host) == {fd \in host : fd < SetBits}

(* Select of the transfers that wait for a reply, and of those that wait   *)
(* for a connection, also for its failure.                                 *)
Selected(i) ==
    LET nfds == (CHOOSE n \in Waiting : \A m \in Waiting : m <= n) + 1
        w  == {j \in Waiting : pc[j] = "connects"}
        hr == {fd \in GuestFdsToHost(Waiting \ w, nfds) : 256 \in Events(fd)}
        hw == {fd \in GuestFdsToHost(w, nfds) : 16 \in Events(fd)}
        he == {fd \in GuestFdsToHost(w, nfds) : sock[fd].state = "refused"}
    IN (IF i \in HostFdsToGuest(hr) THEN {kGuestPollIn} ELSE {})
       \cup (IF i \in HostFdsToGuest(hw) THEN {kGuestPollOut} ELSE {})
       \cup (IF i \in HostFdsToGuest(he) THEN {"except"} ELSE {})

Wait ==
    /\ Waiting # {}
    /\ LET said == [i \in Waiting |-> IF waiter = "poll" THEN Polled(i) ELSE Selected(i)] IN
       /\ \E i \in Waiting : said[i] # {}
       /\ ready' = [i \in Transfers |-> IF i \in Waiting THEN said[i] ELSE ready[i]]
    /\ UNCHANGED <<waiter, pc, addrs, try, sock, replied, failed>>

(* Getsockopt of SO_ERROR, once there is news of a connection.             *)
Getsockopt(i) ==
    /\ pc[i] = "connects" /\ ready[i] # {}
    /\ IF /\ TranslateSockLevel(kGuestSolSocket) = HostSolSocket
          /\ TranslateSockopt(kGuestSolSocket, 4) = "SO_ERROR" /\ SoError(i) = "none"
       THEN Goto(i, "sends") /\ Keep(i)
       ELSE Drop(i)
    /\ Used(i) /\ UNCHANGED addrs

(* Send with MSG_NOSIGNAL, and Recv with no flags.                         *)
Answered(i, ok, wsa, flags) ==
    LET err == IF ~(MsgFlagsToHost(flags) \subseteq {1, 2, 4, 8}) THEN "EINVAL" ELSE ShimNetErrno(wsa)
    IN CASE err = "none" -> Goto(i, ok) /\ Keep(i)
         [] err = "EAGAIN" -> Goto(i, "awaits") /\ Keep(i)
         [] OTHER -> Drop(i)

Send(i) ==
    /\ pc[i] = "sends" /\ Answered(i, "asked", SoError(i), {16384})
    /\ Used(i) /\ UNCHANGED addrs

Recv(i) ==
    /\ pc[i] = "asked" \/ (pc[i] = "awaits" /\ ready[i] # {})
    /\ Answered(i, "done", IF SoError(i) # "none" THEN SoError(i)
                           ELSE IF replied[i] THEN "none" ELSE "EWOULDBLOCK", {})
    /\ Used(i) /\ UNCHANGED addrs

-----------------------------------------------------------------------------
Step(i) ==
    Getaddrinfo(i) \/ Socket(i) \/ Connect(i) \/ Getsockopt(i) \/ Send(i) \/ Recv(i)

Next == Wait \/ \E i \in Transfers :
            Step(i) \/ Establish(i) \/ Refuse(i) \/ Reset(i) \/ Reply(i)

(* The client goes on, and every peer accepts or refuses, and answers or   *)
(* is lost, in the end.                                                    *)
Fairness == WF_vars(Wait) /\ \A i \in Transfers :
    WF_vars(Step(i)) /\ WF_vars(Establish(i) \/ Refuse(i)) /\ WF_vars(Reply(i))

Spec == Init /\ [][Next]_vars /\ Fairness

-----------------------------------------------------------------------------
TypeOK ==
    /\ \A i \in Transfers :
          /\ pc[i] \in {"begins", "resolved", "opened", "connects", "sends", "asked", "awaits",
                        "done", "gaveup"}
          /\ sock[i].family \in {0, AfInet, HostAfInet6} /\ try[i] \in 0 .. Len(addrs[i]) + 1
          /\ failed[i] \subseteq 1 .. Len(addrs[i])

(* The client leaves an address only because the host or the peer made the *)
(* try fail: not because a connection in progress, a reply that is not     *)
(* there yet, a family or a flag was told to it in the wrong numbers.      *)
LeavesOnlyFailed ==
    \A i \in Transfers : (1 .. try[i] - 1) \subseteq failed[i] /\ (pc[i] = "gaveup" => try[i] > 0)

(* Every transfer comes to an end, whatever it waits with: what it waits   *)
(* for is reported, failures too.                                          *)
TransfersEnd == <>(\A i \in Transfers : pc[i] \in {"done", "gaveup"})
=============================================================================
