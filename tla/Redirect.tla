------------------------------ MODULE Redirect ------------------------------
(***************************************************************************)
(* ARC_SERVER_REDIRECT: a connection of the guest's goes to the one        *)
(* address it names, and a name is answered with that address without      *)
(* being looked up.  The variable is read by whichever thread asks first,  *)
(* with no lock.                                                           *)
(***************************************************************************)
EXTENDS Naturals

CONSTANTS Sockets,        \* threads that connect, each with its socket
          Ports,          \* port numbers; 0 stands for a null service
          TlsPort,        \* kTlsPort
          MaxConnects     \* bound: names asked for and connections made

Hosts     == {"loopback", "redirect", "far"}
Targets   == [family : {"inet"}, host : {"loopback", "redirect"}, port : Ports]
Addresses == [family : {"inet", "inet6"}, host : Hosts, port : Ports]

RedirectAssumption ==
    0 \notin Ports /\ TlsPort \in Ports /\ MaxConnects \in Nat

VARIABLES parsed,         \* whether the variable names an address
          target,         \* the address it names
          looked, have,   \* RedirectTarget's statics
          pc,             \* where each thread is
          meant,          \* the address it means, a name's own for a name
          service,        \* the service it asks a name's address for; 0 if null
          byName,         \* whether the name is yet to be answered
          to,             \* the address it connects to
          informed,       \* ghost: whether the look-up was over when it began
          reached,        \* where it got to
          connects

vars == <<parsed, target, looked, have, pc, meant, service, byName, to, informed,
          reached, connects>>

NoAddress == [family |-> "none", host |-> "none", port |-> 0]

Init ==
    /\ parsed \in BOOLEAN /\ target \in Targets
    /\ looked = FALSE /\ have = FALSE
    /\ pc = [t \in Sockets |-> "idle"]
    /\ meant = [t \in Sockets |-> NoAddress] /\ to = [t \in Sockets |-> NoAddress]
    /\ service = [t \in Sockets |-> 0] /\ byName = [t \in Sockets |-> FALSE]
    /\ informed = [t \in Sockets |-> FALSE]
    /\ reached = [t \in Sockets |-> NoAddress]
    /\ connects = 0

-----------------------------------------------------------------------------
(* The guest connects to an address it was given, or to a name, of which   *)
(* it asks for the address with its port as the service or with none.      *)
(* A name's address is one of IPv4, the only family that is redirected.    *)
Begin(t, a, asked, s) ==
    /\ pc[t] = "idle" /\ connects < MaxConnects
    /\ connects' = connects + 1
    /\ meant' = [meant EXCEPT ![t] = a] /\ to' = [to EXCEPT ![t] = a]
    /\ service' = [service EXCEPT ![t] = s] /\ byName' = [byName EXCEPT ![t] = asked]
    /\ informed' = [informed EXCEPT ![t] = have]
    /\ reached' = [reached EXCEPT ![t] = NoAddress]
    /\ pc' = [pc EXCEPT ![t] = "asks"]
    /\ UNCHANGED <<parsed, target, looked, have>>

ByAddress(t) == \E a \in Addresses : Begin(t, a, FALSE, 0)

ByName(t) == \E a \in Addresses : \E s \in {0, a.port} :
    a.family = "inet" /\ Begin(t, a, TRUE, s)

(* RedirectTarget                                                          *)
Goto(t, label) == pc' = [pc EXCEPT ![t] = label]
errand == <<meant, service, byName, to, informed, reached, connects>>

Ask(t) ==
    /\ pc[t] = "asks"
    /\ looked' = TRUE
    /\ Goto(t, IF looked THEN "told" ELSE "parses")
    /\ UNCHANGED <<parsed, target, have, errand>>

Parse(t) ==
    /\ pc[t] = "parses"
    /\ have' = parsed
    /\ Goto(t, "told")
    /\ UNCHANGED <<parsed, target, looked, errand>>

(* ShouldRedirect, of a RedirectTarget that has one.                       *)
ShouldRedirect(a) ==
    /\ a.host # "loopback" /\ a.family = "inet"
    /\ a.port = TlsPort => target.port = TlsPort

(* Getaddrinfo: answered with the target itself, port and all, or looked   *)
(* up.  The guest puts its own port into the answer to a null service.     *)
\* Answers for TLS too.
Answered_Tls(t) == have /\ meant[t].host # "loopback"

Answered(t) == have /\ service[t] # TlsPort /\ meant[t].host # "loopback"

Answer(t) ==
    IF ~Answered(t) THEN meant[t]
    ELSE IF service[t] = 0 THEN [target EXCEPT !.port = meant[t].port] ELSE target

Getaddrinfo(t) ==
    /\ pc[t] = "told" /\ byName[t]
    /\ to' = [to EXCEPT ![t] = Answer(t)]
    /\ byName' = [byName EXCEPT ![t] = FALSE]
    /\ Goto(t, "asks")
    /\ UNCHANGED <<parsed, target, looked, have, meant, service, informed, reached, connects>>

Connect(t) ==
    /\ pc[t] = "told" /\ ~byName[t]
    /\ reached' = [reached EXCEPT ![t] =
                     IF have /\ ShouldRedirect(to[t]) THEN target ELSE to[t]]
    /\ Goto(t, "idle")
    /\ UNCHANGED <<parsed, target, looked, have, meant, service, byName, to, informed,
                   connects>>

Next == \E t \in Sockets :
    \/ ByAddress(t) \/ ByName(t)
    \/ Ask(t) \/ Parse(t) \/ Getaddrinfo(t) \/ Connect(t)

Spec == Init /\ [][Next]_vars

-----------------------------------------------------------------------------
TypeOK ==
    /\ parsed \in BOOLEAN /\ target \in Targets /\ looked \in BOOLEAN /\ have \in BOOLEAN
    /\ pc \in [Sockets -> {"idle", "asks", "parses", "told"}]
    /\ informed \in [Sockets -> BOOLEAN] /\ byName \in [Sockets -> BOOLEAN]
    /\ \A t \in Sockets :
          /\ reached[t] \in Addresses \cup {NoAddress}
          /\ meant[t] \in Addresses \cup {NoAddress} /\ to[t] \in Addresses \cup {NoAddress}
          /\ service[t] \in {0} \cup Ports

(* Where a connection to a's real address ends.                            *)
Due(a) == IF ShouldRedirect(a) THEN target ELSE a

(* A connection begun once the variable has been read ends where the       *)
(* redirect sends the address the title meant: by address, or by a name    *)
(* asked for together with its port, the answer to a name being only a     *)
(* shorter way to the same end.  TLS keeps its real destination.           *)
EndsWhereDue ==
    \A t \in Sockets :
       /\ informed[t] /\ reached[t] # NoAddress
       /\ service[t] # 0 \/ to[t] = meant[t]
       => reached[t] = Due(meant[t])

(* What Getaddrinfo's comment says of every name: the answer is the same   *)
(* as the address the connection was going to be sent to.                  *)
SameAnswer ==
    \A t \in Sockets :
       informed[t] /\ reached[t] # NoAddress => reached[t] = Due(meant[t])
=============================================================================
