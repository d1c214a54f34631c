-------------------------------- MODULE Zlib --------------------------------
(***************************************************************************)
(* zlib's streams, of which the guest's struct is not the host's: a host   *)
(* stream is kept beside each guest one, in its state field, and what a    *)
(* call reads or reports is copied across.  Pointers are the bytes before  *)
(* them; each call of zlib takes some of what it was given and puts out    *)
(* some of what it has where there is room; its totals are left out.       *)
(***************************************************************************)
EXTENDS Integers, FiniteSets

CONSTANTS Streams,        \* z_streams of the guest
          Hosts,          \* bound: blocks calloc has for host streams, numbered from 1
          Data            \* bound: bytes of data

ZlibAssumption == Streams # {} /\ Data \in Nat /\ Hosts \subseteq Nat \ {0}

VARIABLES guest, host,    \* the structs: of each stream, and of each block
          opens,          \* per guest stream, what its program is doing
          meant, begun,   \* ghosts, per stream: the fields as its program has set them, and
                          \* whether it began anew since;
          differed        \* and of a call that just got other fields, that they were "begun"
                          \* anew, or "others"

vars == <<guest, host, opens, meant, begun, differed>>

NoHost == 0
Fields == [next_in |-> 0, avail_in |-> 0, next_out |-> 0, avail_out |-> 0]
Free   == [Fields EXCEPT !.next_in = -1]      \* not a stream

Init ==
    /\ guest = [s \in Streams |-> [io |-> Fields, state |-> NoHost]]
    /\ host = [h \in Hosts |-> Free]
    /\ opens = [s \in Streams |-> "closed"]
    /\ meant = [s \in Streams |-> Fields]
    /\ begun = [s \in Streams |-> FALSE] /\ differed = {}

-----------------------------------------------------------------------------
HostOf(s) == guest[s].state

\* Only the input is copied.
PushIn_InputOnly(g, h) == [h EXCEPT !.next_in = g.next_in, !.avail_in = g.avail_in]

PushIn(g, h) == [h EXCEPT !.next_in = g.next_in, !.avail_in = g.avail_in,
                          !.next_out = g.next_out, !.avail_out = g.avail_out]

PullOut(g, h) == h

(* Attach: a block of zeroes.  Detach frees it.                            *)
Attach(h) == host[h] = Free /\ \A k \in Hosts : k < h => host[k] # Free

(* InflateInit2 and DeflateInit2 of zlib succeed or refuse what they were  *)
(* asked for; the stream is attached either way.                           *)
InflateInit2(s) ==
    /\ opens[s] = "closed" /\ HostOf(s) = NoHost
    /\ \E h \in Hosts, ok \in BOOLEAN :
          /\ Attach(h)
          /\ host' = [host EXCEPT ![h] = Fields]
          /\ guest' = [guest EXCEPT ![s] = [io |-> PullOut(@.io, Fields), state |-> h]]
          /\ opens' = [opens EXCEPT ![s] = IF ok THEN "open" ELSE "refused"]
    /\ begun' = [begun EXCEPT ![s] = TRUE] /\ UNCHANGED meant /\ differed' = {}

(* The program goes on where it was, with more bytes and some room.        *)
Feed(s) ==
    /\ \E in \in 0 .. Data - meant[s].next_in, room \in 0 .. Data - meant[s].next_out :
          LET set(io) == [io EXCEPT !.next_in = meant[s].next_in, !.avail_in = in,
                                    !.next_out = meant[s].next_out, !.avail_out = room]
          IN /\ guest' = [guest EXCEPT ![s].io = set(@)]
             /\ meant' = [meant EXCEPT ![s] = set(@)]
    /\ begun' = [begun EXCEPT ![s] = FALSE]
    /\ differed' = {} /\ UNCHANGED <<host, opens>>

(* Inflate and Deflate: zlib works on the host's struct.  On a stream that *)
(* was refused it does nothing.                                            *)
Took(h, a, b) ==
    [h EXCEPT !.next_in = @ + a, !.avail_in = @ - a, !.next_out = @ + b, !.avail_out = @ - b]
Works(h) == {Took(h, a, b) : a \in 0 .. h.avail_in, b \in 0 .. h.avail_out}

Inflate(s) ==
    LET h == PushIn(guest[s].io, host[HostOf(s)]) IN
    /\ HostOf(s) # NoHost
    /\ \E w \in IF opens[s] = "refused" THEN {h} ELSE Works(h) :
          /\ host' = [host EXCEPT ![HostOf(s)] = w]
          /\ guest' = [guest EXCEPT ![s].io = PullOut(@, w)]
          /\ meant' = [meant EXCEPT ![s] = w]
    /\ differed' = IF h = meant[s] THEN {} ELSE {IF begun[s] THEN "begun" ELSE "others"}
    /\ begun' = [begun EXCEPT ![s] = FALSE] /\ UNCHANGED opens

(* InflateReset and DeflateReset: from the beginning of another stream.    *)
InflateReset(s) ==
    /\ HostOf(s) # NoHost /\ opens[s] = "open"
    /\ guest' = [guest EXCEPT ![s].io = PullOut(@, host[HostOf(s)])]
    /\ begun' = [begun EXCEPT ![s] = TRUE] /\ differed' = {} /\ UNCHANGED <<host, opens, meant>>

\* The guest's stream still names the block.
Detach_Keeps(g) == g

Detach(g) == [g EXCEPT !.state = NoHost]

InflateEnd(s) ==
    /\ HostOf(s) # NoHost /\ opens[s] = "open"
    /\ host' = [host EXCEPT ![HostOf(s)] = Free]
    /\ guest' = [guest EXCEPT ![s] = Detach(@)]
    /\ opens' = [opens EXCEPT ![s] = "ended"] /\ differed' = {}
    /\ UNCHANGED <<meant, begun>>

(* Its program has another use for the struct: after it ended the stream,  *)
(* or because it was refused, which nobody ends.                           *)
Anew(s) ==
    /\ opens[s] \in {"ended", "refused"}
    /\ guest' = [guest EXCEPT ![s] = [io |-> Fields, state |-> IF opens[s] = "refused" THEN NoHost ELSE @.state]]
    /\ opens' = [opens EXCEPT ![s] = "closed"] /\ meant' = [meant EXCEPT ![s] = Fields]
    /\ differed' = {} /\ UNCHANGED <<host, begun>>

-----------------------------------------------------------------------------
Next == \E s \in Streams :
    InflateInit2(s) \/ Feed(s) \/ Inflate(s) \/ InflateReset(s) \/ InflateEnd(s) \/ Anew(s)

Spec == Init /\ [][Next]_vars

-----------------------------------------------------------------------------
TypeOK ==
    /\ \A s \in Streams : HostOf(s) \in Hosts \cup {NoHost} /\ guest[s].io.avail_in \in 0 .. Data
    /\ \A h \in Hosts : host[h] = Free \/ host[h].next_in \in 0 .. Data

(* Each stream has a host stream of its own, that is not one that was      *)
(* freed; and zlib is given the bytes and the room the program set, unless *)
(* the stream began anew after it had set them.                            *)
StreamsSound ==
    /\ \A s \in Streams : HostOf(s) # NoHost =>
          host[HostOf(s)] # Free /\ \A r \in Streams \ {s} : HostOf(r) # HostOf(s)
    /\ "others" \notin differed

(* What shim_zlib.cpp says of the four fields: the caller sets them.       *)
CallerSetsFour == differed = {}
=============================================================================
