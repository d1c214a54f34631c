------------------------------- MODULE Posix -------------------------------
(***************************************************************************)
(* The C library as Bionic has it, on another one: its clocks, of which    *)
(* some are a date and some a stopwatch; dates broken down, in storage of  *)
(* the library's own that the guest then holds on to; and text turned into *)
(* wide characters and back piece by piece, by callers that go on where    *)
(* the last piece ended.  Time is counted in the seconds that passed.      *)
(***************************************************************************)
EXTENDS Integers, Sequences, FiniteSets, FiniteSetsExt

CONSTANTS Threads,        \* of the guest
          Began,          \* the date the process began, in seconds
          Fakes,          \* what ARC_FAKE_TIME may be; -1 when it is not set
          MaxNow,         \* bound: seconds that pass
          Times,          \* dates that are broken down
          kEarliest, kLatest,   \* the dates the host's library breaks down
          MaxText, Room   \* bounds: characters of a text, and units of a piece

PosixAssumption ==
    /\ kEarliest \in Int /\ kLatest \in Int /\ kEarliest <= kLatest /\ Times \subseteq Int
    /\ MaxNow \in Nat /\ MaxText \in Nat /\ Room \in Nat

VARIABLES now, fake,
          start, skew,    \* the stopwatches' origin, and the date's shift, from their first use
          read,           \* per clock, what it last said, and when
          slots, held,    \* per thread and function: its storage, and what the guest asked of it
          text, wide,     \* a text to convert, and which way
          src, out        \* characters already converted, and what came out; src is -1 at the end

clockVars == <<now, fake, start, skew, read>>
dateVars  == <<slots, held>>
textVars  == <<text, wide, src, out>>
vars      == <<clockVars, dateVars, textVars>>

Unset      == -1
NoReading  == [says |-> 0, at |-> Unset]
Stopwatches == {"CLOCK_MONOTONIC", "ShimMonotonicMillis"}
Dates       == {"time", "gettimeofday", "CLOCK_REALTIME"}
Forms       == {"gmtime", "localtime"}
NoDate      == [when |-> Unset, zone |-> "none"]
Chars       == {"a", "e"}
Width(c)    == IF c = "e" THEN 2 ELSE 1

Init ==
    /\ now = 0 /\ fake \in Fakes /\ start = Unset /\ skew = [set |-> FALSE, by |-> 0]
    /\ read = [c \in Stopwatches \cup Dates |-> NoReading]
    /\ slots = [t \in Threads |-> [f \in Forms |-> NoDate]]
    /\ held = [t \in Threads |-> [f \in Forms |-> NoDate]]
    /\ text \in UNION {[1 .. n -> Chars] : n \in 1 .. MaxText} /\ wide \in BOOLEAN
    /\ src = 0 /\ out = <<>>

-----------------------------------------------------------------------------
(* Clocks.  The stopwatches have one origin, and read a minute at first.   *)
Tick == now < MaxNow /\ now' = now + 1 /\ UNCHANGED <<fake, start, skew, read>>

Says(clock, v) == read' = [read EXCEPT ![clock] = [says |-> v, at |-> now]]

Origin == IF start = Unset THEN now ELSE start

MonotonicSinceStart == now - Origin + 60

\* The stopwatch the program itself reads is not set a minute ahead.
ShimMonotonicMillis_Plain ==
    /\ Says("ShimMonotonicMillis", MonotonicSinceStart - 60)
    /\ start' = Origin /\ UNCHANGED <<now, fake, skew>>

ShimMonotonicMillis ==
    /\ Says("ShimMonotonicMillis", MonotonicSinceStart)
    /\ start' = Origin /\ UNCHANGED <<now, fake, skew>>

ClockGettime(id) ==
    /\ IF id = "CLOCK_REALTIME"
       THEN Says(id, Began + now) /\ UNCHANGED start
       ELSE Says(id, MonotonicSinceStart) /\ start' = Origin
    /\ UNCHANGED <<now, fake, skew>>

(* The shift is from the date at the first use to the one asked for.       *)
ClockSkew == IF skew.set THEN skew.by ELSE IF fake = Unset THEN 0 ELSE fake - (Began + now)
Shifted(clock) ==
    /\ Says(clock, Began + now + ClockSkew) /\ skew' = [set |-> TRUE, by |-> ClockSkew]
    /\ UNCHANGED <<now, fake, start>>
TimeNow      == Shifted("time")
Gettimeofday == Shifted("gettimeofday")

-----------------------------------------------------------------------------
(* Dates.  One the host's library would refuse is taken to the nearest it  *)
(* breaks down; the result has the zone, which Bionic's callers read.      *)
Clamped(when) == IF when < kEarliest THEN kEarliest ELSE IF when > kLatest THEN kLatest ELSE when

HostBreakdown(when) == [ok |-> Clamped(when) \in kEarliest .. kLatest, when |-> Clamped(when)]

ZoneName(form) == IF form = "gmtime" THEN "UTC" ELSE "local"

ToBionic(when, form) == [when |-> when, zone |-> ZoneName(form)]

\* The storage is the process's.
Slots_Shared(t, f, d) == [u \in Threads |-> [slots[u] EXCEPT ![f] = d]]

Slots(t, f, d) == [slots EXCEPT ![t][f] = d]

(* Gmtime and Localtime, into a slot the thread has for each.              *)
Breakdown(t, f, when) ==
    /\ LET host == HostBreakdown(when) IN
       IF host.ok
       THEN /\ slots' = Slots(t, f, ToBionic(host.when, f))
            /\ held' = [held EXCEPT ![t][f] = [when |-> when, zone |-> ZoneName(f)]]
       ELSE held' = [held EXCEPT ![t][f] = NoDate] /\ UNCHANGED slots

-----------------------------------------------------------------------------
(* Text.  Both ways a call takes at most so many units of its source and   *)
(* makes at most so many of its destination, and what it took is whole     *)
(* characters; with no destination it only counts.                         *)
Units(n) ==                                 \* of n characters, multibyte
    n + Cardinality({k \in 1 .. n : Width(text[src + k]) = 2})
Left   == Len(text) - src
In(n)  == IF wide THEN n ELSE Units(n)      \* units of the source that n characters are,
Out(n) == IF wide THEN Units(n) ELSE n      \* and of the destination

Taken(limit, room) == Max({n \in 0 .. Left : In(n) <= limit /\ Out(n) <= room})

(* The terminator is taken when there is something left of the limit and   *)
(* room for it; the source is null then.                                   *)
Terminated(n, limit, room) == n = Left /\ In(n) < limit /\ Out(n) < room

(* A piece that ends within a character is an error, which Mbsnrtowcs      *)
(* answers without moving.                                                 *)
Cut(n, limit, room) == ~wide /\ n < Left /\ In(n) < limit /\ In(n + 1) > limit /\ Out(n) < room

\* A character there was no room for is passed over.
After_Lost(n) == IF n < Left THEN n + 1 ELSE n

After(n) == n

Convert(limit, room) ==
    LET n == Taken(limit, room) IN
    /\ src # Unset /\ ~Cut(n, limit, room)
    /\ out' = out \o SubSeq(text, src + 1, src + n)
    /\ src' = IF Terminated(n, limit, room) THEN Unset ELSE src + After(n)
    /\ UNCHANGED <<text, wide>>

Mbsnrtowcs == ~wide /\ \E limit, room \in 0 .. Room : Convert(limit, room)
Wcsnrtombs == wide /\ \E limit, room \in 0 .. Room : Convert(limit, room)

-----------------------------------------------------------------------------
ClockNext ==
    Tick \/ ShimMonotonicMillis \/ TimeNow \/ Gettimeofday
    \/ \E id \in {"CLOCK_MONOTONIC", "CLOCK_REALTIME"} : ClockGettime(id)
DateNext == \E t \in Threads, f \in Forms, when \in Times : Breakdown(t, f, when)
TextNext == Mbsnrtowcs \/ Wcsnrtombs

Next ==
    \/ ClockNext /\ UNCHANGED <<dateVars, textVars>>
    \/ DateNext /\ UNCHANGED <<clockVars, textVars>>
    \/ TextNext /\ UNCHANGED <<clockVars, dateVars>>

Spec == Init /\ [][Next]_vars

-----------------------------------------------------------------------------
TypeOK ==
    /\ now \in 0 .. MaxNow /\ start \in Unset .. MaxNow /\ src \in Unset .. Len(text)
    /\ \A c \in DOMAIN read : read[c].at \in Unset .. now

Agree(clocks) ==
    \A c, d \in {k \in clocks : read[k].at # Unset} :
       read[c].says - read[d].says = read[c].at - read[d].at

(* Time measured from one stopwatch to another is the time that passed.    *)
StopwatchesAgree == Agree(Stopwatches)

(* What a thread holds of its own last question still answers it, in the   *)
(* nearest date there is, whatever other threads asked meanwhile.          *)
DatesStand ==
    \A t \in Threads, f \in Forms : held[t][f] # NoDate =>
       slots[t][f] = [held[t][f] EXCEPT !.when = Clamped(held[t][f].when)]

(* Texts come out whole, however they were cut into pieces.                *)
TextWhole ==
    /\ out = SubSeq(text, 1, Len(out)) /\ (src # Unset => src = Len(out))
    /\ src = Unset => out = text

(* What shim_posix.cpp says of ARC_FAKE_TIME: it shifts every date.        *)
DatesAgree == Agree(Dates)
=============================================================================
