---------------------------- MODULE ServicesProofs ----------------------------
(***************************************************************************)
(* What the host does for a guest that asks for something, proved for      *)
(* every value of the constants: zlib's streams, clocks, dates and texts,  *)
(* sockets, files, assets, GL, Java methods, variadic calls and the report *)
(* of a fault.                                                             *)
(* The harness runs one component at a time, so its behaviours are the     *)
(* component's with stuttering; each component has an inductive invariant  *)
(* of its own.                                                             *)
(***************************************************************************)
EXTENDS MCServices, SequenceTheorems, FiniteSetTheorems, WellFoundedInduction, TLAPS

(* A nonempty set of naturals has a least member.                          *)
LEMMA Least ==
  ASSUME NEW S \in SUBSET Nat, S # {}
  PROVE  \E i \in S : \A j \in S : i <= j
<1>1. PICK i \in S : \A j \in S : ~ (<<j, i>> \in OpToRel(<, Nat))
  BY NatLessThanWellFounded, WFMin
<1>2. \A j \in S : ~ (j < i)
  BY <1>1 DEF OpToRel
<1> QED
  BY <1>2

(* And one that is bounded has a greatest.                                 *)
LEMMA Greatest ==
  ASSUME NEW S \in SUBSET Nat, S # {}, NEW b \in Nat, \A i \in S : i <= b
  PROVE  \E i \in S : \A j \in S : i >= j
<1> DEFINE T == {b - i : i \in S}
<1>1. T \in SUBSET Nat /\ T # {}
  OBVIOUS
<1>2. PICK m \in T : \A j \in T : m <= j
  BY <1>1, Least
<1>3. PICK i \in S : m = b - i
  OBVIOUS
<1>4. \A j \in S : b - i <= b - j
  BY <1>2, <1>3
<1>5. \A j \in S : i >= j
  BY <1>4
<1> QED
  BY <1>5

-----------------------------------------------------------------------------
(* Zlib.  What the four fields of a struct may hold.                       *)
FourFields == [next_in : Nat, avail_in : Nat, next_out : Nat, avail_out : Nat]
Within(r)  == r.next_in + r.avail_in <= Data /\ r.next_out + r.avail_out <= Data

StructsTyped ==
  /\ guest \in [Pair -> [io : FourFields, state : Hosts \cup {Z!NoHost}]]
  /\ host \in [Hosts -> FourFields \cup {Z!Free}]
  /\ meant \in [Pair -> FourFields] /\ begun \in [Pair -> BOOLEAN]
  /\ \A s \in Pair : Within(guest[s].io) /\ Within(meant[s])
  /\ \A h \in Hosts : host[h] # Z!Free => Within(host[h])

(* A stream has a block of its own.                                        *)
OwnBlock ==
  \A s \in Pair : guest[s].state # Z!NoHost =>
    /\ host[guest[s].state] # Z!Free
    /\ \A r \in Pair \ {s} : guest[r].state # guest[s].state

(* Its fields are those its program set, unless it began anew since.       *)
AsSet == \A s \in Pair : ~begun[s] => guest[s].io = meant[s]

ZInv == StructsTyped /\ OwnBlock /\ AsSet /\ "others" \notin differed

(* Fields of a struct that is in use are not those of a free block.        *)
LEMMA FieldsInUse ==
  /\ Z!Free \notin FourFields
  /\ Z!Fields \in FourFields
  /\ Data \in Nat => Within(Z!Fields)
BY DEF FourFields, Within, Z!Free, Z!Fields

(* So it is before the first call.                                         *)
LEMMA ZBegins == Z!ZlibAssumption /\ Z!Init => ZInv
<1> SUFFICES ASSUME Z!ZlibAssumption, Z!Init PROVE ZInv
  OBVIOUS
<1>1. StructsTyped
  BY FieldsInUse DEF Z!ZlibAssumption, Z!Init, StructsTyped, Z!NoHost
<1> QED
  BY <1>1 DEF Z!Init, ZInv, OwnBlock, AsSet

(* A stream that begins takes a block that nothing has.                    *)
LEMMA ZInit2Keeps ==
  ASSUME Z!ZlibAssumption, ZInv, NEW s \in Pair, Z!InflateInit2(s)
  PROVE  ZInv'
<1>1. PICK h \in Hosts : /\ host[h] = Z!Free
                         /\ host' = [host EXCEPT ![h] = Z!Fields]
                         /\ guest' = [guest EXCEPT ![s] = [io |-> Z!Fields, state |-> h]]
  BY DEF Z!InflateInit2, Z!Attach, Z!PullOut
<1>2. /\ guest[s].state = Z!NoHost /\ UNCHANGED meant /\ differed' = {}
      /\ begun' = [begun EXCEPT ![s] = TRUE]
  BY DEF Z!InflateInit2, Z!HostOf
<1>3. StructsTyped'
  BY <1>1, <1>2, FieldsInUse DEF Z!ZlibAssumption, ZInv, StructsTyped
<1>4. OwnBlock'
  BY <1>1, <1>2, FieldsInUse DEF Z!ZlibAssumption, ZInv, StructsTyped, OwnBlock, Z!NoHost
<1>5. AsSet'
  BY <1>1, <1>2 DEF ZInv, StructsTyped, AsSet
<1> QED
  BY <1>2, <1>3, <1>4, <1>5 DEF ZInv

(* Setting all four fields leaves nothing of what they were.               *)
SetAll(r, a, b, c, d) == [r EXCEPT !.next_in = a, !.avail_in = b, !.next_out = c, !.avail_out = d]
(* Setting all four fields makes the struct of those four.                 *)
LEMMA FieldsSet ==
  ASSUME NEW r \in FourFields, NEW a \in Nat, NEW b \in Nat, NEW c \in Nat, NEW d \in Nat
  PROVE  SetAll(r, a, b, c, d) = [next_in |-> a, avail_in |-> b, next_out |-> c, avail_out |-> d]
<1> DEFINE w == SetAll(r, a, b, c, d)
<1>1. w \in FourFields
  BY DEF FourFields, SetAll
<1>2. w.next_in = a /\ w.avail_in = b /\ w.next_out = c /\ w.avail_out = d
  BY DEF FourFields, SetAll
<1> HIDE DEF w
<1>3. w = [next_in |-> a, avail_in |-> b, next_out |-> c, avail_out |-> d]
  BY <1>1, <1>2 DEF FourFields
<1> QED
  BY <1>3 DEF w

(* What the program sets is what it meant.                                 *)
LEMMA ZFeedKeeps ==
  ASSUME Z!ZlibAssumption, ZInv, NEW s \in Pair, Z!Feed(s)
  PROVE  ZInv'
<1>1. PICK a, c, r : a = meant[s].next_in /\ c = meant[s].next_out /\ r = guest[s].io
  OBVIOUS
<1>2. PICK m : m = meant[s]
  OBVIOUS
<1>3. m \in FourFields /\ r \in FourFields /\ Data \in Nat /\ a \in Nat /\ c \in Nat
  BY <1>1, <1>2 DEF ZInv, StructsTyped, Z!ZlibAssumption, FourFields
<1>4. PICK n \in 0 .. Data - a, room \in 0 .. Data - c :
        /\ guest' = [guest EXCEPT ![s].io = SetAll(r, a, n, c, room)]
        /\ meant' = [meant EXCEPT ![s] = SetAll(m, a, n, c, room)]
  BY <1>1, <1>2 DEF Z!Feed, SetAll
<1>5. begun' = [begun EXCEPT ![s] = FALSE] /\ differed' = {} /\ UNCHANGED host
  BY DEF Z!Feed
<1>6. PICK set : set = [next_in |-> a, avail_in |-> n, next_out |-> c, avail_out |-> room]
  OBVIOUS
<1>7. n \in Nat /\ room \in Nat
  BY <1>3, <1>4
<1>8. set \in FourFields /\ Within(set)
  BY <1>3, <1>4, <1>6 DEF FourFields, Within
<1>9. SetAll(r, a, n, c, room) = set
  BY <1>3, <1>6, <1>7, FieldsSet
<1>10. SetAll(m, a, n, c, room) = set
  BY <1>3, <1>6, <1>7, FieldsSet
<1>11. guest' = [guest EXCEPT ![s].io = set] /\ meant' = [meant EXCEPT ![s] = set]
  BY <1>4, <1>9, <1>10
<1>12. StructsTyped'
  BY <1>5, <1>8, <1>11 DEF ZInv, StructsTyped
<1>13. OwnBlock'
  BY <1>5, <1>11 DEF ZInv, StructsTyped, OwnBlock
<1>14. AsSet'
  BY <1>5, <1>11 DEF ZInv, StructsTyped, AsSet
<1> QED
  BY <1>5, <1>12, <1>13, <1>14 DEF ZInv

(* What zlib makes of fields stays within the data.                        *)
LEMMA WorksWithin ==
  ASSUME Data \in Nat, NEW h \in FourFields, Within(h), NEW w \in Z!Works(h)
  PROVE  w \in FourFields /\ Within(w)
<1>1. PICK a \in 0 .. h.avail_in, b \in 0 .. h.avail_out : w = Z!Took(h, a, b)
  BY DEF Z!Works
<1>2. w = [h EXCEPT !.next_in = @ + a, !.avail_in = @ - a, !.next_out = @ + b, !.avail_out = @ - b]
  BY <1>1 DEF Z!Took
<1>3. PICK p, q, r, u \in Nat : h = [next_in |-> p, avail_in |-> q, next_out |-> r, avail_out |-> u]
  BY DEF FourFields
<1>4. w = [next_in |-> p + a, avail_in |-> q - a, next_out |-> r + b, avail_out |-> u - b]
  BY <1>2, <1>3
<1>5. a \in 0 .. q /\ b \in 0 .. u /\ p + q <= Data /\ r + u <= Data
  BY <1>3 DEF Within
<1> QED
  BY <1>4, <1>5 DEF FourFields, Within

(* Zlib works on the fields the program set, and they come back as it      *)
(* leaves them.                                                            *)
LEMMA ZInflateKeeps ==
  ASSUME Z!ZlibAssumption, ZInv, NEW s \in Pair, Z!Inflate(s)
  PROVE  ZInv'
<1> DEFINE k == guest[s].state
           h == Z!PushIn(guest[s].io, host[k])
<1>1. /\ k \in Hosts /\ host[k] \in FourFields /\ host[k] # Z!Free
      /\ guest[s].io \in FourFields /\ Within(guest[s].io) /\ meant[s] \in FourFields
      /\ begun[s] \in BOOLEAN
  BY FieldsInUse DEF Z!Inflate, Z!HostOf, ZInv, StructsTyped, OwnBlock
<1>2. h = guest[s].io
  BY <1>1 DEF Z!PushIn, FourFields
<1>3. PICK w \in {h} \cup Z!Works(h) :
        /\ host' = [host EXCEPT ![k] = w]
        /\ guest' = [guest EXCEPT ![s].io = w]
        /\ meant' = [meant EXCEPT ![s] = w]
  BY DEF Z!Inflate, Z!HostOf, Z!PullOut
<1>4. w \in FourFields /\ Within(w) /\ w # Z!Free
  BY <1>1, <1>2, <1>3, WorksWithin, FieldsInUse DEF Z!ZlibAssumption
<1>5. /\ begun' = [begun EXCEPT ![s] = FALSE]
      /\ differed' = IF h = meant[s] THEN {} ELSE {IF begun[s] THEN "begun" ELSE "others"}
  BY DEF Z!Inflate, Z!HostOf
<1>6. "others" \notin differed'
  BY <1>1, <1>2, <1>5 DEF ZInv, AsSet
<1> HIDE DEF h
<1>7. StructsTyped'
  BY <1>1, <1>3, <1>4, <1>5 DEF ZInv, StructsTyped
<1>8. OwnBlock'
  BY <1>1, <1>3, <1>4 DEF ZInv, StructsTyped, OwnBlock
<1>9. AsSet'
  BY <1>3, <1>5 DEF ZInv, StructsTyped, AsSet
<1> QED
  BY <1>6, <1>7, <1>8, <1>9 DEF ZInv

(* Resetting hands back what the host has.                                 *)
LEMMA ZResetKeeps ==
  ASSUME Z!ZlibAssumption, ZInv, NEW s \in Pair, Z!InflateReset(s)
  PROVE  ZInv'
<1>1. /\ guest[s].state \in Hosts /\ host[guest[s].state] \in FourFields
      /\ host[guest[s].state] # Z!Free
  BY DEF Z!InflateReset, Z!HostOf, ZInv, StructsTyped, OwnBlock
<1>2. /\ guest' = [guest EXCEPT ![s].io = host[guest[s].state]]
      /\ begun' = [begun EXCEPT ![s] = TRUE] /\ differed' = {} /\ UNCHANGED <<host, meant>>
  BY DEF Z!InflateReset, Z!HostOf, Z!PullOut
<1>3. StructsTyped'
  BY <1>1, <1>2 DEF ZInv, StructsTyped
<1>4. OwnBlock'
  BY <1>2 DEF ZInv, StructsTyped, OwnBlock
<1>5. AsSet'
  BY <1>2 DEF ZInv, StructsTyped, AsSet
<1> QED
  BY <1>2, <1>3, <1>4, <1>5 DEF ZInv

(* A stream that ends gives up its block, which no other stream has.       *)
LEMMA ZEndKeeps ==
  ASSUME Z!ZlibAssumption, ZInv, NEW s \in Pair, Z!InflateEnd(s)
  PROVE  ZInv'
<1>1. guest[s].state \in Hosts
  BY DEF Z!InflateEnd, Z!HostOf, ZInv, StructsTyped
<1>2. /\ host' = [host EXCEPT ![guest[s].state] = Z!Free]
      /\ guest' = [guest EXCEPT ![s] = [@ EXCEPT !.state = Z!NoHost]]
      /\ differed' = {} /\ UNCHANGED <<meant, begun>>
  BY DEF Z!InflateEnd, Z!HostOf, Z!Detach
<1>3. StructsTyped'
  BY <1>1, <1>2 DEF ZInv, StructsTyped
<1>4. OwnBlock'
  BY <1>1, <1>2 DEF ZInv, StructsTyped, OwnBlock
<1>5. AsSet'
  BY <1>2 DEF ZInv, StructsTyped, AsSet
<1> QED
  BY <1>2, <1>3, <1>4, <1>5 DEF ZInv

(* A struct put to another use forgets its block, or never had one.        *)
LEMMA ZAnewKeeps ==
  ASSUME Z!ZlibAssumption, ZInv, NEW s \in Pair, Z!Anew(s)
  PROVE  ZInv'
<1>1. PICK k \in {guest[s].state, Z!NoHost} :
        guest' = [guest EXCEPT ![s] = [io |-> Z!Fields, state |-> k]]
  BY DEF Z!Anew
<1>2. meant' = [meant EXCEPT ![s] = Z!Fields] /\ differed' = {} /\ UNCHANGED <<host, begun>>
  BY DEF Z!Anew
<1>3. StructsTyped'
  BY <1>1, <1>2, FieldsInUse DEF Z!ZlibAssumption, ZInv, StructsTyped
<1>4. OwnBlock'
  BY <1>1, <1>2 DEF ZInv, StructsTyped, OwnBlock
<1>5. AsSet'
  BY <1>1, <1>2 DEF ZInv, StructsTyped, AsSet
<1> QED
  BY <1>2, <1>3, <1>4, <1>5 DEF ZInv

(* So it stays, whatever the streams do.                                   *)
LEMMA ZKeeps == Z!ZlibAssumption /\ ZInv /\ [Z!Next]_zVars => ZInv'
<1> SUFFICES ASSUME Z!ZlibAssumption, ZInv, Z!Next \/ UNCHANGED zVars PROVE ZInv'
  OBVIOUS
<1>1. CASE UNCHANGED zVars
  BY <1>1 DEF zVars, ZInv, StructsTyped, OwnBlock, AsSet
<1>2. CASE Z!Next
  BY <1>2, ZInit2Keeps, ZFeedKeeps, ZInflateKeeps, ZResetKeeps, ZEndKeeps, ZAnewKeeps DEF Z!Next
<1> QED
  BY <1>1, <1>2

(* And with that every stream is on its own, as its program set it.        *)
LEMMA ZSound == Z!ZlibAssumption /\ ZInv => StreamsSound
<1> SUFFICES ASSUME Z!ZlibAssumption, ZInv PROVE StreamsSound
  OBVIOUS
<1>1. Z!TypeOK
  BY DEF Z!ZlibAssumption, ZInv, StructsTyped, FourFields, Within, Z!TypeOK, Z!HostOf
<1>2. Z!StreamsSound
  BY DEF ZInv, OwnBlock, Z!StreamsSound, Z!HostOf
<1> QED
  BY <1>1, <1>2 DEF StreamsSound

-----------------------------------------------------------------------------
(* Posix.  The stopwatches have one origin, and what each said is the time *)
(* since then.                                                             *)
Clocks == System!Stopwatches \cup System!Dates

ClockInv ==
  /\ now \in 0 .. MaxNow /\ start \in -1 .. MaxNow
  /\ DOMAIN read = Clocks
  /\ \A c \in Clocks : read[c].at \in -1 .. now
  /\ \A c \in System!Stopwatches : read[c].at # -1 =>
       start # -1 /\ read[c].says = read[c].at - start + 60

(* Each thread has its own storage for each function.                      *)
DateInv ==
  /\ DOMAIN slots = Pair /\ DOMAIN held = Pair
  /\ \A t \in Pair : DOMAIN slots[t] = System!Forms /\ DOMAIN held[t] = System!Forms
  /\ System!DatesStand

(* What came out is what was converted, of the beginning of the text.      *)
TextInv ==
  /\ text \in Seq(System!Chars) /\ src \in -1 .. Len(text)
  /\ out = IF src = -1 THEN text ELSE SubSeq(text, 1, src)

PosixInv == ClockInv /\ DateInv /\ TextInv

(* So it is before the first call.                                         *)
LEMMA PosixBegins == System!PosixAssumption /\ System!Init => PosixInv
<1> SUFFICES ASSUME System!PosixAssumption, System!Init PROVE PosixInv
  OBVIOUS
<1>1. ClockInv
  BY DEF System!PosixAssumption, System!Init, ClockInv, Clocks, System!Unset, System!NoReading
<1>2. DateInv
  BY DEF System!Init, DateInv, System!DatesStand, System!Forms
<1>3. PICK n \in 1 .. MaxText : text \in [1 .. n -> System!Chars]
  BY DEF System!Init
<1>4. text \in Seq(System!Chars)
  BY <1>3 DEF System!PosixAssumption
<1>5. SubSeq(text, 1, 0) = <<>>
  BY <1>4, SubSeqEmpty
<1>6. TextInv
  BY <1>4, <1>5 DEF System!Init, TextInv
<1> QED
  BY <1>1, <1>2, <1>6 DEF PosixInv

(* A stopwatch reads the time since the one origin.                        *)
LEMMA StopwatchKeeps ==
  ASSUME System!PosixAssumption, ClockInv, NEW c \in System!Stopwatches,
         System!Says(c, System!MonotonicSinceStart), start' = System!Origin, UNCHANGED now
  PROVE  ClockInv'
<1>1. read' = [read EXCEPT ![c] = [says |-> now - System!Origin + 60, at |-> now]]
  BY DEF System!Says, System!MonotonicSinceStart
<1>2. System!Origin \in 0 .. MaxNow /\ (start # -1 => System!Origin = start)
  BY DEF System!Origin, System!Unset, ClockInv
<1> QED
  BY <1>1, <1>2 DEF ClockInv, Clocks

(* A date is no stopwatch.                                                 *)
LEMMA DateReadKeeps ==
  ASSUME ClockInv, NEW c \in System!Dates, NEW v, System!Says(c, v), UNCHANGED <<start, now>>
  PROVE  ClockInv'
<1>1. read' = [read EXCEPT ![c] = [says |-> v, at |-> now]] /\ c \notin System!Stopwatches
  BY DEF System!Says, System!Dates, System!Stopwatches
<1> QED
  BY <1>1 DEF ClockInv, Clocks

(* Reading the clocks, and time passing, keeps the stopwatches together.   *)
LEMMA ClockKeeps ==
  ASSUME System!PosixAssumption, ClockInv, System!ClockNext
  PROVE  ClockInv'
<1>1. CASE System!Tick
  BY <1>1 DEF System!Tick, ClockInv, System!PosixAssumption
<1>2. CASE System!ShimMonotonicMillis
  BY <1>2, StopwatchKeeps DEF System!ShimMonotonicMillis, System!Stopwatches
<1>3. CASE System!TimeNow
  BY <1>3, DateReadKeeps DEF System!TimeNow, System!Shifted, System!Dates
<1>4. CASE System!Gettimeofday
  BY <1>4, DateReadKeeps DEF System!Gettimeofday, System!Shifted, System!Dates
<1>5. CASE System!ClockGettime("CLOCK_MONOTONIC")
  BY <1>5, StopwatchKeeps DEF System!ClockGettime, System!Stopwatches
<1>6. CASE System!ClockGettime("CLOCK_REALTIME")
  BY <1>6, DateReadKeeps DEF System!ClockGettime, System!Dates
<1> QED
  BY <1>1, <1>2, <1>3, <1>4, <1>5, <1>6 DEF System!ClockNext

(* A date that is asked for is one the host's library breaks down.         *)
LEMMA ClampedOk ==
  ASSUME System!PosixAssumption, NEW when \in Times
  PROVE  System!HostBreakdown(when).ok
<1>1. when \in Int /\ kEarliest \in Int /\ kLatest \in Int /\ kEarliest <= kLatest
  BY DEF System!PosixAssumption
<1>2. System!Clamped(when) \in kEarliest .. kLatest
  BY <1>1 DEF System!Clamped
<1> QED
  BY <1>2 DEF System!HostBreakdown

(* It is in the storage of the one thread that asked.                      *)
LEMMA DatesKeep ==
  ASSUME System!PosixAssumption, DateInv, System!DateNext
  PROVE  DateInv'
<1>1. PICK t \in Pair, f \in System!Forms, when \in Times : System!Breakdown(t, f, when)
  BY DEF System!DateNext
<1>2. PICK c, z : c = System!Clamped(when) /\ z = System!ZoneName(f)
  OBVIOUS
<1>3. /\ slots' = [slots EXCEPT ![t][f] = [when |-> c, zone |-> z]]
      /\ held' = [held EXCEPT ![t][f] = [when |-> when, zone |-> z]]
  BY <1>1, <1>2, ClampedOk DEF System!Breakdown, System!Slots, System!ToBionic, System!HostBreakdown
<1>4. ASSUME NEW u \in Pair, NEW g \in System!Forms, held'[u][g] # System!NoDate
      PROVE  slots'[u][g] = [held'[u][g] EXCEPT !.when = System!Clamped(held'[u][g].when)]
  <2>1. CASE u = t /\ g = f
    <3>1. held'[u][g] = [when |-> when, zone |-> z] /\ slots'[u][g] = [when |-> c, zone |-> z]
      BY <1>3, <2>1 DEF DateInv
    <3> QED
      BY <1>2, <3>1
  <2>2. CASE ~(u = t /\ g = f)
    <3>1. held'[u][g] = held[u][g] /\ slots'[u][g] = slots[u][g]
      BY <1>3, <2>2 DEF DateInv
    <3> QED
      BY <1>4, <3>1 DEF DateInv, System!DatesStand
  <2> QED
    BY <2>1, <2>2
<1>5. System!DatesStand'
  BY <1>4 DEF System!DatesStand, System!Clamped
<1> QED
  BY <1>3, <1>5 DEF DateInv

(* No characters have no units; so what a piece takes is some of what is   *)
(* left, maybe none.                                                       *)
LEMMA TakenIsLeft ==
  ASSUME src \in 0 .. Len(text), Len(text) \in Nat, NEW limit \in Nat, NEW room \in Nat
  PROVE  System!Taken(limit, room) \in 0 .. Len(text) - src
<1> DEFINE S == {n \in 0 .. System!Left : System!In(n) <= limit /\ System!Out(n) <= room}
<1>1. System!Left \in Nat /\ System!Left = Len(text) - src
  BY DEF System!Left
<1>2. {k \in 1 .. 0 : System!Width(text[src + k]) = 2} = {}
  OBVIOUS
<1>3. System!Units(0) = 0
  BY <1>2, FS_EmptySet DEF System!Units, System!Cardinality, Cardinality, System!IsFiniteSet, IsFiniteSet
<1>4. System!In(0) = 0 /\ System!Out(0) = 0
  BY <1>3 DEF System!In, System!Out
<1>5. S \in SUBSET Nat /\ 0 \in S /\ \A n \in S : n <= System!Left
  BY <1>1, <1>4
<1>6. \E n \in S : \A m \in S : n >= m
  BY <1>1, <1>5, Greatest
<1> HIDE DEF S
<1>7. System!Max(S) \in S
  BY <1>6 DEF System!Max
<1>8. System!Taken(limit, room) \in S
  BY <1>7 DEF S, System!Taken
<1> QED
  BY <1>1, <1>8 DEF S

(* A piece goes on where the last one ended.                               *)
LEMMA ConvertKeeps ==
  ASSUME TextInv, NEW limit \in Nat, NEW room \in Nat, System!Convert(limit, room)
  PROVE  TextInv'
<1>1. PICK n : n = System!Taken(limit, room)
  OBVIOUS
<1>2. /\ src # -1 /\ UNCHANGED text
      /\ out' = out \o SubSeq(text, src + 1, src + n)
      /\ src' = IF System!Terminated(n, limit, room) THEN -1 ELSE src + n
  BY <1>1 DEF System!Convert, System!Unset, System!After
<1>3. PICK t, s, len : t = text /\ s = src /\ len = Len(text)
  BY DEF TextInv
<1>4. t \in Seq(System!Chars) /\ s \in 0 .. len /\ len = Len(t) /\ out = SubSeq(t, 1, s)
  BY <1>2, <1>3 DEF TextInv
<1>5. n \in 0 .. len - s
  BY <1>1, <1>3, <1>4, TakenIsLeft
<1>6. SubSeq(t, 1, s) \o SubSeq(t, s + 1, s + n) = SubSeq(t, 1, s + n)
  <2>1. 1 \in 1 .. Len(t) + 1 /\ s \in 1 - 1 .. Len(t) /\ s + n \in s .. Len(t)
    BY <1>4, <1>5
  <2> QED
    BY <1>4, <2>1, ConcatAdjacentSubSeq
<1>7. out' = SubSeq(t, 1, s + n)
  BY <1>2, <1>3, <1>4, <1>6
<1>8. System!Terminated(n, limit, room) => s + n = len
  BY <1>3, <1>4, <1>5 DEF System!Terminated, System!Left
<1>9. SubSeq(t, 1, len) = t
  BY <1>4, SubSeqFull
<1>10. s + n \in 0 .. len /\ len \in Nat
  BY <1>4, <1>5
<1>11. src' = IF System!Terminated(n, limit, room) THEN -1 ELSE s + n
  BY <1>2, <1>3
<1>12. src' \in -1 .. len /\ (src' = -1 => s + n = len) /\ (src' # -1 => src' = s + n)
  BY <1>8, <1>10, <1>11
<1>13. out' = IF src' = -1 THEN t ELSE SubSeq(t, 1, src')
  BY <1>7, <1>9, <1>12
<1>14. text' = t /\ t = text
  BY <1>2, <1>3
<1> QED
  BY <1>4, <1>12, <1>13, <1>14 DEF TextInv

(* So it stays, whatever is asked of the library.                          *)
LEMMA PosixKeeps ==
  /\ System!PosixAssumption /\ PosixInv
  /\ System!ClockNext \/ UNCHANGED clockVars
  /\ System!DateNext \/ UNCHANGED dateVars
  /\ System!TextNext \/ UNCHANGED textVars
  => PosixInv'
<1> SUFFICES ASSUME System!PosixAssumption, PosixInv,
                    System!ClockNext \/ UNCHANGED clockVars,
                    System!DateNext \/ UNCHANGED dateVars,
                    System!TextNext \/ UNCHANGED textVars
             PROVE  PosixInv'
  OBVIOUS
<1>1. ClockInv'
  <2>1. CASE UNCHANGED clockVars
    BY <2>1 DEF clockVars, PosixInv, ClockInv
  <2> QED
    BY <2>1, ClockKeeps DEF PosixInv
<1>2. DateInv'
  <2>1. CASE UNCHANGED dateVars
    BY <2>1 DEF dateVars, PosixInv, DateInv, System!DatesStand, System!Clamped
  <2> QED
    BY <2>1, DatesKeep DEF PosixInv
<1>3. TextInv'
  <2>1. CASE UNCHANGED textVars
    BY <2>1 DEF textVars, PosixInv, TextInv
  <2>2. CASE System!TextNext
    <3>1. PICK limit \in Nat, room \in Nat : System!Convert(limit, room)
      BY <2>2 DEF System!TextNext, System!Mbsnrtowcs, System!Wcsnrtombs, System!PosixAssumption
    <3> QED
      BY <3>1, ConvertKeeps DEF PosixInv
  <2> QED
    BY <2>1, <2>2
<1> QED
  BY <1>1, <1>2, <1>3 DEF PosixInv

(* And with that stopwatches agree, dates stand and texts come out whole.  *)
LEMMA PosixSound == System!PosixAssumption /\ PosixInv => SystemSound
<1> SUFFICES ASSUME System!PosixAssumption, PosixInv PROVE SystemSound
  OBVIOUS
<1>1. System!StopwatchesAgree
  BY DEF PosixInv, ClockInv, Clocks, System!StopwatchesAgree, System!Agree, System!Unset
<1>2. System!TypeOK
  BY DEF PosixInv, ClockInv, TextInv, System!TypeOK, System!Unset
<1>3. PICK t, s, len : t = text /\ s = src /\ len = Len(text)
  BY DEF PosixInv, TextInv
<1>4. /\ t \in Seq(System!Chars) /\ s \in -1 .. len /\ len = Len(t)
      /\ out = IF s = -1 THEN t ELSE SubSeq(t, 1, s)
  BY <1>3 DEF PosixInv, TextInv
<1>5. SubSeq(t, 1, len) = t /\ \A k \in 0 .. len : Len(SubSeq(t, 1, k)) = k
  <2>1. SubSeq(t, 1, len) = t
    BY <1>4, SubSeqFull
  <2>2. ASSUME NEW k \in 0 .. len PROVE Len(SubSeq(t, 1, k)) = k
    BY <1>4
  <2> QED
    BY <2>1, <2>2
<1>6. /\ out = SubSeq(t, 1, Len(out)) /\ (s # -1 => s = Len(out))
      /\ s = -1 => out = t
  BY <1>4, <1>5
<1>7. System!TextWhole
  BY <1>3, <1>6 DEF System!TextWhole, System!Unset
<1> QED
  BY <1>1, <1>2, <1>7 DEF SystemSound, PosixInv, DateInv

-----------------------------------------------------------------------------
(* Sockets.  What is so of one transfer: where it is, its addresses and    *)
(* the one it tries, its socket, and the tries that were made fail.        *)
Families == {Net!AfInet, Net!kGuestAfInet6}
Trying   == {"resolved", "opened", "connects", "sends", "asked", "awaits", "done"}
States   == {"none", "open", "connecting", "connected", "refused", "reset"}
Address  == [ai_family : Families, sa_family : Families]

TransferOk(p, a, t, s, f) ==
  /\ p \in Trying \cup {"begins", "gaveup"}
  /\ a \in Seq(Address) /\ \A k \in 1 .. Len(a) : a[k].ai_family = a[k].sa_family
  /\ t \in Nat /\ (p = "begins" => t = 0 /\ f = {}) /\ (p \in Trying => t \in 1 .. Len(a))
  /\ p = "gaveup" => t = Len(a) + 1
  /\ s \in [family : {0, Net!AfInet, Net!HostAfInet6}, state : States]
  /\ p \in {"begins", "resolved", "gaveup"} => s.state = "none"
  /\ p = "opened" => s.family = Net!FamilyToHost(a[t].ai_family)
  /\ f \subseteq 1 .. Len(a) /\ 1 .. t - 1 \subseteq f
  /\ s.state \in {"refused", "reset"} => t \in f

NetDomains ==
  /\ DOMAIN doing = Transfers /\ DOMAIN addrs = Transfers /\ DOMAIN try = Transfers
  /\ DOMAIN sock = Transfers /\ DOMAIN failed = Transfers
TransferAt(i) == TransferOk(doing[i], addrs[i], try[i], sock[i], failed[i])

NetInv == NetDomains /\ \A i \in Transfers : TransferAt(i)

(* A step of one transfer leaves the others alone.                         *)
OnlyOf(i) ==
  /\ NetDomains'
  /\ \A j \in Transfers \ {i} :
       /\ doing'[j] = doing[j] /\ addrs'[j] = addrs[j] /\ try'[j] = try[j]
       /\ sock'[j] = sock[j] /\ failed'[j] = failed[j]

(* So it is enough that it is as it should be afterwards.                  *)
LEMMA OneTransfer ==
  ASSUME NetInv, NEW i \in Transfers, OnlyOf(i), TransferAt(i)'
  PROVE  NetInv'
<1>1. ASSUME NEW j \in Transfers \ {i} PROVE TransferAt(j)'
  BY DEF NetInv, OnlyOf, TransferAt
<1> QED
  BY <1>1 DEF NetInv, OnlyOf

(* So it is before any transfer begins.                                    *)
LEMMA NetBegins == Net!Init => NetInv
<1> SUFFICES ASSUME Net!Init PROVE NetInv
  OBVIOUS
<1>1. <<>> \in Seq(Address) /\ Len(<<>>) = 0
  OBVIOUS
<1>2. TransferOk("begins", <<>>, 0, Net!NoSock, {})
  BY <1>1 DEF TransferOk, Trying, Net!NoSock, States
<1> QED
  BY <1>2 DEF Net!Init, NetInv, NetDomains, TransferAt

(* Going on to the next address is in order once this one has failed.      *)
LEMMA NextInOrder ==
  ASSUME NEW p \in Trying, NEW a, NEW t, NEW s, NEW f, TransferOk(p, a, t, s, f),
         NEW g, f \subseteq g, g \subseteq 1 .. Len(a), t \in g
  PROVE  TransferOk(IF t < Len(a) THEN "resolved" ELSE "gaveup", a, t + 1, Net!NoSock, g)
<1>1. PICK n \in Nat : n = Len(a)
  BY DEF TransferOk
<1>2. t \in 1 .. n /\ 1 .. t - 1 \subseteq f
  BY <1>1 DEF TransferOk
<1>3. t + 1 - 1 = t /\ 1 .. t \subseteq g
  BY <1>2
<1> QED
  BY <1>1, <1>2, <1>3 DEF TransferOk, Trying, Net!NoSock, States

(* The step that does so.                                                  *)
LEMMA DropKeeps ==
  ASSUME NetInv, NEW i \in Transfers, doing[i] \in Trying, Net!NextAddress(i),
         sock' = [sock EXCEPT ![i] = Net!NoSock], UNCHANGED addrs,
         NEW g, DOMAIN failed' = Transfers, failed'[i] = g,
         \A j \in Transfers \ {i} : failed'[j] = failed[j],
         failed[i] \subseteq g, g \subseteq 1 .. Len(addrs[i]), try[i] \in g
  PROVE  NetInv'
<1>1. TransferOk(doing[i], addrs[i], try[i], sock[i], failed[i])
  BY DEF NetInv, TransferAt
<1>2. TransferOk(IF try[i] < Len(addrs[i]) THEN "resolved" ELSE "gaveup", addrs[i], try[i] + 1, Net!NoSock, g)
  BY <1>1, NextInOrder
<1>3. OnlyOf(i)
  BY DEF Net!NextAddress, NetInv, NetDomains, OnlyOf
<1>4. TransferAt(i)'
  BY <1>2 DEF Net!NextAddress, NetInv, NetDomains, TransferAt
<1> QED
  BY <1>3, <1>4, OneTransfer

(* And when the host or the peer had made the try fail.                    *)
LEMMA DropFailed ==
  ASSUME NetInv, NEW i \in Transfers, doing[i] \in Trying, Net!Drop(i), UNCHANGED addrs,
         Net!SoError(i) # "none"
  PROVE  NetInv'
<1>1. sock[i].state \in {"refused", "reset"}
  BY DEF Net!SoError
<1>2. failed[i] \subseteq 1 .. Len(addrs[i]) /\ try[i] \in failed[i]
  BY <1>1 DEF NetInv, TransferAt, TransferOk
<1>3. UNCHANGED failed /\ DOMAIN failed = Transfers
  BY DEF Net!Drop, NetInv, NetDomains
<1> QED
  BY <1>2, <1>3, DropKeeps DEF Net!Drop

(* Going on with the same socket.                                          *)
LEMMA GotoKeeps ==
  ASSUME NetInv, NEW i \in Transfers, doing[i] \in Trying, NEW label \in Trying \ {"opened", "resolved"},
         Net!Goto(i, label), Net!Keep(i), UNCHANGED addrs
  PROVE  NetInv'
<1>1. TransferOk(doing[i], addrs[i], try[i], sock[i], failed[i])
  BY DEF NetInv, TransferAt
<1>2. TransferOk(label, addrs[i], try[i], sock[i], failed[i])
  BY <1>1 DEF TransferOk, Trying
<1>3. OnlyOf(i)
  BY DEF Net!Goto, Net!Keep, NetInv, NetDomains, OnlyOf
<1>4. TransferAt(i)'
  BY <1>2 DEF Net!Goto, Net!Keep, NetInv, NetDomains, TransferAt
<1> QED
  BY <1>3, <1>4, OneTransfer

(* What is done to a socket by the other end is what makes tries fail.     *)
LEMMA BecomesKeeps ==
  ASSUME NetInv, NEW i \in Transfers, NEW from \in States \ {"none", "open"},
         NEW to \in States \ {"none", "open"}, Net!Becomes(i, from, to)
  PROVE  NetInv'
<1>1. TransferOk(doing[i], addrs[i], try[i], sock[i], failed[i])
  BY DEF NetInv, TransferAt
<1>2. PICK f, s : /\ f = IF to = "connected" THEN failed[i] ELSE failed[i] \cup {try[i]}
                  /\ s = [sock[i] EXCEPT !.state = to]
  OBVIOUS
<1>3. sock[i].state = from /\ sock' = [sock EXCEPT ![i] = s] /\ UNCHANGED <<doing, addrs, try>>
  BY <1>2 DEF Net!Becomes
<1>4. /\ DOMAIN failed' = Transfers /\ failed'[i] = f
      /\ \A j \in Transfers \ {i} : failed'[j] = failed[j]
  BY <1>2 DEF Net!Becomes, NetInv, NetDomains
<1>5. doing[i] \in Trying /\ try[i] \in 1 .. Len(addrs[i])
  BY <1>1, <1>3 DEF TransferOk
<1>6. s \in [family : {0, Net!AfInet, Net!HostAfInet6}, state : States]
      /\ s.state = to /\ s.family = sock[i].family
  BY <1>1, <1>2 DEF TransferOk
<1>7. failed[i] \subseteq f /\ f \subseteq 1 .. Len(addrs[i]) /\ (to # "connected" => try[i] \in f)
  BY <1>1, <1>2, <1>5 DEF TransferOk
<1>8. TransferOk(doing[i], addrs[i], try[i], s, f)
  BY <1>1, <1>5, <1>6, <1>7, <1>3 DEF TransferOk, Trying, States
<1>9. OnlyOf(i)
  BY <1>3, <1>4 DEF NetInv, NetDomains, OnlyOf
<1>10. TransferAt(i)'
  BY <1>3, <1>8, <1>4 DEF NetInv, NetDomains, TransferAt
<1> QED
  BY <1>9, <1>10, OneTransfer

(* A name resolves to addresses that carry the guest's families.           *)
LEMMA ResolveKeeps ==
  ASSUME NetInv, NEW i \in Transfers, Net!Getaddrinfo(i)
  PROVE  NetInv'
<1>1. Net!AiFlagsToHost({32}) \subseteq {Net!HostAi[f] : f \in DOMAIN Net!HostAi}
  BY DEF Net!AiFlagsToHost, Net!Translate
<1>2. PICK list \in {<<Net!AfInet>>, <<Net!HostAfInet6, Net!AfInet>>} :
        /\ addrs' = [addrs EXCEPT ![i] = [k \in DOMAIN list |->
              [ai_family |-> Net!FamilyToGuest(list[k]), sa_family |-> Net!FamilyToGuest(list[k])]]]
        /\ doing' = [doing EXCEPT ![i] = "resolved"] /\ try' = [try EXCEPT ![i] = 1]
  BY <1>1 DEF Net!Getaddrinfo
<1>3. PICK n : n = Len(list)
  OBVIOUS
<1>4. n \in {1, 2} /\ DOMAIN list = 1 .. n
      /\ \A k \in 1 .. n : list[k] \in {Net!AfInet, Net!HostAfInet6}
  BY <1>2, <1>3
<1>5. PICK a : a = [k \in 1 .. n |-> [ai_family |-> Net!FamilyToGuest(list[k]),
                                      sa_family |-> Net!FamilyToGuest(list[k])]]
  OBVIOUS
<1>6. \A k \in 1 .. n : Net!FamilyToGuest(list[k]) \in Families
  BY <1>4 DEF Net!FamilyToGuest, Families, Net!AfInet, Net!HostAfInet6, Net!kGuestAfInet6
<1>7. a \in [1 .. n -> Address] /\ \A k \in 1 .. n : a[k].ai_family = a[k].sa_family
  BY <1>5, <1>6 DEF Address
<1>8. a \in Seq(Address) /\ Len(a) = n
  BY <1>4, <1>7
<1>9. doing[i] = "begins" /\ UNCHANGED <<sock, failed>>
  BY DEF Net!Getaddrinfo, Net!Keep
<1>10. TransferOk(doing[i], addrs[i], try[i], sock[i], failed[i])
  BY DEF NetInv, TransferAt
<1>11. sock[i] \in [family : {0, Net!AfInet, Net!HostAfInet6}, state : States] /\ sock[i].state = "none"
  BY <1>9, <1>10 DEF TransferOk
<1>12. failed[i] = {}
  BY <1>9, <1>10 DEF TransferOk
<1>13. TransferOk("resolved", a, 1, sock[i], failed[i])
  BY <1>4, <1>7, <1>8, <1>11, <1>12 DEF TransferOk, Trying
<1>14. addrs' = [addrs EXCEPT ![i] = a]
  BY <1>2, <1>4, <1>5
<1>15. OnlyOf(i)
  BY <1>2, <1>9, <1>14 DEF NetInv, NetDomains, OnlyOf
<1>16. TransferAt(i)'
  BY <1>2, <1>9, <1>13, <1>14 DEF NetInv, NetDomains, TransferAt
<1> QED
  BY <1>15, <1>16, OneTransfer

(* A family that was translated is translated back.                        *)
LEMMA FamilyBack ==
  ASSUME NEW f \in Families
  PROVE  Net!FamilyToHost(f) \in {Net!AfInet, Net!HostAfInet6}
BY DEF Families, Net!FamilyToHost, Net!AfInet, Net!HostAfInet6, Net!kGuestAfInet6

(* A socket is made of a family the host knows.                            *)
LEMMA SocketKeeps ==
  ASSUME NetInv, NEW i \in Transfers, Net!Socket(i)
  PROVE  NetInv'
<1>1. PICK a, t : a = addrs[i] /\ t = try[i]
  OBVIOUS
<1>2. TransferOk(doing[i], a, t, sock[i], failed[i]) /\ doing[i] = "resolved"
  BY <1>1 DEF NetInv, TransferAt, Net!Socket
<1>3. a \in Seq(Address) /\ t \in 1 .. Len(a)
  BY <1>2 DEF TransferOk, Trying
<1>4. a[t] \in Address
  BY <1>3
<1>5. PICK family : family = Net!FamilyToHost(a[t].ai_family)
  OBVIOUS
<1>6. family \in {Net!AfInet, Net!HostAfInet6}
  BY <1>4, <1>5, FamilyBack DEF Address
<1>7. PICK s : s = [family |-> family, state |-> "open"]
  OBVIOUS
<1>8. /\ sock' = [sock EXCEPT ![i] = s] /\ doing' = [doing EXCEPT ![i] = "opened"]
      /\ UNCHANGED <<addrs, try, failed>>
  BY <1>1, <1>5, <1>6, <1>7 DEF Net!Socket, Net!Goto
<1>9. TransferOk("opened", a, t, s, failed[i])
  BY <1>2, <1>3, <1>5, <1>6, <1>7 DEF TransferOk, Trying, States
<1>10. OnlyOf(i)
  BY <1>8 DEF NetInv, NetDomains, OnlyOf
<1>11. TransferAt(i)'
  BY <1>1, <1>8, <1>9 DEF NetInv, NetDomains, TransferAt
<1> QED
  BY <1>10, <1>11, OneTransfer

(* A connection is only given up at once when Winsock refused it.          *)
LEMMA ConnectKeeps ==
  ASSUME NetInv, NEW i \in Transfers, Net!Connect(i)
  PROVE  NetInv'
<1>1. PICK a, t, s : a = addrs[i] /\ t = try[i] /\ s = sock[i]
  OBVIOUS
<1>2. TransferOk(doing[i], a, t, s, failed[i]) /\ doing[i] = "opened" /\ UNCHANGED addrs
  BY <1>1 DEF NetInv, TransferAt, Net!Connect
<1>3. /\ t \in 1 .. Len(a) /\ a[t].ai_family = a[t].sa_family
      /\ s.family = Net!FamilyToHost(a[t].ai_family)
      /\ s \in [family : {0, Net!AfInet, Net!HostAfInet6}, state : States]
  BY <1>2 DEF TransferOk, Trying
<1>4. Net!ToHostSockaddr(a[t]) = s.family
  BY <1>3 DEF Net!ToHostSockaddr
<1>5. Net!ConnectResult("EWOULDBLOCK") = "EINPROGRESS"
  BY DEF Net!ConnectResult
<1>6. PICK wsa \in {"EWOULDBLOCK", "ENETUNREACH"} :
        IF wsa = "EWOULDBLOCK"
        THEN /\ sock' = [sock EXCEPT ![i].state = "connecting"]
             /\ Net!Goto(i, "connects") /\ UNCHANGED failed
        ELSE /\ Net!NextAddress(i) /\ sock' = [sock EXCEPT ![i] = Net!NoSock]
             /\ failed' = [failed EXCEPT ![i] = @ \cup {try[i]}]
  BY <1>1, <1>4, <1>5 DEF Net!Connect
<1>7. CASE wsa = "EWOULDBLOCK"
  <2>1. PICK u : u = [s EXCEPT !.state = "connecting"]
    OBVIOUS
  <2>2. u \in [family : {0, Net!AfInet, Net!HostAfInet6}, state : States] /\ u.state = "connecting"
    BY <1>3, <2>1 DEF States
  <2>3. TransferOk("connects", a, t, u, failed[i])
    BY <1>2, <1>3, <2>2 DEF TransferOk, Trying
  <2>4. /\ sock' = [sock EXCEPT ![i] = u] /\ doing' = [doing EXCEPT ![i] = "connects"]
        /\ UNCHANGED <<try, failed>>
    BY <1>1, <1>6, <1>7, <2>1 DEF Net!Goto, NetInv, NetDomains
  <2>5. OnlyOf(i)
    BY <1>2, <2>4 DEF NetInv, NetDomains, OnlyOf
  <2>6. TransferAt(i)'
    BY <1>1, <1>2, <2>3, <2>4 DEF NetInv, NetDomains, TransferAt
  <2> QED
    BY <2>5, <2>6, OneTransfer
<1>8. CASE wsa # "EWOULDBLOCK"
  <2>1. PICK g : g = failed[i] \cup {try[i]}
    OBVIOUS
  <2>2. /\ DOMAIN failed' = Transfers /\ failed'[i] = g
        /\ \A j \in Transfers \ {i} : failed'[j] = failed[j]
    BY <1>6, <1>8, <2>1 DEF NetInv, NetDomains
  <2>3. failed[i] \subseteq g /\ g \subseteq 1 .. Len(addrs[i]) /\ try[i] \in g
    BY <1>1, <1>2, <1>3, <2>1 DEF TransferOk
  <2> QED
    BY <1>2, <1>6, <1>8, <2>2, <2>3, DropKeeps DEF Trying
<1> QED
  BY <1>7, <1>8

(* How a connection went is asked by the numbers the host knows.           *)
LEMMA AskKeeps ==
  ASSUME NetInv, NEW i \in Transfers, Net!Getsockopt(i)
  PROVE  NetInv'
<1>1. doing[i] = "connects" /\ UNCHANGED addrs
  BY DEF Net!Getsockopt
<1>2. /\ Net!TranslateSockLevel(Net!kGuestSolSocket) = Net!HostSolSocket
      /\ Net!TranslateSockopt(Net!kGuestSolSocket, 4) = "SO_ERROR"
  BY DEF Net!TranslateSockLevel, Net!TranslateSockopt
<1>3. CASE Net!SoError(i) = "none"
  BY <1>1, <1>2, <1>3, GotoKeeps DEF Net!Getsockopt, Trying
<1>4. CASE Net!SoError(i) # "none"
  BY <1>1, <1>4, DropFailed DEF Net!Getsockopt, Trying
<1> QED
  BY <1>3, <1>4

(* An answer that is no error, or is that there is none yet, is not taken  *)
(* for one.                                                                *)
LEMMA AnsweredKeeps ==
  ASSUME NetInv, NEW i \in Transfers, doing[i] \in Trying, UNCHANGED addrs,
         NEW ok \in {"asked", "done"}, NEW flags \in {{}, {16384}},
         NEW wsa, Net!Answered(i, ok, wsa, flags),
         Net!SoError(i) = "none" => wsa \in {"none", "EWOULDBLOCK"}
  PROVE  NetInv'
<1>1. Net!MsgFlagsToHost(flags) = {}
  <2>1. CASE flags = {}
    BY <2>1 DEF Net!MsgFlagsToHost, Net!Translate
  <2>2. CASE flags = {16384}
    <3>1. flags \cap DOMAIN Net!HostMsg = {}
      BY <2>2 DEF Net!HostMsg
    <3> QED
      BY <3>1 DEF Net!MsgFlagsToHost, Net!Translate
  <2> QED
    BY <2>1, <2>2
<1>2. PICK err : err = Net!ShimNetErrno(wsa)
  OBVIOUS
<1>3. \/ err = "none" /\ Net!Goto(i, ok) /\ Net!Keep(i)
      \/ err = "EAGAIN" /\ Net!Goto(i, "awaits") /\ Net!Keep(i)
      \/ err \notin {"none", "EAGAIN"} /\ Net!Drop(i)
  BY <1>1, <1>2 DEF Net!Answered
<1>4. wsa \in {"none", "EWOULDBLOCK"} => err \in {"none", "EAGAIN"}
  BY <1>2 DEF Net!ShimNetErrno, Net!Kept
<1>5. CASE err = "none"
  BY <1>3, <1>5, GotoKeeps DEF Trying
<1>6. CASE err = "EAGAIN"
  BY <1>3, <1>6, GotoKeeps DEF Trying
<1>7. CASE err \notin {"none", "EAGAIN"}
  BY <1>3, <1>4, <1>7, DropFailed
<1> QED
  BY <1>5, <1>6, <1>7

(* Sending asks that the flag which Winsock has not be left out.           *)
LEMMA SendKeeps ==
  ASSUME NetInv, NEW i \in Transfers, Net!Send(i)
  PROVE  NetInv'
BY AnsweredKeeps DEF Net!Send, Trying

(* And receiving, that no reply yet is no error.                           *)
LEMMA RecvKeeps ==
  ASSUME NetInv, NEW i \in Transfers, Net!Recv(i)
  PROVE  NetInv'
<1>1. PICK wsa : wsa = IF Net!SoError(i) # "none" THEN Net!SoError(i)
                       ELSE IF replied[i] THEN "none" ELSE "EWOULDBLOCK"
  OBVIOUS
<1>2. doing[i] \in Trying /\ UNCHANGED addrs /\ Net!Answered(i, "done", wsa, {})
  BY <1>1 DEF Net!Recv, Trying
<1>3. Net!SoError(i) = "none" => wsa \in {"none", "EWOULDBLOCK"}
  BY <1>1
<1> QED
  BY <1>2, <1>3, AnsweredKeeps

(* So it stays, whatever the client, the host and the peers do.            *)
LEMMA NetKeeps == NetInv /\ [Net!Next]_sockVars => NetInv'
<1> SUFFICES ASSUME NetInv, Net!Next \/ UNCHANGED sockVars PROVE NetInv'
  OBVIOUS
<1>1. CASE UNCHANGED <<doing, addrs, try, sock, failed>>
  BY <1>1 DEF NetInv, NetDomains, TransferAt
<1>2. CASE UNCHANGED sockVars
  BY <1>1, <1>2 DEF sockVars
<1>3. CASE Net!Wait
  BY <1>1, <1>3 DEF Net!Wait
<1>4. ASSUME NEW i \in Transfers, Net!Step(i) PROVE NetInv'
  BY <1>4, ResolveKeeps, SocketKeeps, ConnectKeeps, AskKeeps, SendKeeps, RecvKeeps DEF Net!Step
<1>5. ASSUME NEW i \in Transfers, Net!Establish(i) \/ Net!Refuse(i) \/ Net!Reset(i) PROVE NetInv'
  BY <1>5, BecomesKeeps DEF Net!Establish, Net!Refuse, Net!Reset, States
<1>6. ASSUME NEW i \in Transfers, Net!Reply(i) PROVE NetInv'
  BY <1>1, <1>6 DEF Net!Reply
<1> QED
  BY <1>2, <1>3, <1>4, <1>5, <1>6 DEF Net!Next

(* And with that no address is left unless it failed.                      *)
LEMMA NetSound == NetInv => LeavesOnlyFailed
<1> SUFFICES ASSUME NetInv PROVE LeavesOnlyFailed
  OBVIOUS
<1>1. ASSUME NEW i \in Transfers
      PROVE  /\ doing[i] \in {"begins", "resolved", "opened", "connects", "sends", "asked", "awaits",
                              "done", "gaveup"}
             /\ sock[i].family \in {0, Net!AfInet, Net!HostAfInet6} /\ try[i] \in 0 .. Len(addrs[i]) + 1
             /\ failed[i] \subseteq 1 .. Len(addrs[i])
             /\ 1 .. try[i] - 1 \subseteq failed[i] /\ (doing[i] = "gaveup" => try[i] > 0)
  <2>1. PICK n, p, t, s, f :
          n = Len(addrs[i]) /\ p = doing[i] /\ t = try[i] /\ s = sock[i] /\ f = failed[i]
    OBVIOUS
  <2>2. TransferOk(p, addrs[i], t, s, f)
    BY <2>1 DEF NetInv, TransferAt
  <2>3. /\ n \in Nat /\ p \in Trying \cup {"begins", "gaveup"} /\ f \subseteq 1 .. n /\ 1 .. t - 1 \subseteq f
        /\ s.family \in {0, Net!AfInet, Net!HostAfInet6}
    BY <2>1, <2>2 DEF TransferOk
  <2>4. (p = "begins" => t = 0) /\ (p \in Trying => t \in 1 .. n) /\ (p = "gaveup" => t = n + 1)
    BY <2>1, <2>2 DEF TransferOk
  <2>5. t \in 0 .. n + 1 /\ (p = "gaveup" => t > 0)
    BY <2>3, <2>4
  <2> QED
    BY <2>1, <2>3, <2>5 DEF Trying
<1> QED
  BY <1>1 DEF LeavesOnlyFailed, Net!TypeOK, Net!LeavesOnlyFailed

-----------------------------------------------------------------------------
(* CrashReports.  A report reads what is there, and an address is named as *)
(* the table has it.                                                       *)
NamedAsIs ==
  named = Crash!NoName
    \/ (named.addr \in Nat /\ named.symbol = Crash!SymbolAt(named.addr))

CrashInv ==
  /\ symbols \in Tables
  /\ phase \in {"runs", "stack", "points", "reported", "peeks", "peeked"}
  /\ depth \in 0 .. MaxDepth /\ at \in Nat /\ chain \in Seq(Nat) /\ touched \subseteq Nat
  /\ phase = "runs" => touched = {}
  /\ Crash!ReportsSafely /\ NamedAsIs

(* So it is while the guest runs.                                          *)
LEMMA CrashBegins == Crash!ReportsAssumption /\ Crash!Init => CrashInv
BY DEF Crash!ReportsAssumption, Crash!Init, CrashInv, Crash!Null, Crash!ReportsSafely, NamedAsIs

(* What is dumped was asked for first, and is there.                       *)
LEMMA DumpsReadable ==
  ASSUME NEW a
  PROVE  Crash!DumpBytes(a, 4) \subseteq Crash!Readable
<1> DEFINE S == Crash!Readables(a, 4)
<1>1. /\ S \in SUBSET Nat /\ \A n \in S : n <= 4
      /\ \A n \in S : \A w \in a .. a + n - 1 : w \in Crash!Readable
  BY DEF Crash!Readables, Crash!ReadableHere
<1>2. S # {} => \E n \in S : \A m \in S : n >= m
  BY <1>1, Greatest
<1> HIDE DEF S
<1>3. S # {} => Crash!Max(S) \in S
  BY <1>2 DEF Crash!Max
<1> QED
  BY <1>1, <1>3 DEF Crash!DumpBytes, S

(* A null pointer stays one; the frame pointer, and what the guest's       *)
(* registers and memory hold, is any address.                              *)
LEMMA AddressesNat ==
  ASSUME Crash!ReportsAssumption
  PROVE  Crash!Addresses \subseteq Nat /\ Crash!Readable \subseteq Nat /\ Crash!Null \in Nat
BY DEF Crash!ReportsAssumption, Crash!Addresses, Crash!Null, Crash!Readable

(* A name stays what the table says.                                       *)
LEMMA NameStays ==
  ASSUME NamedAsIs, UNCHANGED symbols, UNCHANGED named \/ named' = Crash!NoName
  PROVE  NamedAsIs'
BY DEF NamedAsIs, Crash!SymbolAt, Crash!Covers

(* The walk over the frames asks for each before it reads it.              *)
LEMMA StackKeeps ==
  ASSUME Crash!ReportsAssumption, CrashInv, Crash!ReportGuestStack
  PROVE  CrashInv'
<1>1. /\ phase = "stack" /\ UNCHANGED <<region, symbols, chain>>
      /\ Crash!Readable' = Crash!Readable
  BY DEF Crash!ReportGuestStack, Crash!Readable
<1>2. MaxDepth \in Nat /\ depth \in 0 .. MaxDepth
  BY DEF Crash!ReportsAssumption, CrashInv
<1>3. Crash!StackEnds => phase' = "points" /\ at' = 0 /\ depth' = 0
  BY DEF Crash!StackEnds, Crash!Null
<1>4. CASE depth = MaxDepth \/ ~Crash!Framed(at)
  <2>1. Crash!StackEnds /\ UNCHANGED <<named, touched>>
    BY <1>4 DEF Crash!ReportGuestStack
  <2> QED
    BY <1>1, <1>2, <1>3, <2>1, NameStays DEF CrashInv, Crash!ReportsSafely
<1>5. CASE ~(depth = MaxDepth \/ ~Crash!Framed(at))
  <2>1. PICK next \in Crash!Addresses, ret \in Crash!Addresses :
          /\ touched' = {at, at + 1}
          /\ IF ret = Crash!Null THEN Crash!StackEnds /\ UNCHANGED named
             ELSE /\ Crash!PrintGuestAddress(ret)
                  /\ IF next <= at THEN Crash!StackEnds
                     ELSE at' = next /\ depth' = depth + 1 /\ UNCHANGED phase
    BY <1>5 DEF Crash!ReportGuestStack
  <2>2. at \in Crash!Readable /\ at + 1 \in Crash!Readable
    BY <1>5 DEF Crash!Framed, Crash!GuestReadable, Crash!ReadableHere
  <2>3. touched' \subseteq Crash!Readable' /\ touched' \subseteq Nat
    BY <1>1, <2>1, <2>2, AddressesNat
  <2>4. next \in Nat /\ ret \in Nat
    BY <2>1, AddressesNat
  <2>5. phase' \in {"stack", "points"} /\ at' \in Nat /\ depth' \in 0 .. MaxDepth
    BY <1>1, <1>2, <1>3, <1>5, <2>1, <2>4
  <2>6. UNCHANGED named \/ named' = [addr |-> ret, symbol |-> Crash!SymbolAt(ret)]
    BY <2>1 DEF Crash!PrintGuestAddress
  <2>7. NamedAsIs'
    <3>1. CASE UNCHANGED named
      BY <1>1, <3>1, NameStays DEF CrashInv
    <3>2. CASE named' = [addr |-> ret, symbol |-> Crash!SymbolAt(ret)]
      BY <1>1, <2>4, <3>2 DEF NamedAsIs, Crash!SymbolAt, Crash!Covers
    <3> QED
      BY <2>6, <3>1, <3>2
  <2> QED
    BY <1>1, <2>3, <2>5, <2>7 DEF CrashInv, Crash!ReportsSafely
<1> QED
  BY <1>4, <1>5

(* What a register points at is dumped as far as it is there, and so is    *)
(* what that points at.                                                    *)
LEMMA PointedKeeps ==
  ASSUME Crash!ReportsAssumption, CrashInv, Crash!ReportPointedAt
  PROVE  CrashInv'
<1>1. PICK r \in Crash!Addresses, inner \in Crash!Addresses, off \in {0, 1} :
          touched' = IF r = Crash!Null THEN {} ELSE Crash!DumpBytes(r, 4) \cup
             IF ~Crash!ReadableHere(r + off, 1) THEN {}
             ELSE {r + off} \cup IF inner = Crash!Null THEN {} ELSE Crash!DumpBytes(inner, 4)
  BY DEF Crash!ReportPointedAt
<1>2. /\ phase' = "reported" /\ named' = Crash!NoName
      /\ UNCHANGED <<region, symbols, at, depth, chain>>
  BY DEF Crash!ReportPointedAt
<1>3. Crash!ReadableHere(r + off, 1) => r + off \in Crash!Readable
  BY DEF Crash!ReadableHere
<1>4. touched' \subseteq Crash!Readable
  BY <1>1, <1>3, DumpsReadable
<1>5. Crash!Readable' = Crash!Readable
  BY <1>2 DEF Crash!Readable
<1> QED
  BY <1>2, <1>4, <1>5, AddressesNat, NameStays DEF CrashInv, Crash!ReportsSafely

(* Following a chain of offsets is no report.                              *)
LEMMA PeeksKeep ==
  ASSUME Crash!ReportsAssumption, CrashInv,
         Crash!Fault \/ (\E c \in Chains : Crash!Peek(c)) \/ Crash!Hop \/ Crash!Peeked
  PROVE  CrashInv'
<1>1. CASE Crash!Fault
  <2>1. PICK fp \in Crash!Addresses : at' = fp
    BY <1>1 DEF Crash!Fault
  <2>2. phase = "runs" /\ phase' = "stack" /\ UNCHANGED <<symbols, depth, chain, named, touched>>
    BY <1>1 DEF Crash!Fault
  <2> QED
    BY <2>1, <2>2, AddressesNat, NameStays DEF CrashInv, Crash!ReportsSafely
<1>2. ASSUME NEW c \in Chains, Crash!Peek(c) PROVE CrashInv'
  <2>1. c \in Seq(Nat) /\ c # <<>>
    BY DEF Crash!ReportsAssumption
  <2>2. Tail(c) \in Seq(Nat) /\ Head(c) \in Nat
    BY <2>1
  <2>3. /\ phase' = "peeks" /\ chain' = Tail(c) /\ at' = 1 + Head(c)
        /\ depth' = 0 /\ named' = Crash!NoName /\ touched' = {} /\ UNCHANGED symbols
    BY <1>2 DEF Crash!Peek
  <2>4. at' \in Nat
    BY <2>2, <2>3
  <2>5. 0 \in 0 .. MaxDepth
    BY DEF Crash!ReportsAssumption
  <2> QED
    BY <2>2, <2>3, <2>4, <2>5, NameStays DEF CrashInv, Crash!ReportsSafely
<1>3. CASE Crash!Hop
  <2>1. PICK next \in Crash!Addresses :
          /\ touched' = {at}
          /\ IF next = Crash!Null THEN phase' = "peeked" /\ UNCHANGED <<at, chain>>
             ELSE at' = next + Head(chain) /\ chain' = Tail(chain) /\ UNCHANGED phase
    BY <1>3 DEF Crash!Hop
  <2>2. phase = "peeks" /\ chain # <<>> /\ UNCHANGED <<symbols, depth, named>>
    BY <1>3 DEF Crash!Hop
  <2>3. at \in Nat /\ chain \in Seq(Nat) /\ Head(chain) \in Nat /\ Tail(chain) \in Seq(Nat)
    BY <2>2 DEF CrashInv
  <2>4. next \in Nat
    BY AddressesNat
  <2>5. at' \in Nat
    BY <2>1, <2>3, <2>4
  <2>6. chain' \in Seq(Nat) /\ phase' \in {"peeks", "peeked"}
    BY <2>1, <2>2, <2>3
  <2>7. touched' \subseteq Nat
    BY <2>1, <2>3
  <2> QED
    BY <2>2, <2>5, <2>6, <2>7, NameStays DEF CrashInv, Crash!ReportsSafely
<1>4. CASE Crash!Peeked
  <2>1. PICK slot \in Crash!Addresses :
          touched' = {at} \cup (IF Crash!ReadableHere(slot, 1) THEN {slot} ELSE {})
    BY <1>4 DEF Crash!Peeked
  <2>2. phase' = "peeked" /\ UNCHANGED <<symbols, at, depth, chain, named>>
    BY <1>4 DEF Crash!Peeked
  <2>3. touched' \subseteq Nat
    BY <2>1, AddressesNat DEF CrashInv
  <2> QED
    BY <2>2, <2>3, NameStays DEF CrashInv, Crash!ReportsSafely
<1> QED
  BY <1>1, <1>2, <1>3, <1>4

(* So it stays, whatever the guest left in its registers and memory.       *)
LEMMA CrashKeeps == Crash!ReportsAssumption /\ CrashInv /\ [Crash!Next]_crashVars => CrashInv'
<1> SUFFICES ASSUME Crash!ReportsAssumption, CrashInv, Crash!Next \/ UNCHANGED crashVars PROVE CrashInv'
  OBVIOUS
<1>1. CASE UNCHANGED crashVars
  BY <1>1 DEF crashVars, CrashInv, NamedAsIs, Crash!ReportsSafely, Crash!Readable, Crash!SymbolAt, Crash!Covers
<1>2. CASE Crash!Next
  BY <1>2, StackKeeps, PointedKeeps, PeeksKeep DEF Crash!Next
<1> QED
  BY <1>1, <1>2

(* The nearest function that begins at or before an address is the one the *)
(* address is inside, if there is one.                                     *)
LEMMA NearestIsIt ==
  ASSUME Crash!Orderly(symbols), NEW a \in Nat, NEW s \in symbols
  PROVE  /\ s.kind = "func" /\ a \in s.start .. s.start + s.length - 1 => Crash!SymbolAt(a) = s.name
         /\ Crash!SymbolAt(a) = s.name =>
              (s.kind = "func" /\ a \in s.start .. s.start + s.length - 1) \/ s.size = 0
<1> DEFINE over   == {o \in symbols : Crash!Covers(o, a)}
           starts == {o.start : o \in over}
<1>1. \A o \in symbols : /\ o.name # "none" /\ o.start \in Nat \ {0} /\ o.length \in Nat \ {0}
                         /\ o.size \in {0, o.length}
  BY DEF Crash!Orderly
<1>2. \A o, p \in symbols : o # p =>
         /\ o.name # p.name
         /\ o.kind = "func" /\ p.kind = "func" =>
              o.start + o.length <= p.start \/ p.start + p.length <= o.start
  BY DEF Crash!Orderly
<1>3. CASE over = {}
  <2>1. Crash!SymbolAt(a) = "none"
    BY <1>3 DEF Crash!SymbolAt
  <2>2. ~Crash!Covers(s, a)
    BY <1>3
  <2>3. ~(s.kind = "func" /\ a \in s.start .. s.start + s.length - 1)
    BY <1>1, <2>2 DEF Crash!Covers
  <2> QED
    BY <1>1, <2>1, <2>3
<1>4. CASE over # {}
  <2>1. /\ starts \in SUBSET Nat /\ starts # {} /\ \A n \in starts : n <= a
    BY <1>1, <1>4 DEF Crash!Covers
  <2>2. \E n \in starts : \A m \in starts : n >= m
    BY <2>1, Greatest
  <2>3. PICK top : top = Crash!Max(starts)
    OBVIOUS
  <2> HIDE DEF starts
  <2>4. top \in starts /\ \A m \in starts : top >= m
    BY <2>2, <2>3 DEF Crash!Max
  <2> USE DEF starts
  <2>5. \E o \in over : o.start = top
    BY <2>4
  <2>6. PICK o : o = CHOOSE x \in over : x.start = Crash!Max(starts)
    OBVIOUS
  <2>7. o \in over /\ o.start = top
    BY <2>3, <2>5, <2>6
  <2>8. Crash!SymbolAt(a) = o.name
    BY <1>4, <2>6 DEF Crash!SymbolAt
  <2>9. o \in symbols /\ o.kind = "func" /\ o.start <= a /\ (o.size = 0 \/ a < o.start + o.size)
    BY <2>7 DEF Crash!Covers
  <2>10. ASSUME s.kind = "func", a \in s.start .. s.start + s.length - 1 PROVE o = s
    <3>1. s \in over
      BY <1>1, <2>10 DEF Crash!Covers
    <3>2. o.start >= s.start
      BY <2>4, <2>7, <3>1
    <3>3. SUFFICES ASSUME o # s PROVE FALSE
      OBVIOUS
    <3>4. o.start + o.length <= s.start \/ s.start + s.length <= o.start
      BY <1>2, <2>9, <2>10, <3>3
    <3> QED
      BY <1>1, <2>9, <2>10, <3>2, <3>4
  <2>11. ASSUME o.name = s.name PROVE o = s
    BY <1>2, <2>9, <2>11
  <2>12. o = s => (s.kind = "func" /\ a \in s.start .. s.start + s.length - 1) \/ s.size = 0
    BY <1>1, <2>9
  <2> QED
    BY <2>8, <2>10, <2>11, <2>12
<1> QED
  BY <1>3, <1>4

(* And with that a report is safe, and names the functions there are.      *)
LEMMA CrashSound == Crash!ReportsAssumption /\ CrashInv => ReportsSafely
<1> SUFFICES ASSUME Crash!ReportsAssumption, CrashInv PROVE ReportsSafely
  OBVIOUS
<1>1. Crash!Orderly(symbols)
  BY DEF Crash!ReportsAssumption, CrashInv
<1>2. CASE named = Crash!NoName
  <2>1. \A s \in symbols : s.name # "none" /\ s.start \in Nat \ {0} /\ s.length \in Nat
    BY <1>1 DEF Crash!Orderly
  <2>2. named.addr = 0 /\ named.symbol = "none"
    BY <1>2 DEF Crash!NoName
  <2> QED
    BY <2>1, <2>2 DEF CrashInv, ReportsSafely, Crash!TypeOK, Crash!NamesFunction
<1>3. CASE named # Crash!NoName
  <2>1. named.addr \in Nat /\ named.symbol = Crash!SymbolAt(named.addr)
    BY <1>3 DEF CrashInv, NamedAsIs
  <2>2. Crash!NamesFunction
    BY <1>1, <2>1, NearestIsIt DEF Crash!NamesFunction
  <2> QED
    BY <2>2 DEF CrashInv, ReportsSafely, Crash!TypeOK
<1> QED
  BY <1>2, <1>3

-----------------------------------------------------------------------------
(* Files.  A mapping under way that nobody has disturbed has its           *)
(* descriptor still, whose offset is just behind the bytes it has; and a   *)
(* directory stream has told the entries up to the one it is at.           *)
Mappings ==
  [state : {"reads", "mapped"}, fd : Pair, at : {0, 1}, want : {2}, bytes : Seq(Nat), disturbed : BOOLEAN]

Undisturbed(m) ==
  /\ \A i \in DOMAIN m.bytes : m.bytes[i] = m.at + i
  /\ m.state = "reads" => desc[m.fd] # 0 /\ pos[desc[m.fd]] = m.at + Len(m.bytes)
  /\ m.state = "mapped" => (Len(m.bytes) < m.want => m.at + Len(m.bytes) >= size)

MappingOk(m) ==
  m = File!NoMap
    \/ (m \in Mappings /\ Len(m.bytes) <= m.want /\ (m.disturbed \/ Undisturbed(m)))

ToldSoFar(d, g) ==
  /\ d \in [state : {"none", "open", "ended"}, data : Nat, pending : BOOLEAN]
  /\ g \in Seq(STRING) /\ \A i \in 1 .. Len(g) : g[i] = Entries[i]
  /\ d.state = "none" => g = <<>>
  /\ d.state = "open" =>
       d.data \in 1 .. Len(Entries) /\ Len(g) = IF d.pending THEN d.data - 1 ELSE d.data
  /\ d.state = "ended" => Len(g) = Len(Entries)

OffsetsOk ==
  /\ size \in -1 .. Size
  /\ desc \in [Pair -> File!Descs \cup {0}] /\ pos \in [File!Descs -> 0 .. Size]

FdInv  == OffsetsOk /\ DOMAIN map = Pair /\ \A t \in Pair : MappingOk(map[t])
DirInv ==
  DOMAIN find = Pair /\ DOMAIN given = Pair /\ \A t \in Pair : ToldSoFar(find[t], given[t])
StreamInv == file \in [FileStreams -> Paths \cup {File!NoPath}]

FileInv == FdInv /\ DirInv /\ StreamInv

(* So it is before anything is opened.                                     *)
LEMMA FileBegins == File!FilesAssumption /\ File!Init => FileInv
<1> SUFFICES ASSUME File!FilesAssumption, File!Init PROVE FileInv
  OBVIOUS
<1>1. OffsetsOk
  BY DEF File!FilesAssumption, File!Init, OffsetsOk, File!NoDesc
<1>2. FdInv
  BY <1>1 DEF File!Init, FdInv, MappingOk
<1>3. DirInv
  <2>1. ToldSoFar(File!NoFind, <<>>)
    BY DEF ToldSoFar, File!NoFind
  <2> QED
    BY <2>1 DEF File!Init, DirInv
<1> QED
  BY <1>2, <1>3 DEF File!Init, FileInv, StreamInv

(* There are as many descriptions as descriptors, so that a descriptor     *)
(* that is given out has one that nothing uses.                            *)
LEMMA OneIsUnused ==
  ASSUME File!FilesAssumption, OffsetsOk, NEW f \in Pair, desc[f] = 0
  PROVE  File!Unused \in File!Descs
<1> DEFINE S == Pair \ {f}
           F == [g \in S |-> desc[g]]
           T == {desc[g] : g \in S}
           c == Cardinality(Pair)
<1>1. IsFiniteSet(Pair) /\ c \in Nat
  BY FS_CardinalityType DEF File!FilesAssumption, File!IsFiniteSet, IsFiniteSet
<1>2. IsFiniteSet(S) /\ Cardinality(S) = c - 1
  BY <1>1, FS_RemoveElement
<1>3. IsFiniteSet(T) /\ Cardinality(T) <= c - 1
  <2>1. F \in Surjection(S, T)
    BY DEF Surjection
  <2> HIDE DEF c, S, T, F
  <2>2. IsFiniteSet(T) /\ Cardinality(T) <= Cardinality(S)
    BY <1>2, <2>1, FS_Surjection
  <2> QED
    BY <1>2, <2>2
<1>4. Cardinality(1 .. c) = c
  BY <1>1, FS_Interval
<1>5. ~(1 .. c \subseteq T)
  <2>1. SUFFICES ASSUME 1 .. c \subseteq T PROVE FALSE
    OBVIOUS
  <2>2. Cardinality(1 .. c) <= Cardinality(T) /\ Cardinality(T) \in Nat
    BY <1>3, <2>1, FS_Subset, FS_CardinalityType
  <2> QED
    BY <1>1, <1>3, <1>4, <2>2
<1>6. PICK d \in 1 .. c : d \notin T
  BY <1>5
<1>7. File!Descs = 1 .. c
  BY DEF File!Descs, File!Cardinality, Cardinality, File!IsFiniteSet, IsFiniteSet
<1>8. \A g \in Pair : desc[g] # d
  BY <1>6
<1>9. d \in File!Descs
  BY <1>6, <1>7
<1> HIDE DEF T, c
<1> QED
  BY <1>8, <1>9 DEF File!Unused

(* What a disturbed mapping becomes is one; and it is never undisturbed    *)
(* again.                                                                  *)
Disturbed(m) == [m EXCEPT !.disturbed = TRUE, !.at = 0, !.bytes = [i \in DOMAIN @ |-> 0]]

(* A disturbed mapping is as it has to be: nothing is claimed of its bytes. *)
LEMMA DisturbedOk ==
  ASSUME NEW m, MappingOk(m), m # File!NoMap, NEW n, n = Disturbed(m)
  PROVE  MappingOk(n)'
<1>1. m \in Mappings /\ Len(m.bytes) <= m.want
  BY DEF MappingOk
<1>2. PICK b : b = m.bytes
  OBVIOUS
<1>3. PICK c : c = [i \in DOMAIN b |-> 0]
  OBVIOUS
<1>4. b \in Seq(Nat)
  BY <1>1, <1>2 DEF Mappings
<1>5. c \in Seq(Nat) /\ Len(c) = Len(b)
  BY <1>3, <1>4
<1>6. Disturbed(m) = [m EXCEPT !.disturbed = TRUE, !.at = 0, !.bytes = c]
  BY <1>2, <1>3 DEF Disturbed
<1>7. n \in Mappings /\ n.disturbed /\ n.bytes = c /\ n.want = m.want
  BY <1>1, <1>5, <1>6 DEF Mappings
<1> QED
  BY <1>1, <1>2, <1>5, <1>7 DEF MappingOk

(* One that is left alone is as it was, if its descriptor and what that is *)
(* at are, and once it is there if the file is.                            *)
LEMMA LeftAlone ==
  ASSUME NEW m, MappingOk(m),
         m # File!NoMap /\ m.state = "reads" /\ desc[m.fd] # 0 =>
           desc'[m.fd] = desc[m.fd] /\ pos'[desc[m.fd]] = pos[desc[m.fd]],
         m # File!NoMap /\ m.state = "mapped" => size' = size
  PROVE  MappingOk(m)'
<1>1. CASE m = File!NoMap
  BY <1>1 DEF MappingOk
<1>2. CASE m # File!NoMap
  BY <1>2 DEF MappingOk, Undisturbed
<1> QED
  BY <1>1, <1>2

(* Nothing but a mapping has that state.                                   *)
LEMMA StateTells ==
  ASSUME NEW m, MappingOk(m)
  PROVE  /\ m.state = "none" <=> m = File!NoMap
         /\ m.state # "none" => m \in Mappings
BY DEF MappingOk, Mappings, File!NoMap

(* When a file is changed every mapping of it is disturbed.                *)
LEMMA RewrittenKeeps ==
  ASSUME FdInv, map' = File!Rewritten
  PROVE  DOMAIN map' = Pair /\ \A t \in Pair : MappingOk(map[t])'
<1>1. map' = [u \in Pair |-> IF map[u].state = "none" THEN map[u] ELSE Disturbed(map[u])]
  BY DEF File!Rewritten, File!Disturb, Disturbed
<1>2. ASSUME NEW u \in Pair PROVE MappingOk(map[u])'
  <2>1. PICK m, n : m = map[u] /\ n = map'[u]
    OBVIOUS
  <2>2. MappingOk(m) /\ n = IF m.state = "none" THEN m ELSE Disturbed(m)
    BY <1>1, <2>1 DEF FdInv
  <2>3. MappingOk(n)'
    <3>1. CASE m.state = "none"
      BY <2>2, <3>1, StateTells DEF MappingOk
    <3>2. CASE m.state # "none"
      <4>1. m # File!NoMap /\ n = Disturbed(m)
        BY <2>2, <3>2, StateTells
      <4> QED
        BY <2>2, <4>1, DisturbedOk
    <3> QED
      BY <3>1, <3>2
  <2> QED
    BY <2>1, <2>3 DEF MappingOk, Undisturbed
<1> QED
  BY <1>1, <1>2

(* When an offset is moved, or a descriptor loses its description, those   *)
(* that read through it are, and to the others nothing happens.            *)
LEMMA MovedKeeps ==
  ASSUME FdInv, NEW d, NEW t \in Pair, map'[t] = File!Moved(d)[t], UNCHANGED size,
         \A g \in Pair : desc[g] # 0 /\ desc[g] # d =>
            desc'[g] = desc[g] /\ pos'[desc[g]] = pos[desc[g]]
  PROVE  MappingOk(map[t])'
<1>1. PICK m, n : m = map[t] /\ n = map'[t]
  OBVIOUS
<1>2. /\ MappingOk(m)
      /\ n = IF m.state = "none" \/ ~(m.state = "reads" /\ desc[m.fd] = d)
             THEN m ELSE Disturbed(m)
  BY <1>1 DEF FdInv, File!Moved, File!Disturb, Disturbed
<1>3. MappingOk(n)'
  <2>1. CASE m.state = "none"
    BY <1>2, <2>1, StateTells DEF MappingOk
  <2>2. CASE m.state = "reads" /\ desc[m.fd] = d
    <3>1. m # File!NoMap /\ n = Disturbed(m)
      BY <1>2, <2>2, StateTells
    <3> QED
      BY <1>2, <3>1, DisturbedOk
  <2>3. CASE m.state # "none" /\ ~(m.state = "reads" /\ desc[m.fd] = d)
    <3>1. m \in Mappings /\ n = m
      BY <1>2, <2>3, StateTells
    <3>2. m.fd \in Pair
      BY <3>1 DEF Mappings
    <3>3. m.state = "reads" /\ desc[m.fd] # 0 =>
            desc'[m.fd] = desc[m.fd] /\ pos'[desc[m.fd]] = pos[desc[m.fd]]
      BY <2>3, <3>2
    <3> QED
      BY <1>2, <3>1, <3>3, LeftAlone
  <2> QED
    BY <2>1, <2>2, <2>3
<1> QED
  BY <1>1, <1>3 DEF MappingOk, Undisturbed

(* All at once.                                                            *)
LEMMA AllMovedKeep ==
  ASSUME FdInv, NEW d, map' = File!Moved(d), UNCHANGED size, OffsetsOk',
         \A g \in Pair : desc[g] # 0 /\ desc[g] # d =>
            desc'[g] = desc[g] /\ pos'[desc[g]] = pos[desc[g]]
  PROVE  FdInv'
<1>1. DOMAIN map' = Pair
  BY DEF File!Moved, File!Disturb
<1>2. ASSUME NEW t \in Pair PROVE MappingOk(map[t])'
  <2>1. map'[t] = File!Moved(d)[t]
    OBVIOUS
  <2> QED
    BY <2>1, MovedKeeps
<1> QED
  BY <1>1, <1>2 DEF FdInv
(* A descriptor is opened, closed or made another.                         *)
LEMMA OpenKeeps ==
  ASSUME File!FilesAssumption, FdInv, NEW f \in Pair, NEW flags, File!Open(f, flags)
  PROVE  FdInv'
<1>1. /\ desc[f] = 0 /\ desc' = [desc EXCEPT ![f] = File!Unused] /\ UNCHANGED pos
      /\ (size' = 0 /\ map' = File!Rewritten) \/ UNCHANGED <<size, map>>
  BY DEF File!Open, File!NoDesc
<1>2. File!Unused \in File!Descs
  BY <1>1, OneIsUnused DEF FdInv
<1>3. OffsetsOk'
  BY <1>1, <1>2 DEF FdInv, OffsetsOk, File!FilesAssumption
<1>4. CASE map' = File!Rewritten
  BY <1>3, <1>4, RewrittenKeeps DEF FdInv
<1>5. CASE UNCHANGED <<size, map>>
  <2>1. ASSUME NEW t \in Pair PROVE MappingOk(map[t])'
    <3>1. PICK m : m = map[t]
      OBVIOUS
    <3>2. MappingOk(m)
      BY <3>1 DEF FdInv
    <3>3. m # File!NoMap => m.fd \in Pair
      BY <3>2 DEF MappingOk, Mappings
    <3>4. m # File!NoMap /\ desc[m.fd] # 0 => desc'[m.fd] = desc[m.fd]
      BY <1>1, <3>3 DEF FdInv, OffsetsOk
    <3>5. MappingOk(m)'
      BY <1>1, <1>5, <3>2, <3>4, LeftAlone
    <3> QED
      BY <1>5, <3>1, <3>5 DEF MappingOk, Undisturbed
  <2> QED
    BY <1>3, <1>5, <2>1 DEF FdInv
<1> QED
  BY <1>1, <1>4, <1>5

(* A descriptor that is closed, or given another's description, leaves the *)
(* mappings standing: the ones its offset moved under are disturbed.       *)
LEMMA CloseKeeps ==
  ASSUME FdInv, NEW f \in Pair, NEW d \in File!Descs \cup {0},
         desc' = [desc EXCEPT ![f] = d], pos' = File!Released(f),
         map' = File!Moved(desc[f]), UNCHANGED size, File!FilesAssumption
  PROVE  FdInv'
<1>1. pos' \in [File!Descs -> 0 .. Size]
  BY DEF File!Released, FdInv, OffsetsOk, File!FilesAssumption
<1>2. OffsetsOk'
  BY <1>1 DEF FdInv, OffsetsOk
<1>3. ASSUME NEW g \in Pair, desc[g] # 0, desc[g] # desc[f]
      PROVE  desc'[g] = desc[g] /\ pos'[desc[g]] = pos[desc[g]]
  <2>1. g # f /\ desc[g] \in File!Descs
    BY <1>3 DEF FdInv, OffsetsOk
  <2>2. desc'[g] = desc[g]
    BY <2>1 DEF FdInv, OffsetsOk
  <2>3. pos'[desc[g]] = pos[desc[g]]
    BY <2>1 DEF File!Released
  <2> QED
    BY <2>2, <2>3
<1>4. PICK e : e = desc[f]
  OBVIOUS
<1>5. map' = File!Moved(e)
  BY <1>4
<1> QED
  BY <1>2, <1>3, <1>4, <1>5, AllMovedKeep

(* An offset is set or moved.                                              *)
LEMMA OffsetMovedKeeps ==
  ASSUME FdInv, NEW f \in Pair, desc[f] # 0, NEW p \in 0 .. Size,
         pos' = [pos EXCEPT ![desc[f]] = p], map' = File!Moved(desc[f]), UNCHANGED <<size, desc>>
  PROVE  FdInv'
<1>1. PICK e : e = desc[f]
  OBVIOUS
<1>2. OffsetsOk'
  BY DEF FdInv, OffsetsOk
<1>3. \A g \in Pair : desc[g] # 0 /\ desc[g] # e =>
         desc'[g] = desc[g] /\ pos'[desc[g]] = pos[desc[g]]
  BY <1>1 DEF FdInv, OffsetsOk
<1>4. map' = File!Moved(e)
  BY <1>1
<1> QED
  BY <1>2, <1>3, <1>4, AllMovedKeep

(* What threads do with descriptors besides mapping.                       *)
LEMMA UsesKeep ==
  ASSUME File!FilesAssumption, FdInv, NEW t \in Pair, map[t].state # "reads",
         \/ \E f \in Pair : \/ \E flags \in {{}, {"CREAT", "EXCL"}, {"CREAT", "TRUNC"}} : File!Open(f, flags)
                            \/ File!Close(f) \/ File!Read(f, 1) \/ File!Lseek(f, 0) \/ File!Write(f, 1)
                            \/ File!Ftruncate(f, 1)
         \/ \E f, g \in Pair : File!Dup2(f, g)
         \/ File!Truncate(Size)
  PROVE  FdInv'
<1> USE DEF File!NoDesc
<1>1. ASSUME NEW f \in Pair, NEW flags, File!Open(f, flags) PROVE FdInv'
  BY <1>1, OpenKeeps
<1>2. ASSUME NEW f \in Pair, File!Close(f) PROVE FdInv'
  BY <1>2, CloseKeeps DEF File!Close
<1>3. ASSUME NEW f \in Pair, File!Read(f, 1) \/ File!Lseek(f, 0) PROVE FdInv'
  <2>1. desc[f] \in File!Descs /\ pos[desc[f]] \in 0 .. Size /\ size \in -1 .. Size /\ Size \in Nat
    BY <1>3 DEF File!Read, File!Lseek, FdInv, OffsetsOk, File!FilesAssumption
  <2>2. map' = File!Moved(desc[f]) /\ UNCHANGED <<size, desc>> /\ desc[f] # 0
    BY <1>3 DEF File!Read, File!Lseek
  <2>3. CASE File!Read(f, 1)
    <3>1. pos[desc[f]] + 1 \in 0 .. Size /\ pos' = [pos EXCEPT ![desc[f]] = pos[desc[f]] + 1]
      BY <2>1, <2>3 DEF File!Read
    <3> QED
      BY <2>2, <3>1, OffsetMovedKeeps
  <2>4. CASE File!Lseek(f, 0)
    <3>1. 0 \in 0 .. Size /\ pos' = [pos EXCEPT ![desc[f]] = 0]
      BY <2>1, <2>4 DEF File!Lseek
    <3> QED
      BY <2>2, <3>1, OffsetMovedKeeps
  <2> QED
    BY <1>3, <2>3, <2>4
<1>4. ASSUME NEW f \in Pair, File!Write(f, 1) \/ File!Ftruncate(f, 1) \/ File!Truncate(Size) PROVE FdInv'
  <2>1. OffsetsOk'
    BY <1>4 DEF File!Write, File!Ftruncate, File!Truncate, FdInv, OffsetsOk, File!FilesAssumption
  <2>2. map' = File!Rewritten
    BY <1>4 DEF File!Write, File!Ftruncate, File!Truncate
  <2> QED
    BY <2>1, <2>2, RewrittenKeeps DEF FdInv
<1>5. ASSUME NEW f \in Pair, NEW g \in Pair, File!Dup2(f, g) PROVE FdInv'
  <2>1. /\ desc' = [desc EXCEPT ![g] = desc[f]] /\ pos' = File!Released(g)
        /\ map' = File!Moved(desc[g]) /\ UNCHANGED size
    BY <1>5 DEF File!Dup2
  <2>2. desc[f] \in File!Descs \cup {0}
    BY DEF FdInv, OffsetsOk
  <2> QED
    BY <2>1, <2>2, CloseKeeps
<1>6. File!Truncate(Size) => FdInv'
  BY <1>4
<1> QED
  BY <1>1, <1>2, <1>3, <1>4, <1>5, <1>6

(* A mapping begins at the offset it was asked for.                        *)
LEMMA MmapKeeps ==
  ASSUME File!FilesAssumption, FdInv, NEW t \in Pair, NEW f \in Pair, NEW a \in {0, 1}, File!Mmap(t, f, a, 2)
  PROVE  FdInv'
<1> DEFINE m == [state |-> "reads", fd |-> f, at |-> a, want |-> 2, bytes |-> <<>>, disturbed |-> FALSE]
<1>1. PICK e : e = desc[f]
  OBVIOUS
<1>2. /\ e # 0 /\ pos' = [pos EXCEPT ![e] = a] /\ UNCHANGED <<size, desc>>
      /\ map' = [File!Moved(e) EXCEPT ![t] = m]
  BY <1>1 DEF File!Mmap, File!NoDesc
<1>3. OffsetsOk'
  BY <1>1, <1>2 DEF FdInv, OffsetsOk, File!FilesAssumption
<1>4. /\ DOMAIN map' = Pair /\ map'[t] = m
      /\ \A u \in Pair \ {t} : map'[u] = File!Moved(e)[u]
  BY <1>2 DEF File!Moved, File!Disturb
<1>5. ASSUME NEW u \in Pair PROVE MappingOk(map[u])'
  <2>1. CASE u # t
    <3>1. \A g \in Pair : desc[g] # 0 /\ desc[g] # e =>
             desc'[g] = desc[g] /\ pos'[desc[g]] = pos[desc[g]]
      BY <1>1, <1>2 DEF FdInv, OffsetsOk
    <3> QED
      BY <1>2, <1>4, <2>1, <3>1, MovedKeeps
  <2>2. CASE u = t
    <3>1. pos'[e] = a
      BY <1>1, <1>2 DEF FdInv, OffsetsOk
    <3>2. m \in Mappings
      BY DEF Mappings
    <3>3. MappingOk(m)'
      BY <1>1, <1>2, <3>1, <3>2 DEF MappingOk, Undisturbed
    <3> HIDE DEF m
    <3> QED
      BY <1>4, <2>2, <3>3 DEF MappingOk, Undisturbed
  <2> QED
    BY <2>1, <2>2
<1> QED
  BY <1>3, <1>4, <1>5 DEF FdInv

(* It goes on where the last read of it ended.                             *)
LEMMA FillKeeps ==
  ASSUME File!FilesAssumption, FdInv, NEW t \in Pair, File!Fill(t)
  PROVE  FdInv'
<1>1. PICK m : m = map[t]
  OBVIOUS
<1>2. m.state = "reads" /\ MappingOk(m) /\ UNCHANGED <<size, desc>>
  BY <1>1 DEF File!Fill, FdInv
<1>3. m \in Mappings /\ Len(m.bytes) <= m.want /\ (m.disturbed \/ Undisturbed(m))
  BY <1>2, StateTells DEF MappingOk, File!NoMap
<1>4. PICK e : e = desc[m.fd]
  OBVIOUS
<1>5. e \in File!Descs
  BY <1>1, <1>3, <1>4 DEF File!Fill, File!Ends, File!NoDesc, FdInv, OffsetsOk, Mappings
<1>6. PICK p : p = pos[e]
  OBVIOUS
<1>7. PICK n \in 1 .. m.want - Len(m.bytes) :
        /\ p + n <= size /\ pos' = [pos EXCEPT ![e] = p + n]
        /\ map' = [File!Moved(e) EXCEPT ![t] =
                     [m EXCEPT !.bytes = m.bytes \o [i \in 1 .. n |-> IF m.disturbed THEN 0 ELSE p + i]]]
  <2>1. /\ m = map[t] /\ e = desc[map[t].fd] /\ p = pos[desc[map[t].fd]]
    BY <1>1, <1>4, <1>6
  <2>2. PICK n \in 1 .. map[t].want - Len(map[t].bytes) :
          /\ pos[desc[map[t].fd]] + n <= size
          /\ pos' = [pos EXCEPT ![desc[map[t].fd]] = pos[desc[map[t].fd]] + n]
          /\ map' = [File!Moved(desc[map[t].fd]) EXCEPT ![t] =
               [map[t] EXCEPT !.bytes = map[t].bytes \o
                  [i \in 1 .. n |-> IF map[t].disturbed THEN 0 ELSE pos[desc[map[t].fd]] + i]]]
    BY DEF File!Fill
  <2>3. n \in 1 .. m.want - Len(m.bytes) /\ p + n <= size /\ pos' = [pos EXCEPT ![e] = p + n]
    BY <2>1, <2>2
  <2>4. map' = [File!Moved(e) EXCEPT ![t] =
                 [m EXCEPT !.bytes = m.bytes \o [i \in 1 .. n |-> IF m.disturbed THEN 0 ELSE p + i]]]
    BY <2>1, <2>2, Zenon
  <2> QED
    BY <2>3, <2>4
<1>8. p \in 0 .. Size /\ size \in -1 .. Size /\ Size \in Nat /\ n \in Nat
  BY <1>3, <1>5, <1>6, <1>7 DEF FdInv, OffsetsOk, File!FilesAssumption, Mappings
<1>9. OffsetsOk'
  BY <1>2, <1>5, <1>7, <1>8 DEF FdInv, OffsetsOk
<1>10. PICK b, tail, k :
         /\ b = m.bytes /\ tail = [i \in 1 .. n |-> IF m.disturbed THEN 0 ELSE p + i]
         /\ k = [m EXCEPT !.bytes = b \o tail]
  OBVIOUS
<1>11. b \in Seq(Nat) /\ tail \in Seq(Nat) /\ Len(tail) = n
  <2>1. tail = [i \in 1 .. n |-> IF m.disturbed THEN 0 ELSE p + i]
    BY <1>10
  <2>2. tail \in [1 .. n -> Nat]
    BY <1>8, <2>1
  <2>3. tail \in Seq(Nat) /\ Len(tail) = n
    BY <1>8, <2>2
  <2> QED
    BY <1>3, <1>10, <2>3 DEF Mappings
<1>12. /\ b \o tail \in Seq(Nat) /\ Len(b \o tail) = Len(b) + n
       /\ \A i \in 1 .. Len(b) + n : (b \o tail)[i] = IF i <= Len(b) THEN b[i] ELSE tail[i - Len(b)]
  BY <1>11, ConcatProperties
<1>13. k \in Mappings /\ k = [m EXCEPT !.bytes = b \o tail] /\ k.bytes = b \o tail /\ Len(k.bytes) <= k.want
  <2>1. k \in Mappings /\ k = [m EXCEPT !.bytes = b \o tail] /\ k.bytes = b \o tail /\ k.want = m.want
    BY <1>3, <1>10, <1>12 DEF Mappings
  <2>2. m.want = 2 /\ Len(b) \in Nat /\ n <= m.want - Len(b)
    BY <1>3, <1>7, <1>10 DEF Mappings
  <2> QED
    BY <1>8, <1>12, <2>1, <2>2
<1>14. /\ k.state = "reads" /\ k.fd = m.fd /\ k.at = m.at /\ k.want = m.want
       /\ k.disturbed = m.disturbed
  BY <1>2, <1>3, <1>13 DEF Mappings
<1>15. /\ DOMAIN map' = Pair /\ map'[t] = k
       /\ \A u \in Pair \ {t} : map'[u] = File!Moved(e)[u]
  BY <1>7, <1>10 DEF File!Moved, File!Disturb
<1>16. ASSUME ~m.disturbed PROVE Undisturbed(k)'
  <2>1. /\ \A i \in DOMAIN b : b[i] = m.at + i
        /\ p = m.at + Len(b) /\ m.at \in Nat
    BY <1>2, <1>3, <1>4, <1>6, <1>10, <1>16 DEF Undisturbed, Mappings
  <2>2. \A i \in 1 .. n : tail[i] = m.at + Len(b) + i
    BY <1>10, <1>16, <2>1
  <2>3. \A i \in DOMAIN k.bytes : k.bytes[i] = m.at + i
    <3>1. \A i \in 1 .. Len(b) + n : (b \o tail)[i] = m.at + i
      <4> SUFFICES ASSUME NEW i \in 1 .. Len(b) + n PROVE (b \o tail)[i] = m.at + i
        OBVIOUS
      <4>1. CASE i <= Len(b)
        BY <1>11, <1>12, <2>1, <4>1
      <4>2. CASE ~(i <= Len(b))
        <5>1. i - Len(b) \in 1 .. n
          BY <1>8, <1>11, <4>2
        <5>2. tail[i - Len(b)] = m.at + Len(b) + (i - Len(b))
          BY <2>2, <5>1
        <5> QED
          BY <1>11, <1>12, <2>1, <4>2, <5>2
      <4> QED
        BY <4>1, <4>2
    <3> QED
      BY <1>12, <1>13, <3>1
  <2>4. pos'[e] = m.at + Len(k.bytes)
    BY <1>5, <1>7, <1>8, <1>11, <1>12, <1>13, <2>1 DEF FdInv, OffsetsOk
  <2>5. desc'[k.fd] = e /\ e # 0
    BY <1>2, <1>4, <1>5, <1>14 DEF File!Descs
  <2> QED
    BY <1>14, <2>3, <2>4, <2>5 DEF Undisturbed
<1>17. MappingOk(k)'
  BY <1>13, <1>14, <1>16 DEF MappingOk
<1>18. ASSUME NEW u \in Pair PROVE MappingOk(map[u])'
  <2>1. CASE u # t
    <3>1. \A g \in Pair : desc[g] # 0 /\ desc[g] # e =>
             desc'[g] = desc[g] /\ pos'[desc[g]] = pos[desc[g]]
      BY <1>2, <1>7 DEF FdInv, OffsetsOk
    <3> QED
      BY <1>2, <1>15, <2>1, <3>1, MovedKeeps
  <2>2. CASE u = t
    BY <1>15, <1>17, <2>2 DEF MappingOk, Undisturbed
  <2> QED
    BY <2>1, <2>2
<1> QED
  BY <1>9, <1>15, <1>18 DEF FdInv

(* And when it has enough, or there is no more, it is mapped, and later    *)
(* unmapped.                                                               *)
LEMMA MappedKeeps ==
  ASSUME FdInv, NEW t \in Pair, File!Mapped(t) \/ File!Munmap(t)
  PROVE  FdInv'
<1>1. PICK m, k : m = map[t] /\ k = map'[t]
  OBVIOUS
<1>2. MappingOk(m) /\ UNCHANGED <<size, desc, pos>>
  BY <1>1 DEF File!Mapped, File!Munmap, File!fdVars, FdInv
<1>3. DOMAIN map' = Pair /\ \A u \in Pair \ {t} : map'[u] = map[u]
  BY DEF File!Mapped, File!Munmap, FdInv
<1>4. MappingOk(k)'
  <2>1. CASE File!Munmap(t)
    BY <1>1, <2>1 DEF File!Munmap, FdInv, MappingOk
  <2>2. CASE File!Mapped(t)
    <3>1. m.state = "reads" /\ k = [m EXCEPT !.state = "mapped"]
      BY <1>1, <2>2 DEF File!Mapped, FdInv
    <3>2. m \in Mappings /\ Len(m.bytes) <= m.want /\ (m.disturbed \/ Undisturbed(m))
      BY <1>2, <3>1 DEF MappingOk, File!NoMap
    <3>3. /\ k \in Mappings /\ k.bytes = m.bytes /\ k.want = m.want /\ k.at = m.at
          /\ k.disturbed = m.disturbed /\ k.state = "mapped"
      BY <3>1, <3>2 DEF Mappings
    <3>4. Len(m.bytes) = m.want \/ desc[m.fd] = 0 \/ pos[desc[m.fd]] >= size
      <4>1. {File!Enough(m), File!Ends(m)} # {FALSE}
        BY <1>1, <2>2 DEF File!Mapped
      <4>2. File!Enough(m) \in BOOLEAN /\ File!Ends(m) \in BOOLEAN
        <5>1. desc[m.fd] \in File!Descs => pos[desc[m.fd]] \in Int /\ size \in Int
          BY DEF FdInv, OffsetsOk
        <5>2. desc[m.fd] \in File!Descs \cup {0}
          BY <3>2 DEF FdInv, OffsetsOk, Mappings
        <5>3. desc[m.fd] \in File!Descs => (pos[desc[m.fd]] >= size) \in BOOLEAN
          BY <5>1
        <5> QED
          BY <5>2, <5>3 DEF File!Enough, File!Ends, File!NoDesc
      <4>3. File!Enough(m) \/ File!Ends(m)
        BY <4>1, <4>2, Zenon
      <4> QED
        BY <4>3 DEF File!Enough, File!Ends, File!NoDesc
    <3>5. ~m.disturbed => (Len(m.bytes) < m.want => m.at + Len(m.bytes) >= size)
      <4>1. Len(m.bytes) \in Nat /\ m.want = 2
        BY <3>2 DEF Mappings
      <4> QED
        BY <3>1, <3>2, <3>4, <4>1 DEF Undisturbed
    <3> QED
      BY <1>2, <3>1, <3>2, <3>3, <3>5 DEF MappingOk, Undisturbed
  <2> QED
    BY <2>1, <2>2
<1>5. ASSUME NEW u \in Pair PROVE MappingOk(map[u])'
  <2>1. CASE u # t
    BY <1>2, <1>3, <2>1 DEF FdInv, MappingOk, Undisturbed
  <2>2. CASE u = t
    BY <1>1, <1>4, <2>2 DEF MappingOk, Undisturbed
  <2> QED
    BY <2>1, <2>2
<1> QED
  BY <1>2, <1>3, <1>5 DEF FdInv, OffsetsOk

(* So it is with every call on descriptors.                                *)
LEMMA FdKeeps == File!FilesAssumption /\ FdInv /\ [File!FdNext]_fdVars => FdInv'
<1> SUFFICES ASSUME File!FilesAssumption, FdInv, File!FdNext \/ UNCHANGED fdVars PROVE FdInv'
  OBVIOUS
<1>1. CASE UNCHANGED fdVars
  BY <1>1 DEF fdVars, FdInv, OffsetsOk, MappingOk, Undisturbed
<1>2. CASE File!FdNext
  <2>1. PICK t \in Pair : \/ map[t].state # "reads" /\ File!UsesFds(t)
                          \/ File!Fill(t) \/ File!Mapped(t) \/ File!Munmap(t)
    BY <1>2 DEF File!FdNext
  <2>2. CASE map[t].state # "reads" /\ File!UsesFds(t)
    <3>1. CASE \E f \in Pair, a \in {0, 1} : File!Mmap(t, f, a, 2)
      BY <3>1, MmapKeeps
    <3>2. CASE ~(\E f \in Pair, a \in {0, 1} : File!Mmap(t, f, a, 2))
      BY <2>2, <3>2, UsesKeep DEF File!UsesFds
    <3> QED
      BY <3>1, <3>2
  <2> QED
    BY <2>1, <2>2, FillKeeps, MappedKeeps
<1> QED
  BY <1>1, <1>2

(* A directory tells the next of its entries.                              *)
LEMMA ToldNext ==
  ASSUME File!FilesAssumption, NEW d, NEW g, ToldSoFar(d, g), NEW e, NEW h,
         NEW n, n = IF d.pending THEN d.data ELSE d.data + 1, d.state = "open",
         IF n \in DOMAIN Entries
         THEN e = [d EXCEPT !.pending = FALSE, !.data = n] /\ h = Append(g, Entries[n])
         ELSE e = [d EXCEPT !.state = "ended"] /\ h = g
  PROVE  ToldSoFar(e, h)
<1>1. /\ d \in [state : {"none", "open", "ended"}, data : Nat, pending : BOOLEAN]
      /\ g \in Seq(STRING) /\ \A i \in 1 .. Len(g) : g[i] = Entries[i]
      /\ d.data \in 1 .. Len(Entries) /\ Len(g) = IF d.pending THEN d.data - 1 ELSE d.data
  BY DEF ToldSoFar
<1>2. Entries \in Seq(STRING) /\ Len(g) = n - 1 /\ n \in Nat \ {0}
  BY <1>1 DEF File!FilesAssumption
<1>3. CASE n \in DOMAIN Entries
  <2>1. Entries[n] \in STRING
    BY <1>2, <1>3
  <2>2. h \in Seq(STRING) /\ Len(h) = n /\ h[n] = Entries[n] /\ \A i \in 1 .. n - 1 : h[i] = g[i]
    <3>1. PICK x \in STRING : x = Entries[n]
      BY <2>1
    <3>2. h = Append(g, x)
      BY <1>3, <3>1
    <3>3. Len(g) + 1 = n
      BY <1>2
    <3>4. g \in Seq(STRING)
      BY <1>1
    <3>5. h \in Seq(STRING) /\ Len(h) = Len(g) + 1
      BY <3>2, <3>4
    <3>6. h[Len(g) + 1] = x /\ \A i \in 1 .. Len(g) : h[i] = g[i]
      BY <3>2, <3>4
    <3>7. n - 1 = Len(g)
      BY <1>2
    <3> QED
      BY <3>1, <3>3, <3>5, <3>6, <3>7
  <2>3. /\ e \in [state : {"none", "open", "ended"}, data : Nat, pending : BOOLEAN]
        /\ e.state = "open" /\ ~e.pending /\ e.data = n
    BY <1>1, <1>2, <1>3
  <2>4. \A i \in 1 .. Len(h) : h[i] = Entries[i]
    <3> SUFFICES ASSUME NEW i \in 1 .. n PROVE h[i] = Entries[i]
      BY <2>2
    <3>1. i = n \/ (i \in 1 .. n - 1 /\ i \in 1 .. Len(g))
      BY <1>2
    <3> QED
      BY <1>1, <2>2, <3>1
  <2> QED
    BY <1>2, <1>3, <2>2, <2>3, <2>4 DEF ToldSoFar
<1>4. CASE n \notin DOMAIN Entries
  <2>1. Len(g) = Len(Entries)
    BY <1>1, <1>2, <1>4
  <2>2. /\ e \in [state : {"none", "open", "ended"}, data : Nat, pending : BOOLEAN]
        /\ e.state = "ended" /\ h = g
    BY <1>1, <1>4
  <2> QED
    BY <1>1, <2>1, <2>2 DEF ToldSoFar
<1> QED
  BY <1>3, <1>4

(* A directory stream tells each entry once, whichever the thread.         *)
LEMMA DirKeeps == File!FilesAssumption /\ DirInv /\ [File!DirNext]_dirVars => DirInv'
<1> SUFFICES ASSUME File!FilesAssumption, DirInv, File!DirNext PROVE DirInv'
  BY DEF dirVars, DirInv
<1>1. PICK t \in Pair : File!Opendir(t) \/ File!Readdir(t) \/ File!Closedir(t)
  BY DEF File!DirNext
<1>2. /\ DOMAIN find' = Pair /\ DOMAIN given' = Pair
      /\ \A u \in Pair \ {t} : find'[u] = find[u] /\ given'[u] = given[u]
  BY <1>1 DEF DirInv, File!Opendir, File!Readdir, File!Closedir
<1>3. PICK d, g, e, h : d = find[t] /\ g = given[t] /\ e = find'[t] /\ h = given'[t]
  OBVIOUS
<1>4. ToldSoFar(d, g)
  BY <1>3 DEF DirInv
<1>5. ToldSoFar(e, h)
  <2>1. CASE File!Opendir(t)
    <3>1. e = [state |-> "open", data |-> 1, pending |-> TRUE] /\ h = <<>> /\ Entries # <<>>
      BY <1>3, <2>1 DEF File!Opendir, DirInv
    <3>2. 1 \in 1 .. Len(Entries)
      BY <3>1 DEF File!FilesAssumption
    <3> QED
      BY <3>1, <3>2 DEF ToldSoFar
  <2>2. CASE File!Closedir(t)
    BY <1>3, <2>2 DEF File!Closedir, File!NoFind, DirInv, ToldSoFar
  <2>3. CASE File!Readdir(t)
    <3>1. PICK n : n = IF d.pending THEN d.data ELSE d.data + 1
      OBVIOUS
    <3>2. /\ d.state = "open"
          /\ IF n \in DOMAIN Entries
             THEN e = [d EXCEPT !.pending = FALSE, !.data = n] /\ h = Append(g, Entries[n])
             ELSE e = [d EXCEPT !.state = "ended"] /\ h = g
      BY <1>3, <2>3, <3>1 DEF File!Readdir, File!NextEntry, DirInv
    <3> QED
      BY <1>4, <3>1, <3>2, ToldNext
  <2> QED
    BY <1>1, <2>1, <2>2, <2>3
<1>6. ASSUME NEW u \in Pair PROVE ToldSoFar(find'[u], given'[u])
  BY <1>2, <1>3, <1>5 DEF DirInv
<1> QED
  BY <1>2, <1>6 DEF DirInv, ToldSoFar

(* Each stream stays a file or none.                                       *)
LEMMA StreamKeeps == StreamInv /\ [File!StreamNext]_streamVars => StreamInv'
BY DEF StreamInv, streamVars, File!StreamNext, File!TraceClose, File!Fopen, File!Freopen

(* So it stays.                                                            *)
LEMMA FileKeeps ==
  ASSUME File!FilesAssumption, FileInv,
         File!FdNext \/ UNCHANGED fdVars, File!DirNext \/ UNCHANGED dirVars,
         File!StreamNext \/ UNCHANGED streamVars
  PROVE  FileInv'
BY FdKeeps, DirKeeps, StreamKeeps DEF FileInv

(* And with that mappings hold the file, and directories tell each entry   *)
(* once.                                                                   *)
LEMMA FileSound ==
  File!FilesAssumption /\ FileInv => File!TypeOK /\ File!MappingHoldsFile /\ File!EntriesOnce
<1> SUFFICES ASSUME File!FilesAssumption, FileInv
             PROVE  File!TypeOK /\ File!MappingHoldsFile /\ File!EntriesOnce
  OBVIOUS
<1>1. File!TypeOK
  BY DEF File!TypeOK, File!NoDesc, FileInv, FdInv, DirInv, StreamInv, OffsetsOk, ToldSoFar
<1>2. File!MappingHoldsFile
  <2> SUFFICES ASSUME NEW t \in Pair, map[t].state = "mapped", ~map[t].disturbed
               PROVE  /\ \A i \in DOMAIN map[t].bytes : map[t].bytes[i] = map[t].at + i
                      /\ Len(map[t].bytes) < map[t].want => map[t].at + Len(map[t].bytes) >= size
    BY DEF File!MappingHoldsFile
  <2>1. PICK m : m = map[t]
    OBVIOUS
  <2>2. MappingOk(m) /\ m.state = "mapped" /\ ~m.disturbed
    BY <2>1 DEF FileInv, FdInv
  <2>3. Undisturbed(m)
    BY <2>2 DEF MappingOk, File!NoMap
  <2> QED
    BY <2>1, <2>2, <2>3 DEF Undisturbed
<1>3. File!EntriesOnce
  <2> SUFFICES ASSUME NEW t \in Pair
               PROVE  /\ given[t] = SubSeq(Entries, 1, Len(given[t]))
                      /\ find[t].state = "ended" => given[t] = Entries
    BY DEF File!EntriesOnce
  <2>1. PICK d, g : d = find[t] /\ g = given[t]
    OBVIOUS
  <2>2. ToldSoFar(d, g) /\ Entries \in Seq(STRING)
    BY <2>1 DEF FileInv, DirInv, File!FilesAssumption
  <2>3. Len(g) <= Len(Entries)
    BY <2>2 DEF ToldSoFar
  <2>4. PICK s : s = SubSeq(Entries, 1, Len(g))
    OBVIOUS
  <2>5. g \in Seq(STRING) /\ \A i \in 1 .. Len(g) : g[i] = Entries[i]
    BY <2>2 DEF ToldSoFar
  <2>6. s \in Seq(STRING) /\ Len(s) = Len(g) /\ \A i \in 1 .. Len(g) : s[i] = Entries[i]
    BY <2>2, <2>3, <2>4, <2>5
  <2>7. g = s
    BY <2>5, <2>6, SeqEqual
  <2>8. d.state = "ended" => g = Entries
    <3>1. d.state = "ended" => Len(g) = Len(Entries)
      BY <2>2 DEF ToldSoFar
    <3> QED
      BY <2>2, <2>5, <3>1, SeqEqual
  <2> QED
    BY <2>1, <2>4, <2>7, <2>8
<1> QED
  BY <1>1, <1>2, <1>3

-----------------------------------------------------------------------------
(* Assets.  What a caller was told is in its directory's storage, and a    *)
(* file was found when the path, without what stands before it, is its.    *)
AssetInv ==
  /\ asset \in [AssetHandles -> Asset!Closed .. FileLength + 1]
  /\ dir \in [Dirs -> Asset!Closed .. Len(Names) + 1]
  /\ DOMAIN heap = Dirs /\ DOMAIN told = Dirs
  /\ \A d \in Dirs : told[d] # Asset!NoTold => told[d].at = d /\ heap[d] = told[d].name
  /\ opened.path \in Seq(Asset!Parts) /\ (opened.found <=> Asset!Resolve(opened.path) = OnDisk)

(* How a path comes apart: slashes, and what begins with none.             *)
ApartAt(path, k) ==
  /\ \A j \in 1 .. k - 1 : path[j] = "/"
  /\ k <= Len(path) => path[k] # "/"

(* A path comes apart in one way: after its leading slashes.               *)
LEMMA ComesApart ==
  ASSUME NEW path \in Seq(Asset!Parts)
  PROVE  \E k \in 1 .. Len(path) + 1 :
           ApartAt(path, k) /\ \A n \in 1 .. Len(path) + 1 : ApartAt(path, n) => n = k
<1> DEFINE S == {k \in 1 .. Len(path) + 1 : k <= Len(path) => path[k] # "/"}
<1>1. S \in SUBSET Nat /\ Len(path) + 1 \in S
  OBVIOUS
<1>2. PICK k \in S : \A n \in S : k <= n
  BY <1>1, Least
<1>3. k \in 1 .. Len(path) + 1 /\ Len(path) \in Nat
  OBVIOUS
<1>4. ASSUME NEW j \in 1 .. k - 1 PROVE path[j] = "/"
  <2>1. j \in 1 .. Len(path) + 1 /\ j < k
    BY <1>3
  <2>2. j \notin S
    BY <1>2, <1>3, <2>1
  <2> QED
    BY <2>1, <2>2
<1>5. ApartAt(path, k)
  BY <1>4 DEF ApartAt
<1>6. ASSUME NEW n \in 1 .. Len(path) + 1, ApartAt(path, n) PROVE n = k
  <2>1. n \in S
    BY <1>6 DEF ApartAt
  <2>2. k <= n
    BY <1>2, <2>1
  <2>3. SUFFICES ASSUME k < n PROVE FALSE
    BY <1>3, <2>2
  <2>4. k \in 1 .. n - 1 /\ k <= Len(path)
    BY <1>3, <2>3
  <2> QED
    BY <1>5, <1>6, <2>4 DEF ApartAt
<1> QED
  BY <1>3, <1>5, <1>6

(* A slash is a path, and so is the root's name.                           *)
LEMMA SlashAndRoot == "/" \in Asset!Parts /\ "assets/" \in Asset!Parts
BY DEF Asset!Parts

(* A sequence of one.                                                      *)
LEMMA OnePart ==
  ASSUME NEW T, NEW s \in T
  PROVE  <<s>> \in Seq(T) /\ Len(<<s>>) = 1 /\ <<s>>[1] = s
OBVIOUS

(* A run of slashes is a path.                                             *)
LEMMA Slashes ==
  ASSUME NEW n \in Nat, NEW p, p = [i \in 1 .. n |-> "/"]
  PROVE  p \in Seq(Asset!Parts) /\ Len(p) = n /\ \A i \in 1 .. n : p[i] = "/"
BY SlashAndRoot

(* A prefix, a part and a rest make one path however they are joined.      *)
LEMMA RootBetween ==
  ASSUME NEW T, NEW p \in Seq(T), NEW s \in T, NEW f \in Seq(T)
  PROVE  p \o <<s>> \o f = p \o (<<s>> \o f)
<1>1. PICK a : a = <<s>>
  OBVIOUS
<1>2. a \in Seq(T)
  BY <1>1, OnePart
<1>3. (p \o a) \o f = p \o (a \o f)
  BY <1>2, ConcatAssociative
<1> QED
  BY <1>1, <1>3

(* So that a path resolves to the file just when it is the file's, with    *)
(* slashes before it, and perhaps the root's name between.                 *)
LEMMA ResolvesToFile ==
  ASSUME Asset!AssetsAssumption, NEW path \in Seq(Asset!Parts)
  PROVE  Asset!Resolve(path) = OnDisk <=>
           \E n \in 0 .. Len(path) :
              LET p == [k \in 1 .. n |-> "/"] IN
              path \in {p \o OnDisk, p \o <<"assets/">> \o OnDisk}
<1>1. PICK k \in 1 .. Len(path) + 1 :
        ApartAt(path, k) /\ \A n \in 1 .. Len(path) + 1 : ApartAt(path, n) => n = k
  BY ComesApart
<1>2. OnDisk \in Seq(Asset!Parts) /\ OnDisk # <<>> /\ Head(OnDisk) \notin {"/", "assets/"} /\ Len(path) \in Nat
  BY DEF Asset!AssetsAssumption
<1>3. PICK q : q = SubSeq(path, k, Len(path))
  OBVIOUS
<1>4. Asset!Resolve(path) = IF q # <<>> /\ Head(q) = "assets/" THEN Tail(q) ELSE q
  <2>1. PICK f : f = CHOOSE n \in 1 .. Len(path) + 1 : ApartAt(path, n)
    OBVIOUS
  <2>2. f = k
    BY <1>1, <2>1
  <2>3. f = CHOOSE n \in 1 .. Len(path) + 1 :
                /\ \A j \in 1 .. n - 1 : path[j] = "/"
                /\ n <= Len(path) => path[n] # "/"
    BY <2>1 DEF ApartAt
  <2>4. Asset!Resolve(path) = LET p == SubSeq(path, f, Len(path))
                              IN IF p # <<>> /\ Head(p) = "assets/" THEN Tail(p) ELSE p
    BY <2>3 DEF Asset!Resolve
  <2> QED
    BY <1>3, <2>2, <2>4
<1>5. q \in Seq(Asset!Parts) /\ Len(q) = Len(path) - k + 1 /\ \A i \in 1 .. Len(q) : q[i] = path[k - 1 + i]
  BY <1>2, <1>3
<1>6. ASSUME NEW n \in 0 .. Len(path), NEW p, p = [i \in 1 .. n |-> "/"], NEW r \in Seq(Asset!Parts),
             r # <<>>, Head(r) # "/", path = p \o r
      PROVE  r = q
  <2>1. p \in Seq(Asset!Parts) /\ Len(p) = n
    BY <1>6
  <2>2. Len(path) = n + Len(r) /\ \A i \in 1 .. Len(path) : path[i] = IF i <= n THEN p[i] ELSE r[i - n]
    BY <1>6, <2>1, ConcatProperties
  <2>3. Len(r) \in Nat \ {0} /\ r[1] # "/"
    BY <1>6
  <2>4. n + 1 \in 1 .. Len(path) /\ path[n + 1] = r[1]
    BY <2>2, <2>3
  <2>5. ASSUME NEW j \in 1 .. n PROVE path[j] = "/"
    <3>1. j \in 1 .. Len(path) /\ p[j] = "/"
      BY <1>6
    <3> QED
      BY <2>2, <3>1
  <2>6. ApartAt(path, n + 1)
    BY <2>3, <2>4, <2>5 DEF ApartAt
  <2>7. k = n + 1
    BY <1>1, <2>4, <2>6
  <2>8. Len(r) = Len(q)
    BY <1>2, <1>5, <2>2, <2>3, <2>7
  <2>9. ASSUME NEW i \in 1 .. Len(r) PROVE r[i] = q[i]
    <3>1. n + i \in 1 .. Len(path) /\ ~(n + i <= n) /\ n + i - n = i
      BY <2>2, <2>3
    <3>2. path[n + i] = r[i]
      BY <2>2, <3>1
    <3> QED
      BY <1>5, <2>7, <2>8, <3>2
  <2> QED
    BY <1>5, <2>8, <2>9, SeqEqual
<1>7. ASSUME NEW r \in Seq(Asset!Parts), NEW n, n = k - 1, NEW p, p = [i \in 1 .. n |-> "/"], r = q
      PROVE  path = p \o r
  <2>1. n \in Nat /\ p \in Seq(Asset!Parts) /\ Len(p) = n
    <3>1. n \in Nat
      BY <1>2, <1>7
    <3> QED
      BY <1>7, <3>1, Slashes
  <2>2. /\ p \o r \in Seq(Asset!Parts) /\ Len(p \o r) = n + Len(r)
        /\ \A i \in 1 .. n + Len(r) : (p \o r)[i] = IF i <= n THEN p[i] ELSE r[i - n]
    BY <1>7, <2>1, ConcatProperties
  <2>3. Len(p \o r) = Len(path)
    BY <1>2, <1>5, <1>7, <2>2
  <2>4. ASSUME NEW i \in 1 .. Len(path) PROVE path[i] = (p \o r)[i]
    <3>1. CASE i <= n
      <4>1. p[i] = "/" /\ i \in 1 .. k - 1
        BY <1>7, <2>1, <3>1
      <4> QED
        BY <1>1, <2>2, <2>3, <3>1, <4>1 DEF ApartAt
    <3>2. CASE ~(i <= n)
      <4>1. i - n \in 1 .. Len(q) /\ k - 1 + (i - n) = i
        BY <1>2, <1>5, <1>7, <2>1, <3>2
      <4> QED
        BY <1>5, <1>7, <2>2, <2>3, <3>2, <4>1
    <3> QED
      BY <3>1, <3>2
  <2> QED
    BY <2>2, <2>3, <2>4, SeqEqual
<1>8. /\ <<"assets/">> \o OnDisk \in Seq(Asset!Parts) /\ <<"assets/">> \o OnDisk # <<>>
      /\ Head(<<"assets/">> \o OnDisk) = "assets/" /\ Tail(<<"assets/">> \o OnDisk) = OnDisk
  <2>1. PICK a, r : a = <<"assets/">> /\ r = a \o OnDisk
    OBVIOUS
  <2>2. a \in Seq(Asset!Parts) /\ Len(a) = 1 /\ a[1] = "assets/"
    BY <2>1, SlashAndRoot, OnePart
  <2>3. /\ r \in Seq(Asset!Parts) /\ Len(r) = 1 + Len(OnDisk)
        /\ \A i \in 1 .. 1 + Len(OnDisk) : r[i] = IF i <= 1 THEN a[i] ELSE OnDisk[i - 1]
    BY <1>2, <2>1, <2>2, ConcatProperties
  <2>4. Len(OnDisk) \in Nat
    BY <1>2
  <2>5. r # <<>> /\ Head(r) = "assets/"
    BY <2>2, <2>3, <2>4
  <2>6. Tail(r) \in Seq(Asset!Parts) /\ Len(Tail(r)) = Len(OnDisk)
    BY <2>3, <2>4, <2>5
  <2>7. ASSUME NEW i \in 1 .. Len(OnDisk) PROVE Tail(r)[i] = OnDisk[i]
    <3>1. Tail(r)[i] = r[i + 1] /\ i + 1 \in 1 .. 1 + Len(OnDisk) /\ ~(i + 1 <= 1) /\ i + 1 - 1 = i
      BY <2>3, <2>4, <2>5, <2>6
    <3> QED
      BY <2>3, <3>1
  <2>8. Tail(r) = OnDisk
    BY <1>2, <2>6, <2>7, SeqEqual
  <2> QED
    BY <2>1, <2>3, <2>5, <2>8
<1>9. ASSUME Asset!Resolve(path) = OnDisk
      PROVE  \E n \in 0 .. Len(path) :
               LET p == [i \in 1 .. n |-> "/"] IN
               path \in {p \o OnDisk, p \o <<"assets/">> \o OnDisk}
  <2>1. PICK n, p : n = k - 1 /\ p = [i \in 1 .. n |-> "/"]
    OBVIOUS
  <2>2. path = p \o q /\ n \in 0 .. Len(path)
    <3>1. n \in 0 .. Len(path)
      BY <1>2, <2>1
    <3>2. path = p \o q
      BY <1>5, <1>7, <2>1
    <3> QED
      BY <3>1, <3>2
  <2>3. CASE q # <<>> /\ Head(q) = "assets/"
    <3>1. Tail(q) = OnDisk
      BY <1>4, <1>9, <2>3
    <3>2. q = <<"assets/">> \o Tail(q)
      <4>1. PICK a, r : a = <<"assets/">> /\ r = Tail(q)
        OBVIOUS
      <4>2. a \in Seq(Asset!Parts) /\ Len(a) = 1 /\ a[1] = "assets/"
        BY <4>1, SlashAndRoot, OnePart
      <4>3. /\ r \in Seq(Asset!Parts) /\ Len(r) = Len(q) - 1 /\ q[1] = "assets/" /\ Len(q) \in Nat
            /\ \A i \in 1 .. Len(r) : r[i] = q[i + 1]
        BY <1>5, <2>3, <4>1
      <4>4. /\ a \o r \in Seq(Asset!Parts) /\ Len(a \o r) = Len(q)
            /\ \A i \in 1 .. Len(q) : (a \o r)[i] = IF i <= 1 THEN a[i] ELSE r[i - 1]
        <5>1. /\ a \o r \in Seq(Asset!Parts) /\ Len(a \o r) = Len(a) + Len(r)
              /\ \A i \in 1 .. Len(a) + Len(r) : (a \o r)[i] = IF i <= Len(a) THEN a[i] ELSE r[i - Len(a)]
          <6>1. a \in Seq(Asset!Parts) /\ r \in Seq(Asset!Parts)
            BY <4>2, <4>3
          <6> QED
            BY <6>1, ConcatProperties
        <5>2. Len(a) + Len(r) = Len(q) /\ Len(a) = 1
          BY <4>2, <4>3
        <5> QED
          BY <5>1, <5>2
      <4>5. ASSUME NEW i \in 1 .. Len(q) PROVE q[i] = (a \o r)[i]
        <5>1. CASE i <= 1
          <6>1. i = 1
            BY <5>1
          <6> QED
            BY <4>2, <4>3, <4>4, <6>1
        <5>2. CASE ~(i <= 1)
          <6>1. i - 1 \in 1 .. Len(r) /\ i - 1 + 1 = i
            BY <4>3, <5>2
          <6> QED
            BY <4>3, <4>4, <5>2, <6>1
        <5> QED
          BY <5>1, <5>2
      <4> QED
        BY <1>5, <4>1, <4>4, <4>5, SeqEqual
    <3>3. path = p \o (<<"assets/">> \o OnDisk)
      BY <2>2, <3>1, <3>2
    <3>4. p \o (<<"assets/">> \o OnDisk) = p \o <<"assets/">> \o OnDisk
      <4>1. n \in Nat
        BY <2>2
      <4>2. p \in Seq(Asset!Parts)
        BY <2>1, <4>1, Slashes
      <4> QED
        BY <1>2, <4>2, SlashAndRoot, RootBetween
    <3>5. path \in {p \o OnDisk, p \o <<"assets/">> \o OnDisk}
      BY <3>3, <3>4
    <3> QED
      BY <2>1, <2>2, <3>5
  <2>4. CASE ~(q # <<>> /\ Head(q) = "assets/")
    <3>1. q = OnDisk
      BY <1>4, <1>9, <2>4
    <3> QED
      BY <2>1, <2>2, <3>1
  <2> QED
    BY <2>3, <2>4
<1>10. ASSUME NEW n \in 0 .. Len(path), NEW p, p = [i \in 1 .. n |-> "/"],
              path \in {p \o OnDisk, p \o <<"assets/">> \o OnDisk}
       PROVE  Asset!Resolve(path) = OnDisk
  <2>1. CASE path = p \o OnDisk
    <3>1. OnDisk = q
      BY <1>2, <1>6, <1>10, <2>1
    <3> QED
      BY <1>2, <1>4, <3>1
  <2>2. CASE path = p \o <<"assets/">> \o OnDisk
    <3>1. p \in Seq(Asset!Parts) /\ <<"assets/">> \in Seq(Asset!Parts)
      <4>1. p \in Seq(Asset!Parts)
        BY <1>10
      <4> QED
        BY <4>1, SlashAndRoot, OnePart
    <3>2. PICK r : r = <<"assets/">> \o OnDisk
      OBVIOUS
    <3>3. path = p \o r
      <4>1. (p \o <<"assets/">>) \o OnDisk = p \o (<<"assets/">> \o OnDisk)
        BY <1>2, <3>1, SlashAndRoot, RootBetween
      <4> QED
        BY <2>2, <3>2, <4>1
    <3>4. r = q
      BY <1>6, <1>8, <1>10, <3>2, <3>3
    <3> QED
      BY <1>4, <1>8, <3>2, <3>4
  <2> QED
    BY <1>10, <2>1, <2>2
<1> QED
  BY <1>9, <1>10

(* So it is before anything is asked for.                                  *)
LEMMA AssetBegins == Asset!AssetsAssumption /\ Asset!Init => AssetInv
<1> SUFFICES ASSUME Asset!AssetsAssumption, Asset!Init PROVE AssetInv
  OBVIOUS
<1>1. opened.path = OnDisk /\ opened.found /\ OnDisk \in Seq(Asset!Parts)
  BY DEF Asset!Init, Asset!AssetsAssumption
<1>2. Asset!Resolve(OnDisk) = OnDisk
  <2>1. PICK p : p = [k \in 1 .. 0 |-> "/"]
    OBVIOUS
  <2>2. p = <<>> /\ 0 \in 0 .. Len(OnDisk)
    BY <1>1, <2>1
  <2>3. OnDisk = p \o OnDisk
    BY <1>1, <2>2, ConcatEmptySeq
  <2>4. \E n \in 0 .. Len(OnDisk) :
          LET r == [k \in 1 .. n |-> "/"] IN
          OnDisk \in {r \o OnDisk, r \o <<"assets/">> \o OnDisk}
    BY <2>1, <2>2, <2>3
  <2> QED
    BY <1>1, <2>4, ResolvesToFile
<1>3. Asset!Closed \in Asset!Closed .. FileLength + 1 /\ Asset!Closed \in Asset!Closed .. Len(Names) + 1
  BY DEF Asset!Closed, Asset!AssetsAssumption
<1> QED
  BY <1>1, <1>2, <1>3 DEF Asset!Init, AssetInv

(* So it stays.                                                            *)
LEMMA AssetKeeps == Asset!AssetsAssumption /\ AssetInv /\ [Asset!Next]_assetVars => AssetInv'
<1> SUFFICES ASSUME Asset!AssetsAssumption, AssetInv, Asset!Next \/ UNCHANGED assetVars PROVE AssetInv'
  OBVIOUS
<1>1. FileLength \in Nat /\ Len(Names) \in Nat /\ AskedFor \subseteq Seq(Asset!Parts)
  BY DEF Asset!AssetsAssumption
<1>2. CASE UNCHANGED assetVars
  BY <1>2 DEF assetVars, AssetInv
<1>3. ASSUME NEW h \in AssetHandles, UNCHANGED <<dir, heap, told>>,
             \/ \E p \in AskedFor : Asset!ManagerOpen(h, p)
             \/ Asset!AssetRead(h, 2) \/ Asset!AssetClose(h)
             \/ \E offset \in {-1, 0, 1}, whence \in {"SET", "CUR", "END"} :
                   Asset!AssetSeek(h, offset, whence) /\ asset'[h] <= FileLength + 1
      PROVE  AssetInv'
  <2>1. asset[h] \in -1 .. FileLength + 1
    BY DEF AssetInv, Asset!Closed
  <2>2. CASE \E p \in AskedFor : Asset!ManagerOpen(h, p)
    <3>1. PICK p \in AskedFor : Asset!ManagerOpen(h, p)
      BY <2>2
    <3>2. p \in Seq(Asset!Parts) /\ opened'.path = p /\ (opened'.found <=> Asset!Resolve(p) = OnDisk)
      BY <1>1, <3>1 DEF Asset!ManagerOpen
    <3>3. opened'.path \in Seq(Asset!Parts) /\ (opened'.found <=> Asset!Resolve(opened'.path) = OnDisk)
      BY <3>2
    <3>4. asset' \in [AssetHandles -> Asset!Closed .. FileLength + 1]
      BY <1>1, <3>1 DEF Asset!ManagerOpen, AssetInv, Asset!Closed
    <3> QED
      BY <1>3, <3>3, <3>4 DEF AssetInv
  <2>3. ASSUME NEW to \in -1 .. FileLength + 1, asset' = [asset EXCEPT ![h] = to], UNCHANGED opened
        PROVE  AssetInv'
    BY <1>3, <2>3 DEF AssetInv, Asset!Closed
  <2>4. CASE Asset!AssetRead(h, 2)
    <3>1. asset[h] \in 0 .. FileLength + 1
      BY <2>1, <2>4 DEF Asset!AssetRead, Asset!Closed
    <3>2. PICK to : to = asset[h] + IF 2 < Asset!Remaining(asset[h]) THEN 2 ELSE Asset!Remaining(asset[h])
      OBVIOUS
    <3>3. to \in -1 .. FileLength + 1
      BY <1>1, <3>1, <3>2 DEF Asset!Remaining
    <3>4. asset' = [asset EXCEPT ![h] = to] /\ UNCHANGED opened
      BY <2>4, <3>2 DEF Asset!AssetRead
    <3> QED
      BY <2>3, <3>3, <3>4
  <2>5. CASE Asset!AssetClose(h)
    <3>1. -1 \in -1 .. FileLength + 1 /\ asset' = [asset EXCEPT ![h] = -1] /\ UNCHANGED opened
      BY <1>1, <2>5 DEF Asset!AssetClose, Asset!Closed
    <3> QED
      BY <2>3, <3>1
  <2>6. ASSUME NEW offset \in {-1, 0, 1}, NEW whence \in {"SET", "CUR", "END"},
               Asset!AssetSeek(h, offset, whence), asset'[h] <= FileLength + 1
        PROVE  AssetInv'
    <3>1. PICK to : to = offset + CASE whence = "SET" -> 0 [] whence = "CUR" -> asset[h] [] OTHER -> FileLength
      OBVIOUS
    <3>2. to \in Int
      BY <1>1, <2>1, <3>1
    <3>3. to >= 0 /\ asset' = [asset EXCEPT ![h] = to] /\ UNCHANGED opened
      BY <2>6, <3>1 DEF Asset!AssetSeek
    <3>4. asset'[h] = to
      BY <3>3 DEF AssetInv
    <3>5. to \in -1 .. FileLength + 1
      BY <1>1, <2>6, <3>2, <3>3, <3>4
    <3> QED
      BY <2>3, <3>3, <3>5
  <2> QED
    BY <1>3, <2>2, <2>4, <2>5, <2>6
<1>4. ASSUME NEW d \in Dirs, UNCHANGED <<asset, opened>>,
             Asset!ManagerOpenDir(d) \/ Asset!AssetDirRewind(d)
      PROVE  AssetInv'
  BY <1>1, <1>4 DEF AssetInv, Asset!Closed, Asset!ManagerOpenDir, Asset!AssetDirRewind
<1>5. ASSUME NEW d \in Dirs, UNCHANGED <<asset, opened>>, Asset!AssetDirGetNextFileName(d)
      PROVE  AssetInv'
  <2>1. dir[d] \in -1 .. Len(Names) + 1
    BY DEF AssetInv, Asset!Closed
  <2>2. CASE dir[d] > Len(Names)
    BY <1>5, <2>2 DEF AssetInv, Asset!AssetDirGetNextFileName
  <2>3. CASE ~(dir[d] > Len(Names))
    <3>1. /\ heap' = [heap EXCEPT ![d] = Names[dir[d]]]
          /\ told' = [told EXCEPT ![d] = [at |-> d, name |-> Names[dir[d]]]]
          /\ dir' = [dir EXCEPT ![d] = @ + 1]
      BY <1>5, <2>3 DEF Asset!AssetDirGetNextFileName, Asset!Storage
    <3>2. dir' \in [Dirs -> Asset!Closed .. Len(Names) + 1]
      BY <1>1, <2>1, <2>3, <3>1 DEF AssetInv, Asset!Closed
    <3> QED
      BY <1>5, <3>1, <3>2 DEF AssetInv
  <2> QED
    BY <2>2, <2>3
<1>6. ASSUME NEW d \in Dirs, UNCHANGED <<asset, opened>>, Asset!AssetDirClose(d)
      PROVE  AssetInv'
  BY <1>1, <1>6 DEF AssetInv, Asset!Closed, Asset!AssetDirClose
<1> QED
  BY <1>2, <1>3, <1>4, <1>5, <1>6 DEF Asset!Next

(* And with that names stand as long as they are held.                     *)
LEMMA AssetSound == Asset!AssetsAssumption /\ AssetInv => Asset!TypeOK /\ Asset!NamesHeld
<1> SUFFICES ASSUME Asset!AssetsAssumption, AssetInv PROVE Asset!NamesHeld
  BY DEF AssetInv, Asset!TypeOK
<1>1. \A d \in Dirs : told[d] # Asset!NoTold => heap[told[d].at] = told[d].name
  BY DEF AssetInv
<1>2. PICK path : path = opened.path
  OBVIOUS
<1>3. path \in Seq(Asset!Parts) /\ (opened.found <=> Asset!Resolve(path) = OnDisk)
  BY <1>2 DEF AssetInv
<1>4. opened.found <=> \E n \in 0 .. Len(path) :
         LET p == [k \in 1 .. n |-> "/"] IN path \in {p \o OnDisk, p \o <<"assets/">> \o OnDisk}
  BY <1>3, ResolvesToFile
<1> QED
  BY <1>1, <1>2, <1>4 DEF Asset!NamesHeld

-----------------------------------------------------------------------------
(* GlShim.  The driver has what the guest set, and what has been drawn was *)
(* counted for the texture it was drawn with.                              *)
Arrays == [on : BOOLEAN, buf : {0, 1}, at : Gl!Pointers]
Driver == {Gl!ShiftAttrib(g) : g \in Attributes}

ArraysOk ==
  /\ attribs \in [Driver -> Arrays] /\ wanted \in [Attributes -> Arrays]
  /\ \A g \in Attributes : attribs[Gl!ShiftAttrib(g)] = wanted[g]
  /\ array \in {0, 1} /\ element \in {0, 1} /\ "offset" \notin drawn

CensusOk ==
  /\ texture \in Gl!All /\ bound = texture
  /\ g_textures \in [Gl!All -> [size : Nat, draws : Nat]] /\ drew \in [Gl!All -> Nat]
  /\ CensusAfter > 0 => \A t \in Gl!All : g_textures[t].draws = drew[t]
  /\ frames \in 0 .. MaxFrames

ErrorsOk ==
  /\ errors \subseteq Gl!Calls \cup {"other"} /\ left \in [Gl!Calls -> Nat]
  /\ said # <<>> => said[1] = said[2]

ShaderOk == DOMAIN shader \subseteq 1 .. MaxLines + Len(Gl!Header) /\ logged \in 0 .. MaxLines + Len(Gl!Header)

GlInv == ArraysOk /\ CensusOk /\ ErrorsOk /\ ShaderOk

(* So it is before anything is drawn.                                      *)
LEMMA GlBegins == Gl!GlAssumption /\ Gl!Init => GlInv
<1> SUFFICES ASSUME Gl!GlAssumption, Gl!Init PROVE GlInv
  OBVIOUS
<1>1. ArraysOk
  <2>1. Gl!Off \in Arrays
    BY DEF Gl!Off, Arrays, Gl!Pointers
  <2>2. attribs = [a \in Driver |-> Gl!Off] /\ wanted = [g \in Attributes |-> Gl!Off]
    BY DEF Gl!Init, Driver
  <2>3. \A g \in Attributes : Gl!ShiftAttrib(g) \in Driver
    BY DEF Driver
  <2> QED
    BY <2>1, <2>2, <2>3 DEF Gl!Init, ArraysOk
<1>2. CensusOk
  <2>1. Gl!Unseen \in [size : Nat, draws : Nat] /\ Gl!Unseen.draws = 0
    BY DEF Gl!Unseen
  <2> QED
    BY <2>1 DEF Gl!Init, Gl!All, Gl!GlAssumption, CensusOk
<1>3. ErrorsOk
  BY DEF Gl!Init, Gl!GlAssumption, ErrorsOk
<1>4. ShaderOk
  <2>1. Len(Gl!Header) \in Nat
    BY DEF Gl!Header
  <2> QED
    BY <2>1 DEF Gl!Init, Gl!GlAssumption, ShaderOk
<1> QED
  BY <1>1, <1>2, <1>3, <1>4 DEF GlInv

(* What the guest numbers from one the driver numbers from zero, each one  *)
(* apart from the others.                                                  *)
LEMMA ShiftsApart ==
  ASSUME Gl!GlAssumption, NEW g \in Attributes, NEW h \in Attributes
  PROVE  /\ Gl!ShiftAttrib(g) \in Driver
         /\ Gl!ShiftAttrib(g) = Gl!ShiftAttrib(h) => g = h
<1>1. g \in Nat \ {0} /\ h \in Nat \ {0}
  BY DEF Gl!GlAssumption
<1>2. Gl!ShiftAttrib(g) = g - 1 /\ Gl!ShiftAttrib(h) = h - 1
  BY <1>1 DEF Gl!ShiftAttrib
<1>3. Gl!ShiftAttrib(g) \in Driver
  BY DEF Driver
<1> QED
  BY <1>1, <1>2, <1>3

(* An attribute set on both sides is the driver's and the guest's again.   *)
LEMMA AttributeKeeps ==
  ASSUME Gl!GlAssumption, ArraysOk, NEW g \in Attributes, NEW v \in Arrays,
         attribs' = [attribs EXCEPT ![Gl!ShiftAttrib(g)] = v], wanted' = [wanted EXCEPT ![g] = v],
         UNCHANGED <<array, element, drawn>>
  PROVE  ArraysOk'
<1>1. Gl!ShiftAttrib(g) \in Driver
  BY ShiftsApart
<1>2. attribs' \in [Driver -> Arrays] /\ wanted' \in [Attributes -> Arrays]
  BY <1>1 DEF ArraysOk
<1>3. ASSUME NEW h \in Attributes PROVE attribs'[Gl!ShiftAttrib(h)] = wanted'[h]
  <2>1. Gl!ShiftAttrib(h) \in Driver
    BY ShiftsApart
  <2>2. h # g => Gl!ShiftAttrib(h) # Gl!ShiftAttrib(g)
    BY ShiftsApart
  <2> QED
    BY <1>1, <2>1, <2>2 DEF ArraysOk
<1> QED
  BY <1>2, <1>3 DEF ArraysOk

(* So attributes are set, and buffers bound and deleted.                   *)
LEMMA SetKeeps ==
  ASSUME Gl!GlAssumption, GlInv, NEW g \in Attributes,
         \/ Gl!EnableVertexAttribArray(g) \/ Gl!DisableVertexAttribArray(g)
         \/ \E p \in Gl!Pointers : Gl!VertexAttribPointer(g, p)
  PROVE  ArraysOk' /\ UNCHANGED <<texture, bound, g_textures, drew, frames, errors, left, said>>
<1>1. UNCHANGED <<array, element, drawn>> /\ UNCHANGED <<texture, bound, g_textures, drew, frames, errors, left, said>>
  BY DEF Gl!EnableVertexAttribArray, Gl!DisableVertexAttribArray, Gl!VertexAttribPointer, Gl!Set,
         Gl!bindVars, Gl!errorVars, Gl!censusVars, Gl!texVars
<1>2. PICK s, w : s = Gl!ShiftAttrib(g) /\ w = wanted[g]
  OBVIOUS
<1>3. w \in Arrays /\ attribs[s] = w /\ s \in Driver
  BY <1>2, ShiftsApart DEF GlInv, ArraysOk
<1>4. PICK v \in Arrays : attribs' = [attribs EXCEPT ![s] = v] /\ wanted' = [wanted EXCEPT ![g] = v]
  <2>1. ASSUME NEW b \in BOOLEAN, Gl!Set(g, "on", b)
        PROVE  \E v \in Arrays : attribs' = [attribs EXCEPT ![s] = v] /\ wanted' = [wanted EXCEPT ![g] = v]
    <3>1. PICK v : v = [w EXCEPT !.on = b]
      OBVIOUS
    <3>2. v \in Arrays
      BY <1>3, <3>1 DEF Arrays
    <3>3. attribs' = [attribs EXCEPT ![s] = v] /\ wanted' = [wanted EXCEPT ![g] = v]
      BY <1>2, <1>3, <2>1, <3>1 DEF Gl!Set
    <3> QED
      BY <3>2, <3>3
  <2>2. ASSUME NEW p \in Gl!Pointers, Gl!VertexAttribPointer(g, p)
        PROVE  \E v \in Arrays : attribs' = [attribs EXCEPT ![s] = v] /\ wanted' = [wanted EXCEPT ![g] = v]
    <3>1. PICK v : v = [w EXCEPT !.buf = array, !.at = p]
      OBVIOUS
    <3>2. v \in Arrays
      BY <1>3, <3>1 DEF Arrays, GlInv, ArraysOk
    <3>3. attribs' = [attribs EXCEPT ![s] = v] /\ wanted' = [wanted EXCEPT ![g] = v]
      BY <1>2, <1>3, <2>2, <3>1 DEF Gl!VertexAttribPointer
    <3> QED
      BY <3>2, <3>3
  <2> QED
    BY <2>1, <2>2 DEF Gl!EnableVertexAttribArray, Gl!DisableVertexAttribArray
<1>5. ArraysOk'
  BY <1>1, <1>2, <1>4, AttributeKeeps DEF GlInv
<1> QED
  BY <1>1, <1>5

(* Binding a buffer touches no attribute, and deleting it none that another *)
(* buffer feeds.                                                           *)
LEMMA BuffersKeep ==
  ASSUME Gl!GlAssumption, GlInv,
         Gl!DeleteBuffer \/ \E a, e \in {0, 1} : Gl!BindBuffer(a, e)
  PROVE  ArraysOk' /\ UNCHANGED <<texture, bound, g_textures, drew, frames, errors, left, said>>
<1>1. UNCHANGED <<drawn, texture, bound, g_textures, drew, frames, errors, left, said>>
  BY DEF Gl!DeleteBuffer, Gl!BindBuffer, Gl!errorVars, Gl!censusVars, Gl!texVars
<1>2. CASE Gl!DeleteBuffer
  <2>1. DOMAIN attribs = Driver
    BY DEF GlInv, ArraysOk
  <2>2. /\ attribs' = [a \in Driver |-> [attribs[a] EXCEPT !.buf = 0]]
        /\ wanted' = [g \in Attributes |-> [wanted[g] EXCEPT !.buf = 0]]
        /\ array' = 0 /\ element' = 0
    BY <1>2, <2>1 DEF Gl!DeleteBuffer
  <2>3. ASSUME NEW r \in Arrays PROVE [r EXCEPT !.buf = 0] \in Arrays
    BY DEF Arrays
  <2>4. attribs' \in [Driver -> Arrays] /\ wanted' \in [Attributes -> Arrays]
    BY <2>2, <2>3 DEF GlInv, ArraysOk
  <2>5. ASSUME NEW g \in Attributes PROVE attribs'[Gl!ShiftAttrib(g)] = wanted'[g]
    <3>1. Gl!ShiftAttrib(g) \in Driver
      BY ShiftsApart
    <3> QED
      BY <2>2, <3>1 DEF GlInv, ArraysOk
  <2> QED
    BY <1>1, <2>2, <2>4, <2>5 DEF GlInv, ArraysOk
<1>3. CASE \E a, e \in {0, 1} : Gl!BindBuffer(a, e)
  BY <1>1, <1>3 DEF Gl!BindBuffer, Gl!attribVars, GlInv, ArraysOk
<1> QED
  BY <1>1, <1>2, <1>3

(* An error is said of the call that made it: what others raised was       *)
(* drained before, as long as anything will be said.                       *)
LEMMA DrivenKeeps ==
  ASSUME ErrorsOk, NEW c \in Gl!Calls, Gl!Driven(c)
  PROVE  ErrorsOk'
<1>1. PICK raised \in {{}, {c}} :
        LET n == Gl!Drained(c) \cup raised IN
        IF left[c] = 0 \/ n = {} THEN errors' = n /\ UNCHANGED <<left, said>>
        ELSE \E e \in n :
               said' = <<c, e>> /\ errors' = n \ {e} /\ left' = [left EXCEPT ![c] = @ - 1]
  BY DEF Gl!Driven
<1>2. PICK n : n = Gl!Drained(c) \cup raised
  OBVIOUS
<1>3. left[c] \in Nat /\ n \subseteq Gl!Calls \cup {"other"} /\ (left[c] > 0 => n \subseteq {c})
  BY <1>2 DEF Gl!Drained, ErrorsOk
<1>4. CASE left[c] = 0 \/ n = {}
  BY <1>1, <1>2, <1>3, <1>4 DEF ErrorsOk
<1>5. CASE ~(left[c] = 0 \/ n = {})
  <2>1. PICK e \in n : said' = <<c, e>> /\ errors' = n \ {e} /\ left' = [left EXCEPT ![c] = @ - 1]
    BY <1>1, <1>2, <1>5
  <2>2. e = c
    BY <1>3, <1>5
  <2>3. left' \in [Gl!Calls -> Nat]
    BY <1>3, <1>5, <2>1 DEF ErrorsOk
  <2> QED
    BY <1>3, <2>1, <2>2, <2>3 DEF ErrorsOk
<1> QED
  BY <1>4, <1>5

(* A draw that goes through reads no offset without a buffer, and counts   *)
(* for the texture that is bound.                                          *)
LEMMA DrawKeeps ==
  ASSUME Gl!GlAssumption, GlInv, NEW p \in Gl!Pointers, Gl!DrawElements(p)
  PROVE  ArraysOk' /\ CensusOk' /\ ErrorsOk'
<1>1. UNCHANGED <<attribs, wanted, array, element, frames, texture, bound>>
  BY DEF Gl!DrawElements, Gl!attribVars, Gl!bindVars, Gl!texVars
<1>2. CASE Gl!IndicesAreUnusable(p) \/ Gl!TextureIsSkipped(texture)
  <2>1. UNCHANGED <<drawn, g_textures, drew, errors, left, said>>
    BY <1>2 DEF Gl!DrawElements, Gl!errorVars
  <2> QED
    BY <1>1, <2>1 DEF GlInv, ArraysOk, CensusOk, ErrorsOk
<1>3. CASE ~(Gl!IndicesAreUnusable(p) \/ Gl!TextureIsSkipped(texture))
  <2>1. /\ Gl!NoteDraw(texture) /\ drew' = [drew EXCEPT ![bound] = @ + 1]
        /\ drawn' = (IF element = 0 THEN {p} ELSE {})
                    \cup {attribs[a].at : a \in {b \in Gl!Enabled : attribs[b].buf = 0}}
        /\ Gl!Driven("glDrawElements")
    BY <1>3 DEF Gl!DrawElements
  <2>2. ErrorsOk'
    BY <2>1, DrivenKeeps DEF GlInv, Gl!Calls
  <2>3. "offset" \notin drawn'
    BY <1>3, <2>1 DEF Gl!IndicesAreUnusable, Gl!NoBufferFor, Gl!LooksLikeAnOffset
  <2>4. CensusOk'
    <3>1. PICK t, n : t = texture /\ n = g_textures[t].draws
      OBVIOUS
    <3>2. t \in Gl!All /\ n \in Nat /\ bound = t /\ drew[t] \in Nat
      BY <3>1 DEF GlInv, CensusOk
    <3>3. drew' \in [Gl!All -> Nat] /\ drew'[t] = drew[t] + 1 /\ \A u \in Gl!All \ {t} : drew'[u] = drew[u]
      BY <2>1, <3>2 DEF GlInv, CensusOk
    <3>4. CASE CensusAfter = 0
      BY <1>1, <2>1, <3>3, <3>4 DEF GlInv, CensusOk, Gl!NoteDraw
    <3>5. CASE CensusAfter # 0
      <4>1. g_textures' = [g_textures EXCEPT ![t].draws = @ + 1]
        BY <2>1, <3>1, <3>5 DEF Gl!NoteDraw
      <4>2. /\ g_textures' \in [Gl!All -> [size : Nat, draws : Nat]] /\ g_textures'[t].draws = n + 1
            /\ \A u \in Gl!All \ {t} : g_textures'[u] = g_textures[u]
        BY <3>1, <3>2, <4>1 DEF GlInv, CensusOk
      <4>3. CensusAfter > 0 => \A u \in Gl!All : g_textures'[u].draws = drew'[u]
        BY <3>1, <3>2, <3>3, <4>2 DEF GlInv, CensusOk
      <4> QED
        BY <1>1, <3>3, <4>2, <4>3 DEF GlInv, CensusOk
    <3> QED
      BY <3>4, <3>5
  <2> QED
    BY <1>1, <2>2, <2>3, <2>4 DEF GlInv, ArraysOk
<1> QED
  BY <1>2, <1>3

(* A texture's image is taken down, and leaves the draws.                  *)
LEMMA ImageKeeps ==
  ASSUME Gl!GlAssumption, GlInv, NEW level, Gl!TexImage2D(level, 1)
  PROVE  ArraysOk' /\ CensusOk' /\ ErrorsOk'
<1>1. UNCHANGED <<attribs, wanted, array, element, drawn, frames, drew, texture, bound>>
  BY DEF Gl!TexImage2D, Gl!attribVars, Gl!bindVars, Gl!texVars
<1>2. ErrorsOk'
  BY DrivenKeeps DEF Gl!TexImage2D, GlInv, Gl!Calls
<1>3. CensusOk'
  <2>1. CASE UNCHANGED g_textures
    BY <1>1, <2>1 DEF GlInv, CensusOk
  <2>2. CASE ~UNCHANGED g_textures
    <3>1. PICK t, s : t = texture /\ s = g_textures[t].size
      OBVIOUS
    <3>2. t \in Gl!All /\ s \in Nat
      BY <3>1 DEF GlInv, CensusOk
    <3>3. PICK m : m = Gl!Max({s, 1})
      OBVIOUS
    <3>4. m \in Nat
      <4>1. \E x \in {s, 1} : \A y \in {s, 1} : x >= y
        BY <3>2
      <4>2. m \in {s, 1}
        BY <3>3, <4>1 DEF Gl!Max
      <4> QED
        BY <3>2, <4>2
    <3>5. g_textures' = [g_textures EXCEPT ![t].size = Gl!Max({@, 1})]
      BY <2>2, <3>1 DEF Gl!TexImage2D, Gl!NoteTexture
    <3>6. g_textures' = [g_textures EXCEPT ![t].size = m]
      BY <3>1, <3>3, <3>5
    <3>7. /\ g_textures' \in [Gl!All -> [size : Nat, draws : Nat]]
          /\ \A u \in Gl!All : g_textures'[u].draws = g_textures[u].draws
      BY <3>2, <3>4, <3>6 DEF GlInv, CensusOk
    <3> QED
      BY <1>1, <3>7 DEF GlInv, CensusOk
  <2> QED
    BY <2>1, <2>2
<1> QED
  BY <1>1, <1>2, <1>3 DEF GlInv, ArraysOk

(* Textures are bound, errors raised and frames end; the census leaves     *)
(* bound what was.                                                         *)
LEMMA TexturesKeep ==
  ASSUME Gl!GlAssumption, GlInv, Gl!Mistake \/ Gl!Clear \/ \E t \in Gl!All : Gl!BindTexture(t)
  PROVE  ArraysOk' /\ CensusOk' /\ ErrorsOk'
<1> USE DEF Gl!attribVars, Gl!bindVars, Gl!errorVars, Gl!censusVars, Gl!texVars
<1>1. CASE Gl!Mistake
  BY <1>1 DEF Gl!Mistake, GlInv, ArraysOk, CensusOk, ErrorsOk
<1>2. CASE \E t \in Gl!All : Gl!BindTexture(t)
  BY <1>2 DEF Gl!BindTexture, GlInv, ArraysOk, CensusOk, ErrorsOk
<1>3. CASE Gl!Clear
  <2>1. UNCHANGED texture
    BY <1>3 DEF Gl!Clear, Gl!ReportCensus, Gl!DumpTexture
  <2>2. frames' \in 0 .. MaxFrames
    BY <1>3 DEF Gl!Clear, GlInv, CensusOk, Gl!GlAssumption
  <2>3. UNCHANGED <<attribs, wanted, array, element, drawn, errors, left, said, g_textures, drew, bound>>
    BY <1>3 DEF Gl!Clear
  <2> QED
    BY <2>1, <2>2, <2>3 DEF GlInv, ArraysOk, CensusOk, ErrorsOk
<1> QED
  BY <1>1, <1>2, <1>3

(* A shader has as many lines more as the header has, so the driver's log  *)
(* names one of those.                                                     *)
LEMMA ShaderKeeps ==
  ASSUME Gl!GlAssumption, ShaderOk, Gl!ShaderNext
  PROVE  ShaderOk'
<1> DEFINE top == MaxLines + Len(Gl!Header)
<1>1. PICK H : Gl!Header \in Seq(H)
  <2>1. PICK a, b, c, d : Gl!Header = <<a, b, c, d>>
    BY Zenon DEF Gl!Header
  <2>2. <<a, b, c, d>> \in Seq({a, b, c, d})
    OBVIOUS
  <2> QED
    BY <2>1, <2>2
<1>2. Len(Gl!Header) \in Nat /\ MaxLines \in Nat
  BY <1>1 DEF Gl!GlAssumption
<1>3. ASSUME NEW n \in 1 .. MaxLines, NEW s \in [1 .. n -> Lines], Gl!ShaderSource(s) PROVE ShaderOk'
  <2>1. PICK body : body = [i \in 1 .. n |-> IF s[i] \in {"#version", "precision"} THEN Gl!Blank ELSE s[i]]
    OBVIOUS
  <2>2. n \in Nat /\ body \in [1 .. n -> Lines \cup {Gl!Blank}]
    BY <1>2, <2>1
  <2>3. body \in Seq(Lines \cup {Gl!Blank}) /\ Len(body) = n
    BY <2>2
  <2>4. PICK L : L = H \cup Lines \cup {Gl!Blank}
    OBVIOUS
  <2>5. body \in Seq(L) /\ Gl!Header \in Seq(L)
    BY <1>1, <2>3, <2>4
  <2>6. shader' = Gl!Header \o body /\ logged' = 0
    BY <1>3, <2>1 DEF Gl!ShaderSource, Gl!ToDesktopGlsl
  <2>7. shader' \in Seq(L) /\ Len(shader') = Len(Gl!Header) + n
    BY <2>3, <2>5, <2>6, ConcatProperties
  <2>8. DOMAIN shader' = 1 .. Len(Gl!Header) + n
    BY <2>7
  <2> QED
    BY <1>2, <2>6, <2>8 DEF ShaderOk
<1>4. CASE Gl!CompileShader
  <2>1. PICK w : w = {i \in DOMAIN shader : shader[i] = "wrong"}
    OBVIOUS
  <2>2. w # {} /\ logged' = Gl!Min(w) /\ UNCHANGED shader
    BY <1>4, <2>1 DEF Gl!CompileShader
  <2>3. w \subseteq 1 .. top
    BY <2>1 DEF ShaderOk
  <2>4. \E i \in w : \A j \in w : i <= j
    BY <1>2, <2>2, <2>3, Least
  <2>5. Gl!Min(w) \in w
    BY <2>4 DEF Gl!Min
  <2> QED
    <3>1. logged' \in 0 .. top
      <4>1. logged' \in 1 .. top
        BY <2>2, <2>3, <2>5
      <4>2. top \in Nat
        BY <1>2
      <4> HIDE DEF top
      <4> QED
        BY <4>1, <4>2
    <3> QED
      BY <2>2, <3>1 DEF ShaderOk
<1> QED
  BY <1>3, <1>4 DEF Gl!ShaderNext

(* So it stays.                                                            *)
LEMMA GlKeeps ==
  ASSUME Gl!GlAssumption, GlInv,
         Gl!GeometryNext \/ Gl!TextureNext \/ UNCHANGED drawVars,
         Gl!ShaderNext \/ UNCHANGED shaderVars
  PROVE  GlInv'
<1>1. ArraysOk' /\ CensusOk' /\ ErrorsOk'
  <2>1. CASE UNCHANGED drawVars
    BY <2>1 DEF drawVars, GlInv, ArraysOk, CensusOk, ErrorsOk
  <2>2. CASE ArraysOk' /\ UNCHANGED <<texture, bound, g_textures, drew, frames, errors, left, said>>
    BY <2>2 DEF GlInv, CensusOk, ErrorsOk
  <2>3. CASE Gl!GeometryNext
    <3>1. ASSUME NEW p \in Gl!Pointers, Gl!DrawElements(p) PROVE ArraysOk' /\ CensusOk' /\ ErrorsOk'
      BY <3>1, DrawKeeps
    <3> QED
      BY <2>2, <2>3, <3>1, SetKeeps, BuffersKeep DEF Gl!GeometryNext, Gl!Buffer
  <2>4. CASE Gl!TextureNext
    <3>1. "memory" \in Gl!Pointers
      BY DEF Gl!Pointers
    <3> QED
      BY <2>4, <3>1, DrawKeeps, ImageKeeps, TexturesKeep DEF Gl!TextureNext
  <2> QED
    BY <2>1, <2>3, <2>4
<1>2. ShaderOk'
  <2>1. CASE UNCHANGED shaderVars
    BY <2>1 DEF shaderVars, GlInv, ShaderOk
  <2> QED
    BY <2>1, ShaderKeeps DEF GlInv
<1> QED
  BY <1>1, <1>2 DEF GlInv

(* And with that the driver draws what the guest set.                      *)
LEMMA GlSound == GlInv => DrawsAsSet
<1> SUFFICES ASSUME GlInv PROVE DrawsAsSet
  OBVIOUS
<1>1. Gl!TypeOK
  BY DEF GlInv, ArraysOk, CensusOk, ErrorsOk, ShaderOk, Gl!TypeOK, Gl!Buffer, Arrays
<1>2. Gl!DrawsReadable /\ Gl!KeepsGuestState
  BY DEF GlInv, ArraysOk, CensusOk, ErrorsOk, Gl!DrawsReadable, Gl!KeepsGuestState
<1> QED
  BY <1>1, <1>2 DEF DrawsAsSet

-----------------------------------------------------------------------------
(* JniMethods.  A method has one number, a call's was noted before the     *)
(* call went on, and an answer that was none is about to be noted, or was. *)
NamesOk ==
  /\ program \in Programs /\ g_method_names \in Seq(program.methods)
  /\ \A i, j \in DOMAIN g_method_names : g_method_names[i] = g_method_names[j] => i = j
  /\ \A n \in ids : n.id \in DOMAIN g_method_names /\ g_method_names[n.id] = n.method

NotesOk ==
  /\ g_method_called \in Seq(program.methods) /\ g_method_unanswered \in Seq(program.methods)
  /\ Java!Range(g_method_unanswered) \subseteq Java!Range(g_method_called)
  /\ g_unknown_fields \in Seq(Java!Named)
  /\ \A a \in asked : a.field \in DOMAIN Java!Fields \cup Java!Range(g_unknown_fields)

CallOk(c, l) ==
  /\ DOMAIN c = {"at", "method", "form", "args"} /\ c.at \in {"idle", "called", "unanswered"}
  /\ c.at # "idle" => /\ c.method \in Java!Range(g_method_called) /\ c.method # Java!None
                      /\ c.args \in Java!ArgsOf(c.method)
  /\ l.method # Java!None /\ l.answer = Java!None =>
       (c.at = "unanswered" /\ c.method = l.method) \/ l.method \in Java!Range(g_method_unanswered)
  /\ l.stored # Java!None => l.answer = l.stored

CallsOk == DOMAIN call = Pair /\ DOMAIN last = Pair /\ \A t \in Pair : CallOk(call[t], last[t])

StoreOk == DOMAIN g_prefs = Java!Keys /\ \A k \in Java!Keys : g_prefs[k] \in Values \cup {Java!Empty, Java!None}

PollsOk == polls \in Nat /\ Java!PollsCount

JavaInv == NamesOk /\ NotesOk /\ CallsOk /\ StoreOk /\ PollsOk

(* So it is before anything is called.                                     *)
LEMMA JavaBegins == Java!MethodsAssumption /\ Java!Init => JavaInv
<1> SUFFICES ASSUME Java!MethodsAssumption, Java!Init PROVE JavaInv
  OBVIOUS
<1>1. NamesOk /\ NotesOk
  BY DEF Java!Init, NamesOk, NotesOk, Java!Range
<1>2. CallsOk
  BY DEF Java!Init, CallsOk, CallOk, Java!Idle
<1>3. StoreOk
  BY DEF Java!Init, StoreOk
<1>4. PollsOk
  BY DEF Java!Init, PollsOk, Java!PollsCount, Java!MethodsAssumption, Java!None
<1> QED
  BY <1>1, <1>2, <1>3, <1>4 DEF JavaInv

(* A list that notes each once holds what it held and what is noted.       *)
LEMMA NotedOnce ==
  ASSUME NEW T, NEW list \in Seq(T), NEW m \in T
  PROVE  /\ Java!NoteOnce(list, m) \in Seq(T)
         /\ Java!Range(Java!NoteOnce(list, m)) = Java!Range(list) \cup {m}
<1>1. CASE m \in Java!Range(list)
  BY <1>1 DEF Java!NoteOnce
<1>2. CASE m \notin Java!Range(list)
  <2>1. Java!NoteOnce(list, m) = Append(list, m)
    BY <1>2 DEF Java!NoteOnce
  <2>2. PICK more : more = Append(list, m)
    OBVIOUS
  <2>3. /\ more \in Seq(T) /\ DOMAIN more = DOMAIN list \cup {Len(list) + 1} /\ Len(list) + 1 \notin DOMAIN list
        /\ more[Len(list) + 1] = m /\ \A i \in DOMAIN list : more[i] = list[i]
    BY <2>2
  <2>4. Java!Range(more) = Java!Range(list) \cup {m}
    BY <2>3 DEF Java!Range
  <2> QED
    BY <2>1, <2>2, <2>3, <2>4
<1> QED
  BY <1>1, <1>2

(* Of several places the first that has a value is taken.                  *)
LEMMA FirstPlace ==
  ASSUME NEW a, NEW b, NEW c, NEW d, a # Java!None
  PROVE  Java!First(<<a, b, c, d>>) = a
<1>1. PICK p : p = <<a, b, c, d>>
  OBVIOUS
<1>2. PICK some : some = {i \in DOMAIN p : p[i] # Java!None}
  OBVIOUS
<1>3. some \subseteq 1 .. 4 /\ 1 \in some /\ p[1] = a
  BY <1>1, <1>2
<1>4. Java!Min(some) = 1
  <2>1. 1 \in some /\ \A y \in some : 1 <= y
    BY <1>3
  <2>2. \A x \in some : x <= 1 => x = 1
    BY <1>3
  <2> QED
    BY <2>1, <2>2 DEF Java!Min
<1>5. Java!First(p) = p[Java!Min(some)]
  BY <1>2, <1>3 DEF Java!First
<1> QED
  BY <1>1, <1>3, <1>4, <1>5

(* Whose call is not changed stays as he was.                              *)
LEMMA CallStands ==
  ASSUME NEW c, NEW l, CallOk(c, l), UNCHANGED program,
         Java!Range(g_method_called) \subseteq Java!Range(g_method_called)',
         Java!Range(g_method_unanswered) \subseteq Java!Range(g_method_unanswered)'
  PROVE  CallOk(c, l)'
<1>1. Java!ArgsOf(c.method)' = Java!ArgsOf(c.method)
  BY DEF Java!ArgsOf
<1> QED
  BY <1>1 DEF CallOk

(* Calls stand while the program and the calls do and notes only grow.     *)
LEMMA CallsStand ==
  ASSUME CallsOk, UNCHANGED <<program, call, last>>,
         Java!Range(g_method_called) \subseteq Java!Range(g_method_called)',
         Java!Range(g_method_unanswered) \subseteq Java!Range(g_method_unanswered)'
  PROVE  CallsOk'
<1>1. ASSUME NEW t \in Pair PROVE CallOk(call[t], last[t])'
  <2>1. PICK c, l : c = call[t] /\ l = last[t]
    OBVIOUS
  <2>2. CallOk(c, l)'
    BY <2>1, CallStands DEF CallsOk
  <2> QED
    BY <2>1, <2>2 DEF CallOk
<1> QED
  BY <1>1 DEF CallsOk

(* And while one thread's call moves to where its part holds.              *)
LEMMA CallMoves ==
  ASSUME CallsOk, UNCHANGED program, NEW t \in Pair, NEW d, NEW m, CallOk(d, m)',
         DOMAIN call' = Pair, call'[t] = d, \A u \in Pair \ {t} : call'[u] = call[u],
         DOMAIN last' = Pair, last'[t] = m, \A u \in Pair \ {t} : last'[u] = last[u],
         Java!Range(g_method_called) \subseteq Java!Range(g_method_called)',
         Java!Range(g_method_unanswered) \subseteq Java!Range(g_method_unanswered)'
  PROVE  CallsOk'
<1>1. ASSUME NEW u \in Pair PROVE CallOk(call[u], last[u])'
  <2>1. PICK c, l : c = call'[u] /\ l = last'[u]
    OBVIOUS
  <2>2. CallOk(c, l)'
    <3>1. CASE u = t
      BY <2>1, <3>1 DEF CallsOk
    <3>2. CASE u # t
      <4>1. c = call[u] /\ l = last[u]
        BY <2>1, <3>2 DEF CallsOk
      <4>2. CallOk(c, l)
        BY <4>1 DEF CallsOk
      <4> QED
        BY <4>2, CallStands
    <3> QED
      BY <3>1, <3>2
  <2> QED
    BY <2>1, <2>2 DEF CallOk
<1> QED
  BY <1>1 DEF CallsOk

(* A method that is looked up gets the next number, or the one it has.     *)
LEMMA LookupKeeps ==
  ASSUME Java!MethodsAssumption, JavaInv, NEW m \in program.methods, Java!GetMethodID(m)
  PROVE  JavaInv'
<1>1. /\ UNCHANGED <<program, g_method_called, g_method_unanswered, g_unknown_fields, asked,
                     g_prefs, polls, call, last>>
      /\ g_method_names' = IF Java!MethodIdFor(m) \in DOMAIN g_method_names THEN g_method_names
                           ELSE Append(g_method_names, m)
      /\ ids' = ids \cup {[method |-> m, id |-> Java!MethodIdFor(m)]}
  BY DEF Java!GetMethodID, Java!fixed, Java!noteVars, Java!fieldVars
<1>2. PICK names, id, M : names = g_method_names /\ id = Java!MethodIdFor(m) /\ M = program.methods
  OBVIOUS
<1>3. names \in Seq(M) /\ m \in M /\ \A i, j \in DOMAIN names : names[i] = names[j] => i = j
  BY <1>2 DEF JavaInv, NamesOk
<1>4. ASSUME m \in Java!Range(names) PROVE NamesOk'
  <2>1. id \in DOMAIN names /\ names[id] = m
    <3>1. \E i \in DOMAIN names : names[i] = m
      BY <1>4 DEF Java!Range
    <3>2. id = CHOOSE i \in DOMAIN names : names[i] = m
      BY <1>2, <1>4 DEF Java!MethodIdFor
    <3> QED
      BY <3>1, <3>2
  <2>2. g_method_names' = names /\ UNCHANGED program
    BY <1>1, <1>2, <2>1
  <2>3. \A n \in ids' : n.id \in DOMAIN names /\ names[n.id] = n.method
    BY <1>1, <1>2, <2>1 DEF JavaInv, NamesOk
  <2> QED
    <3>1. program' \in Programs /\ names \in Seq(program'.methods)
      BY <1>2, <1>3, <2>2 DEF JavaInv, NamesOk
    <3> QED
      BY <1>3, <2>2, <2>3, <3>1 DEF NamesOk
<1>5. ASSUME m \notin Java!Range(names) PROVE NamesOk'
  <2>1. id = Len(names) + 1
    BY <1>2, <1>5 DEF Java!MethodIdFor
  <2>2. PICK more : more = Append(names, m)
    OBVIOUS
  <2>3. /\ more \in Seq(M) /\ DOMAIN more = DOMAIN names \cup {id} /\ id \notin DOMAIN names
        /\ more[id] = m /\ \A i \in DOMAIN names : more[i] = names[i]
    BY <1>3, <2>1, <2>2
  <2>4. \A i \in DOMAIN names : names[i] # m
    BY <1>5 DEF Java!Range
  <2>5. \A i, j \in DOMAIN more : more[i] = more[j] => i = j
    BY <1>3, <2>3, <2>4
  <2>6. g_method_names' = more
    BY <1>1, <1>2, <2>2, <2>3
  <2>7. \A n \in ids' : n.id \in DOMAIN more /\ more[n.id] = n.method
    BY <1>1, <1>2, <2>3 DEF JavaInv, NamesOk
  <2>8. UNCHANGED program
    BY <1>1
  <2>9. program' \in Programs /\ more \in Seq(program'.methods)
    BY <1>2, <2>3, <2>8 DEF JavaInv, NamesOk
  <2> QED
    BY <2>5, <2>6, <2>7, <2>9 DEF NamesOk
<1>6. NamesOk'
  BY <1>4, <1>5, <1>2 DEF JavaInv
<1>7. NotesOk' /\ StoreOk' /\ PollsOk'
  BY <1>1 DEF JavaInv, NotesOk, StoreOk, PollsOk, Java!PollsCount
<1>8. CallsOk'
  BY <1>1, CallsStand DEF JavaInv
<1> QED
  BY <1>6, <1>7, <1>8 DEF JavaInv
(* A field that is asked for is known, or noted.                           *)
LEMMA FieldKeeps ==
  ASSUME JavaInv, NEW t \in Pair, NEW f \in Java!Named, NEW kind, Java!GetField(t, f, kind)
  PROVE  JavaInv'
<1>1. /\ UNCHANGED <<program, g_method_names, ids, g_method_called, g_method_unanswered,
                     g_prefs, polls, call, last>>
      /\ g_unknown_fields' = IF f \in DOMAIN Java!Fields THEN g_unknown_fields
                             ELSE Java!NoteOnce(g_unknown_fields, f)
  BY DEF Java!GetField, Java!FieldIdFor, Java!fixed, Java!idVars, Java!noteVars
<1>2. PICK a : asked' = asked \cup {[field |-> f, answer |-> a]}
  BY DEF Java!GetField
<1>3. g_unknown_fields \in Seq(Java!Named)
  BY DEF JavaInv, NotesOk
<1>4. /\ g_unknown_fields' \in Seq(Java!Named)
      /\ Java!Range(g_unknown_fields) \subseteq Java!Range(g_unknown_fields')
      /\ f \in DOMAIN Java!Fields \cup Java!Range(g_unknown_fields')
  <2>1. CASE f \in DOMAIN Java!Fields
    BY <1>1, <1>3, <2>1
  <2>2. CASE f \notin DOMAIN Java!Fields
    BY <1>1, <1>3, <2>2, NotedOnce
  <2> QED
    BY <2>1, <2>2
<1>5. \A b \in asked' : b.field \in DOMAIN Java!Fields \cup Java!Range(g_unknown_fields')
  BY <1>2, <1>4 DEF JavaInv, NotesOk
<1>6. /\ Java!Range(g_unknown_fields)' = Java!Range(g_unknown_fields')
      /\ Java!Range(g_method_called)' = Java!Range(g_method_called)
      /\ Java!Range(g_method_unanswered)' = Java!Range(g_method_unanswered)
  BY <1>1 DEF Java!Range
<1>7. NotesOk'
  BY <1>1, <1>4, <1>5, <1>6 DEF JavaInv, NotesOk
<1>8. NamesOk' /\ StoreOk' /\ PollsOk'
  BY <1>1 DEF JavaInv, NamesOk, StoreOk, PollsOk, Java!PollsCount
<1>9. CallsOk'
  BY <1>1, CallsStand DEF JavaInv
<1> QED
  BY <1>7, <1>8, <1>9 DEF JavaInv

(* A call is noted before it is answered.                                  *)
LEMMA CalledKeeps ==
  ASSUME Java!MethodsAssumption, JavaInv, NEW t \in Pair, NEW i \in DOMAIN g_method_names,
         NEW form \in Java!Forms, NEW args \in Java!ArgsOf(Java!MethodName(i)),
         Java!NoteCalled(t, i, form, args)
  PROVE  JavaInv'
<1>1. PICK M, m : M = program.methods /\ m = Java!MethodName(i)
  OBVIOUS
<1>2. m \in M /\ m # Java!None
  BY <1>1 DEF JavaInv, NamesOk, Java!MethodName, Java!MethodsAssumption
<1>3. PICK d : d = [at |-> "called", method |-> m, form |-> form, args |-> args]
  OBVIOUS
<1>4. /\ UNCHANGED <<program, g_method_names, ids, g_unknown_fields, asked, g_method_unanswered,
                     g_prefs, polls, last>>
      /\ call[t].at = "idle" /\ call' = [call EXCEPT ![t] = d]
      /\ g_method_called' = Java!NoteOnce(g_method_called, m)
  BY <1>1, <1>3 DEF Java!NoteCalled, Java!fixed, Java!idVars, Java!fieldVars
<1>5. g_method_called \in Seq(M)
  BY <1>1 DEF JavaInv, NotesOk
<1>6. g_method_called' \in Seq(M) /\ Java!Range(g_method_called') = Java!Range(g_method_called) \cup {m}
  BY <1>2, <1>4, <1>5, NotedOnce
<1>7. /\ Java!Range(g_method_called)' = Java!Range(g_method_called')
      /\ Java!Range(g_method_unanswered)' = Java!Range(g_method_unanswered)
      /\ Java!Range(g_unknown_fields)' = Java!Range(g_unknown_fields)
      /\ Java!ArgsOf(m)' = Java!ArgsOf(m)
  BY <1>4 DEF Java!Range, Java!ArgsOf
<1>8. NotesOk'
  BY <1>1, <1>4, <1>6, <1>7 DEF JavaInv, NotesOk
<1>9. NamesOk' /\ StoreOk' /\ PollsOk'
  BY <1>4 DEF JavaInv, NamesOk, StoreOk, PollsOk, Java!PollsCount
<1>10. PICK c, l : c = call[t] /\ l = last[t]
  OBVIOUS
<1>11. CallOk(c, l) /\ c.at = "idle"
  BY <1>4, <1>10 DEF JavaInv, CallsOk
<1>12. DOMAIN d = {"at", "method", "form", "args"} /\ d.at = "called" /\ d.method = m /\ d.args = args
  BY <1>3
<1>13. CallOk(d, l)'
  BY <1>1, <1>2, <1>6, <1>7, <1>11, <1>12 DEF CallOk
<1>14. /\ DOMAIN call' = Pair /\ call'[t] = d /\ \A u \in Pair \ {t} : call'[u] = call[u]
       /\ DOMAIN last' = Pair /\ last'[t] = l /\ \A u \in Pair \ {t} : last'[u] = last[u]
  BY <1>4, <1>10 DEF JavaInv, CallsOk
<1>15. CallsOk'
  BY <1>4, <1>6, <1>7, <1>13, <1>14, CallMoves DEF JavaInv
<1> QED
  BY <1>8, <1>9, <1>15 DEF JavaInv

(* That nothing answered is noted after the call.                          *)
LEMMA UnansweredKeeps ==
  ASSUME JavaInv, NEW t \in Pair, Java!NoteUnanswered(t)
  PROVE  JavaInv'
<1>1. PICK M, c, l, m : M = program.methods /\ c = call[t] /\ l = last[t] /\ m = c.method
  OBVIOUS
<1>2. CallOk(c, l) /\ c.at = "unanswered"
  BY <1>1 DEF Java!NoteUnanswered, JavaInv, CallsOk
<1>3. PICK d : d = [c EXCEPT !.at = "idle"]
  OBVIOUS
<1>4. /\ UNCHANGED <<program, g_method_names, ids, g_unknown_fields, asked, g_method_called,
                     g_prefs, polls, last>>
      /\ call' = [call EXCEPT ![t] = d]
      /\ g_method_unanswered' = Java!NoteOnce(g_method_unanswered, m)
  BY <1>1, <1>3 DEF Java!NoteUnanswered, Java!fixed, Java!idVars, Java!fieldVars
<1>5. g_method_called \in Seq(M) /\ g_method_unanswered \in Seq(M) /\ m \in Java!Range(g_method_called)
  BY <1>1, <1>2 DEF JavaInv, NotesOk, CallOk
<1>6. m \in M
  BY <1>5 DEF Java!Range
<1>7. /\ g_method_unanswered' \in Seq(M)
      /\ Java!Range(g_method_unanswered') = Java!Range(g_method_unanswered) \cup {m}
  BY <1>4, <1>5, <1>6, NotedOnce
<1>8. /\ Java!Range(g_method_unanswered)' = Java!Range(g_method_unanswered')
      /\ Java!Range(g_method_called)' = Java!Range(g_method_called)
      /\ Java!Range(g_unknown_fields)' = Java!Range(g_unknown_fields)
  BY <1>4 DEF Java!Range
<1>9. NotesOk'
  BY <1>1, <1>4, <1>5, <1>7, <1>8 DEF JavaInv, NotesOk
<1>10. NamesOk' /\ StoreOk' /\ PollsOk'
  BY <1>4 DEF JavaInv, NamesOk, StoreOk, PollsOk, Java!PollsCount
<1>11. DOMAIN d = {"at", "method", "form", "args"} /\ d.at = "idle"
  BY <1>2, <1>3 DEF CallOk
<1>12. CallOk(d, l)'
  BY <1>1, <1>2, <1>7, <1>8, <1>11 DEF CallOk
<1>13. /\ DOMAIN call' = Pair /\ call'[t] = d /\ \A u \in Pair \ {t} : call'[u] = call[u]
       /\ DOMAIN last' = Pair /\ last'[t] = l /\ \A u \in Pair \ {t} : last'[u] = last[u]
  BY <1>1, <1>4 DEF JavaInv, CallsOk
<1>14. CallsOk'
  BY <1>4, <1>7, <1>8, <1>12, <1>13, CallMoves DEF JavaInv
<1> QED
  BY <1>9, <1>10, <1>14 DEF JavaInv

(* What a call may return: what was stored, where something was; and       *)
(* nothing only if that is noted next.                                     *)
Returns(t, a, key, at_) ==
  /\ Java!Return(t, a, key, at_)
  /\ at_ \in {"idle", "unanswered"} /\ (a = Java!None => at_ = "unanswered")
  /\ key \in Java!Keys /\ g_prefs[key] # Java!None => a = g_prefs[key]

(* A call that returns was noted, and its answer is the one it was given.  *)
LEMMA ReturnKeeps ==
  ASSUME JavaInv, NEW t \in Pair, NEW a, NEW key, NEW at_, Returns(t, a, key, at_), call[t].at = "called",
         UNCHANGED <<program, g_method_called, g_method_unanswered>>
  PROVE  CallsOk' /\ \E l : /\ last' = [last EXCEPT ![t] = l]
                            /\ l.method = call[t].method /\ l.answer = a
<1>1. PICK c, m, s : c = call[t] /\ m = last[t] /\ s = IF key \in Java!Keys THEN g_prefs[key] ELSE Java!None
  OBVIOUS
<1>2. PICK d, l : d = [c EXCEPT !.at = at_] /\ l = [method |-> c.method, key |-> key, answer |-> a, stored |-> s]
  OBVIOUS
<1>3. call' = [call EXCEPT ![t] = d] /\ last' = [last EXCEPT ![t] = l]
  BY <1>1, <1>2 DEF Returns, Java!Return
<1>4. CallOk(c, m) /\ c.at = "called"
  BY <1>1 DEF JavaInv, CallsOk
<1>5. /\ DOMAIN d = {"at", "method", "form", "args"} /\ d.at = at_
      /\ d.method = c.method /\ d.args = c.args
  BY <1>2, <1>4 DEF CallOk
<1>6. l.method = c.method /\ l.answer = a /\ l.stored = s
  BY <1>2
<1>7. at_ \in {"idle", "unanswered"} /\ (a = Java!None => at_ = "unanswered") /\ (s # Java!None => a = s)
  BY <1>1 DEF Returns
<1>8. /\ Java!Range(g_method_unanswered)' = Java!Range(g_method_unanswered)
      /\ Java!Range(g_method_called)' = Java!Range(g_method_called)
      /\ Java!ArgsOf(c.method)' = Java!ArgsOf(c.method)
  BY DEF Java!Range, Java!ArgsOf
<1>9. CallOk(d, l)'
  BY <1>4, <1>5, <1>6, <1>7, <1>8 DEF CallOk
<1>10. /\ DOMAIN call' = Pair /\ call'[t] = d /\ \A u \in Pair \ {t} : call'[u] = call[u]
       /\ DOMAIN last' = Pair /\ last'[t] = l /\ \A u \in Pair \ {t} : last'[u] = last[u]
  BY <1>3 DEF JavaInv, CallsOk
<1>11. CallsOk'
  BY <1>8, <1>9, <1>10, CallMoves DEF JavaInv
<1> QED
  BY <1>1, <1>3, <1>6, <1>11
(* Only a flag's answer counts the polls of a thread.                      *)
LEMMA PollIsFlag ==
  /\ Java!Returns("isThreadComplete") = "boolean"
  /\ Java!None \notin Java!Keys
<1>1. Java!Returns("isThreadComplete") = "boolean"
  BY DEF Java!Returns, Java!KeyReaders, Java!OwnText, Java!Makers, Java!TableTexts,
         Java!Numbers, Java!Flags, Java!KeyWriters, Java!LogMethods
<1>2. Java!None \notin Java!Keys
  BY DEF Java!None, Java!Keys
<1> QED
  BY <1>1, <1>2

(* The answers are one of those, for each kind of method.                  *)
LEMMA ObjectReturns ==
  ASSUME JavaInv, NEW t \in Pair, Java!CallObjectMethod(t)
  PROVE  \E a, key, at_ : Returns(t, a, key, at_)
<1>1. PICK m, own : m = call[t].method /\ own = Java!FirstOwnedArg(call[t])
  OBVIOUS
<1>2. /\ Java!Empty # Java!None /\ "self" # Java!None /\ "ARC_SERVER" # Java!None /\ Java!None \notin Java!Keys
  <2>1. Java!Empty # Java!None
    BY Zenon DEF Java!Empty, Java!None
  <2> QED
    BY <2>1, PollIsFlag DEF Java!None
<1>3. ASSUME NEW a, a # Java!None, Java!Answered(t, a) PROVE Returns(t, a, Java!None, "idle")
  BY <1>2, <1>3 DEF Java!Answered, Returns
<1>4. Java!FromText(t, m) => \E at_ : Returns(t, Java!TextForMethod(m), Java!None, at_)
  BY <1>2 DEF Java!FromText, Returns
<1>5. ASSUME own \in Java!Keys, Java!Return(t, Java!PreferenceValue(own), own, "idle"),
             Java!PreferenceValue(own) # Java!None
      PROVE  Returns(t, Java!PreferenceValue(own), own, "idle")
  <2>1. PICK a, b, c, d : Java!PreferenceValue(own) = Java!First(<<a, b, c, d>>) /\ a = g_prefs[own]
    BY Zenon DEF Java!PreferenceValue
  <2>2. g_prefs[own] # Java!None => Java!PreferenceValue(own) = g_prefs[own]
    BY <2>1, FirstPlace
  <2> QED
    BY <1>5, <2>2 DEF Returns
<1>6. \/ Java!Answered(t, "self") \/ Java!Answered(t, IF own = Java!None THEN Java!Empty ELSE own)
      \/ Java!Answered(t, "ARC_SERVER")
      \/ /\ own \in Java!Keys /\ Java!PreferenceValue(own) # Java!None
         /\ Java!Return(t, Java!PreferenceValue(own), own, "idle")
      \/ own # Java!None /\ Java!Answered(t, own)
      \/ Java!FromText(t, m)
  BY <1>1 DEF Java!CallObjectMethod
<1> QED
  <2>1. CASE Java!Answered(t, "self") \/ Java!Answered(t, "ARC_SERVER")
    BY <1>2, <1>3, <2>1
  <2>2. CASE Java!Answered(t, IF own = Java!None THEN Java!Empty ELSE own)
    BY <1>2, <1>3, <2>2
  <2>3. CASE /\ own \in Java!Keys /\ Java!PreferenceValue(own) # Java!None
             /\ Java!Return(t, Java!PreferenceValue(own), own, "idle")
    BY <1>5, <2>3
  <2>4. CASE own # Java!None /\ Java!Answered(t, own)
    BY <1>3, <2>4
  <2>5. CASE Java!FromText(t, m)
    BY <1>4, <2>5
  <2> QED
    BY <1>6, <2>1, <2>2, <2>3, <2>4, <2>5

(* A call for a number returns as any other does.                          *)
LEMMA NumberReturns ==
  ASSUME NEW t \in Pair, Java!CallNumberMethod(t)
  PROVE  \E a, key, at_ : Returns(t, a, key, at_)
<1>1. \/ \E a \in {"self", "clock", "table"} : Java!Answered(t, a)
      \/ Java!Return(t, Java!None, Java!None, "unanswered")
  BY DEF Java!CallNumberMethod
<1>2. ASSUME NEW a \in {"self", "clock", "table"}, Java!Answered(t, a)
      PROVE  Returns(t, a, Java!None, "idle")
  BY <1>2, PollIsFlag DEF Java!Answered, Returns, Java!None
<1>3. Java!Return(t, Java!None, Java!None, "unanswered") => Returns(t, Java!None, Java!None, "unanswered")
  BY PollIsFlag DEF Returns
<1> QED
  BY <1>1, <1>2, <1>3

(* The one method whose answer counts is answered as the count says.       *)
LEMMA FlagReturns ==
  ASSUME NEW t \in Pair, Java!CallBooleanMethod(t)
  PROVE  \E a, key, at_ :
           /\ Returns(t, a, key, at_)
           /\ IF call[t].method = "isThreadComplete"
              THEN polls' = polls + 1 /\ a = IF polls >= Polls THEN "true" ELSE "false"
              ELSE UNCHANGED polls
<1>1. PICK m : m = call[t].method
  OBVIOUS
<1>2. polls' = IF m = "isThreadComplete" THEN polls + 1 ELSE polls
  BY <1>1 DEF Java!CallBooleanMethod
<1>3. CASE m = "isThreadComplete"
  <2>1. Java!Answered(t, IF polls >= Polls THEN "true" ELSE "false")
    BY <1>1, <1>3 DEF Java!CallBooleanMethod, Java!ThreadComplete
  <2>2. PICK a : a = IF polls >= Polls THEN "true" ELSE "false"
    OBVIOUS
  <2>3. Returns(t, a, Java!None, "idle")
    BY <2>1, <2>2, PollIsFlag DEF Java!Answered, Returns, Java!None
  <2> QED
    BY <1>1, <1>2, <1>3, <2>2, <2>3
<1>4. CASE m # "isThreadComplete"
  <2>1. \/ \E a \in {"true", "false"} : Java!Answered(t, a)
        \/ Java!Return(t, Java!None, Java!None, "unanswered")
    BY <1>1, <1>4 DEF Java!CallBooleanMethod
  <2>2. ASSUME NEW a \in {"true", "false"}, Java!Answered(t, a)
        PROVE  Returns(t, a, Java!None, "idle")
    BY <2>2, PollIsFlag DEF Java!Answered, Returns, Java!None
  <2>3. Java!Return(t, Java!None, Java!None, "unanswered") => Returns(t, Java!None, Java!None, "unanswered")
    BY PollIsFlag DEF Returns
  <2> QED
    BY <1>1, <1>2, <1>4, <2>1, <2>2, <2>3
<1> QED
  BY <1>3, <1>4

(* Of the callers who have only polled, one has been told, once all the    *)
(* polls were made that were asked for.                                    *)
LEMMA PollsKeep ==
  ASSUME Java!MethodsAssumption, JavaInv, NEW t \in Pair, NEW l, last' = [last EXCEPT ![t] = l],
         l.method # Java!None,
         IF l.method = "isThreadComplete"
         THEN polls' = polls + 1 /\ l.answer = IF polls >= Polls THEN "true" ELSE "false"
         ELSE UNCHANGED polls
  PROVE  PollsOk'
<1>1. /\ polls \in Nat /\ Polls \in Nat /\ DOMAIN last = Pair
      /\ Java!PollsCount
  BY DEF JavaInv, PollsOk, CallsOk, Java!MethodsAssumption
<1>2. last'[t] = l /\ \A u \in Pair \ {t} : last'[u] = last[u]
  BY <1>1
<1>3. polls' \in Nat
  BY <1>1
<1>4. ASSUME polls' <= Polls, NEW u \in Pair, last'[u].method = "isThreadComplete"
      PROVE  last'[u].answer = "false"
  <2>1. polls <= Polls /\ (l.method = "isThreadComplete" => ~(polls >= Polls))
    BY <1>1, <1>4
  <2>2. CASE u = t
    BY <1>2, <1>4, <2>1, <2>2
  <2>3. CASE u # t
    BY <1>1, <1>2, <1>4, <2>1, <2>3 DEF Java!PollsCount
  <2> QED
    BY <2>2, <2>3
<1>5. ASSUME polls' > Polls, \A u \in Pair : last'[u].method # "isThreadComplete" => last'[u].method = Java!None
      PROVE  \E u \in Pair : last'[u].method = "isThreadComplete" /\ last'[u].answer = "true"
  <2>1. l.method = "isThreadComplete"
    BY <1>2, <1>5
  <2>2. l.answer = "true"
    BY <1>1, <1>5, <2>1
  <2> QED
    BY <1>2, <2>1, <2>2
<1> QED
  BY <1>3, <1>4, <1>5 DEF PollsOk, Java!PollsCount

(* What is not touched stands.                                             *)
LEMMA NamesAndNotesStand ==
  ASSUME JavaInv, UNCHANGED <<program, g_method_names, ids, g_unknown_fields, asked,
                              g_method_called, g_method_unanswered>>
  PROVE  NamesOk' /\ NotesOk'
<1>1. NamesOk'
  BY DEF JavaInv, NamesOk
<1>2. /\ Java!Range(g_unknown_fields)' = Java!Range(g_unknown_fields)
      /\ Java!Range(g_method_called)' = Java!Range(g_method_called)
      /\ Java!Range(g_method_unanswered)' = Java!Range(g_method_unanswered)
  BY DEF Java!Range
<1>3. NotesOk'
  BY <1>2 DEF JavaInv, NotesOk
<1> QED
  BY <1>1, <1>3

(* So an answer leaves all as it should be.                                *)
LEMMA AnswerKeeps ==
  ASSUME Java!MethodsAssumption, JavaInv, NEW t \in Pair,
         Java!CallObjectMethod(t) \/ Java!CallNumberMethod(t) \/ Java!CallBooleanMethod(t)
  PROVE  JavaInv'
<1>1. /\ UNCHANGED <<program, g_method_names, ids, g_unknown_fields, asked, g_prefs,
                     g_method_called, g_method_unanswered>>
      /\ call[t].at = "called"
  BY DEF Java!CallObjectMethod, Java!CallNumberMethod, Java!CallBooleanMethod, Java!Answering,
         Java!fixed, Java!idVars, Java!fieldVars, Java!noteVars
<1>2. PICK a, key, at_ :
        /\ Returns(t, a, key, at_)
        /\ IF call[t].method = "isThreadComplete"
           THEN polls' = polls + 1 /\ a = IF polls >= Polls THEN "true" ELSE "false"
           ELSE UNCHANGED polls
  <2>1. CASE Java!CallObjectMethod(t)
    <3>1. call[t].method # "isThreadComplete" /\ UNCHANGED polls
      BY <2>1, PollIsFlag DEF Java!CallObjectMethod, Java!Answering
    <3> QED
      BY <2>1, <3>1, ObjectReturns
  <2>2. CASE Java!CallNumberMethod(t)
    <3>1. call[t].method # "isThreadComplete" /\ UNCHANGED polls
      BY <2>2, PollIsFlag DEF Java!CallNumberMethod, Java!Answering
    <3> QED
      BY <2>2, <3>1, NumberReturns
  <2>3. CASE Java!CallBooleanMethod(t)
    BY <2>3, FlagReturns
  <2> QED
    BY <2>1, <2>2, <2>3
<1>3. PICK l : CallsOk' /\ last' = [last EXCEPT ![t] = l] /\ l.method = call[t].method /\ l.answer = a
  BY <1>1, <1>2, ReturnKeeps
<1>4. l.method # Java!None
  BY <1>1, <1>3 DEF JavaInv, CallsOk, CallOk
<1>5. PollsOk'
  BY <1>2, <1>3, <1>4, PollsKeep
<1>6. NamesOk' /\ NotesOk' /\ StoreOk'
  BY <1>1, NamesAndNotesStand DEF JavaInv, StoreOk
<1> QED
  BY <1>3, <1>5, <1>6 DEF JavaInv

(* What a title stores is one of its values, or empty.                     *)
LEMMA StoringKeeps ==
  ASSUME JavaInv, NEW t \in Pair, Java!CallVoidMethod(t)
  PROVE  JavaInv'
<1>1. PICK c, l, args : c = call[t] /\ l = last[t] /\ args = Java!OwnedArgs(c)
  OBVIOUS
<1>2. PICK d : d = [c EXCEPT !.at = "idle"]
  OBVIOUS
<1>3. /\ UNCHANGED <<program, g_method_names, ids, g_unknown_fields, asked, g_method_called,
                     g_method_unanswered, polls, last>>
      /\ c.at = "called" /\ call' = [call EXCEPT ![t] = d]
      /\ IF c.method \in Java!KeyWriters /\ args # <<>> /\ args[1] \in Java!Keys
         THEN Java!SetPreference(args[1], IF Len(args) > 1 THEN args[2] ELSE Java!Empty)
         ELSE UNCHANGED g_prefs
  BY <1>1, <1>2 DEF Java!CallVoidMethod, Java!Answering, Java!fixed, Java!idVars, Java!fieldVars, Java!noteVars
<1>4. CallOk(c, l)
  BY <1>1 DEF JavaInv, CallsOk
<1>5. NamesOk' /\ NotesOk' /\ PollsOk'
  BY <1>3, NamesAndNotesStand DEF JavaInv, PollsOk, Java!PollsCount
<1>6. CallsOk'
  <2>1. DOMAIN d = {"at", "method", "form", "args"} /\ d.at = "idle"
    BY <1>2, <1>4 DEF CallOk
  <2>2. /\ Java!Range(g_method_unanswered)' = Java!Range(g_method_unanswered)
        /\ Java!Range(g_method_called)' = Java!Range(g_method_called)
    BY <1>3 DEF Java!Range
  <2>3. CallOk(d, l)'
    BY <1>3, <1>4, <2>1, <2>2 DEF CallOk
  <2>4. /\ DOMAIN call' = Pair /\ call'[t] = d /\ \A u \in Pair \ {t} : call'[u] = call[u]
        /\ DOMAIN last' = Pair /\ last'[t] = l /\ \A u \in Pair \ {t} : last'[u] = last[u]
    BY <1>1, <1>3 DEF JavaInv, CallsOk
  <2> QED
    BY <1>3, <2>2, <2>3, <2>4, CallMoves DEF JavaInv
<1>7. StoreOk'
  <2>1. CASE UNCHANGED g_prefs
    BY <2>1 DEF JavaInv, StoreOk
  <2>2. CASE ~UNCHANGED g_prefs
    <3>1. PICK v : v = IF Len(args) > 1 THEN args[2] ELSE Java!Empty
      OBVIOUS
    <3>2. c.method \in Java!KeyWriters /\ args # <<>> /\ g_prefs' = [g_prefs EXCEPT ![args[1]] = v]
      BY <1>3, <2>2, <3>1 DEF Java!SetPreference
    <3>3. args = c.args
      BY <1>1, <3>2 DEF Java!OwnedArgs
    <3>4. /\ c.method \notin Java!KeyReaders
          /\ c.method \notin Java!Makers \cup {"mkdir", "getComponentId"}
      BY <3>2 DEF Java!KeyWriters, Java!KeyReaders, Java!Makers
    <3>5. \/ \E k \in program.keys, w \in Values : args = <<k, w>>
          \/ \E k \in program.keys : args = <<k>>
      <4>1. Java!ArgsOf(c.method) = {<<k, w>> : k \in program.keys, w \in Values} \cup {<<k>> : k \in program.keys}
        BY <3>2, <3>4 DEF Java!ArgsOf
      <4>2. args \in Java!ArgsOf(c.method)
        BY <1>3, <1>4, <3>3 DEF CallOk
      <4> QED
        BY <4>1, <4>2
    <3>6. v \in Values \cup {Java!Empty}
      BY <3>1, <3>5
    <3> QED
      BY <3>2, <3>6 DEF JavaInv, StoreOk
  <2> QED
    BY <2>1, <2>2
<1> QED
  BY <1>5, <1>6, <1>7 DEF JavaInv

(* So it stays.                                                            *)
LEMMA JavaKeeps == Java!MethodsAssumption /\ JavaInv /\ [Java!Next]_javaVars => JavaInv'
<1> SUFFICES ASSUME Java!MethodsAssumption, JavaInv, Java!Next \/ UNCHANGED javaVars PROVE JavaInv'
  OBVIOUS
<1>1. CASE UNCHANGED javaVars
  <2>1. UNCHANGED <<program, g_method_names, ids, g_unknown_fields, asked, g_method_called,
                    g_method_unanswered, polls, last, call, g_prefs>>
    BY <1>1 DEF javaVars
  <2>2. NamesOk' /\ NotesOk' /\ PollsOk' /\ StoreOk'
    BY <2>1, NamesAndNotesStand DEF JavaInv, PollsOk, StoreOk, Java!PollsCount
  <2>3. CallsOk'
    BY <2>1, CallsStand DEF JavaInv, Java!Range
  <2> QED
    BY <2>2, <2>3 DEF JavaInv
<1>2. CASE Java!Next
  BY <1>2, LookupKeeps, CalledKeeps, FieldKeeps, AnswerKeeps, StoringKeeps, UnansweredKeeps DEF Java!Next
<1> QED
  BY <1>1, <1>2

(* And with that ids stand for methods, and nothing goes unsaid.           *)
LEMMA JavaSound == JavaInv => MethodsSound
<1> SUFFICES ASSUME JavaInv PROVE MethodsSound
  OBVIOUS
<1>1. Java!TypeOK
  <2>1. ASSUME NEW T, NEW s \in Seq(T) PROVE Java!Range(s) \subseteq T
    BY DEF Java!Range
  <2>2. Java!Range(g_method_names) \subseteq program.methods /\ Java!Range(g_method_called) \subseteq program.methods
    BY <2>1 DEF JavaInv, NamesOk, NotesOk
  <2>3. \A u \in Pair : call[u].at \in {"idle", "called", "unanswered"}
    BY DEF JavaInv, CallsOk, CallOk
  <2> QED
    BY <2>2, <2>3 DEF JavaInv, StoreOk, Java!TypeOK
<1>2. Java!IdsNameOneMethod
  BY DEF JavaInv, NamesOk, Java!IdsNameOneMethod, Java!MethodName
<1>3. Java!NothingUnsaid
  BY DEF JavaInv, NotesOk, CallsOk, CallOk, Java!NothingUnsaid
<1>4. Java!StoredWins
  BY DEF JavaInv, CallsOk, CallOk, Java!StoredWins
<1> QED
  BY <1>1, <1>2, <1>3, <1>4 DEF JavaInv, PollsOk, MethodsSound


-----------------------------------------------------------------------------
(* Varargs.  The list has as many registers left of each area as the       *)
(* arguments before the place it is at have not taken, and is as far into  *)
(* the stack as those that found no register: so what it fetches there is  *)
(* what the caller put there.                                              *)
VaTypes ==
    /\ Len(format) \in Nat /\ DOMAIN format = 1 .. Len(format) /\ Len(format) <= MaxFormat
    /\ \A k \in DOMAIN format : format[k].size \in Nat
    /\ taken \in 0 .. ArgRegs /\ cap \in Nat /\ pass \in {"measures", "writes", "done"}
    /\ pass = "measures" <=> cap = 0
    /\ conversion \in 1 .. Len(format) + 1
    /\ used \in Nat /\ full \in Nat

LengthsInv ==
    /\ written = IF cap = 0 THEN 0 ELSE Va!SmallerOf(used, cap - 1)
    /\ Va!Fits => used = full
    /\ pass = "done" => conversion > Len(format) /\ result = used

ListAt(k) ==
    [gr_offs |-> Va!SmallerOf(taken + Va!Before(k, Va!Places("int")), ArgRegs) - ArgRegs,
     vr_offs |-> Va!SmallerOf(Va!Before(k, Va!Places("double")), VecRegs) - VecRegs,
     stack   |-> Va!Before(k, Va!OnStack)]
OwnBefore(k) == {<<n, n>> : n \in {j \in Va!Passed : j < k}}

VaInv == VaTypes /\ LengthsInv /\ ap = ListAt(conversion) /\ fetched = OwnBefore(conversion)

(* Counting is the same wherever it is done.                               *)
LEMMA VaCounts == \A S : Va!Cardinality(S) = Cardinality(S)
BY DEF Va!Cardinality, Cardinality

(* Those before a place, one place further.                                *)
LEMMA BeforeStep ==
  ASSUME NEW S, S \subseteq Nat \ {0}, NEW k \in Nat \ {0}
  PROVE  /\ Va!Before(k, S) \in Nat
         /\ Va!Before(k + 1, S) = Va!Before(k, S) + (IF k \in S THEN 1 ELSE 0)
<1> DEFINE T == {j \in S : j < k}  U == {j \in S : j < k + 1}
<1>0. \A j \in S : j \in Nat /\ j # 0
  OBVIOUS
<1>1. IsFiniteSet(T)
  <2>1. \A j \in S : j < k => j \in 1 .. k
    BY <1>0
  <2>2. IsFiniteSet(1 .. k)
    BY FS_Interval
  <2>3. T \subseteq 1 .. k
    BY <2>1
  <2> QED
    BY <2>2, <2>3, FS_Subset
<1>2. Cardinality(T) \in Nat
  BY <1>1, FS_CardinalityType
<1>3. U = IF k \in S THEN T \cup {k} ELSE T
  <2>1. \A j \in S : j < k + 1 <=> j < k \/ j = k
    BY <1>0
  <2> QED
    BY <2>1
<1>4. k \notin T
  OBVIOUS
<1>5. Cardinality(U) = Cardinality(T) + (IF k \in S THEN 1 ELSE 0)
  <2> HIDE DEF T, U
  <2>1. CASE k \in S
    BY <1>1, <1>2, <1>3, <1>4, <2>1, FS_AddElement
  <2>2. CASE k \notin S
    BY <1>2, <1>3, <2>2
  <2> QED
    BY <2>1, <2>2
<1> QED
  BY <1>2, <1>5, VaCounts DEF Va!Before

(* Before the first place there is none.                                   *)
LEMMA BeforeFirst ==
  ASSUME NEW S, S \subseteq Nat \ {0}
  PROVE  Va!Before(1, S) = 0
<1>0. \A j \in S : j \in Nat /\ j # 0
  OBVIOUS
<1>1. {j \in S : j < 1} = {}
  <2>1. \A j \in S : ~(j < 1)
    BY <1>0
  <2> QED
    BY <2>1
<1>2. Cardinality({}) = 0
  BY FS_EmptySet
<1> QED
  BY <1>1, <1>2, VaCounts DEF Va!Before

(* A member of the set is counted by those that follow.                    *)
LEMMA BeforeGrows ==
  ASSUME NEW S, S \subseteq Nat \ {0}, NEW j \in S, NEW k \in S, j # k
  PROVE  Va!Before(j, S) # Va!Before(k, S)
<1>0. \A n \in S : n \in Nat /\ n # 0
  OBVIOUS
<1>1. ASSUME NEW x \in S, NEW y \in S, x < y PROVE Va!Before(x, S) # Va!Before(y, S)
  <2> DEFINE T == {n \in S : n < x}  U == {n \in S : n < y}
  <2>1. x \in Nat \ {0} /\ y \in Nat \ {0}
    BY <1>0
  <2>2. T \subseteq U /\ x \in U /\ x \notin T
    <3>1. \A n \in S : n < x => n < y
      BY <1>0, <1>1, <2>1
    <3>2. ~(x < x)
      BY <2>1
    <3> QED
      BY <1>1, <3>1, <3>2
  <2>3. IsFiniteSet(U)
    <3>1. \A n \in S : n < y => n \in 1 .. y
      BY <1>0, <2>1
    <3>2. U \subseteq 1 .. y
      BY <3>1
    <3>3. IsFiniteSet(1 .. y)
      BY <2>1, FS_Interval
    <3> QED
      BY <3>2, <3>3, FS_Subset
  <2> HIDE DEF T, U
  <2>4. Cardinality(T) # Cardinality(U)
    <3>1. T # U
      BY <2>2
    <3> QED
      BY <2>2, <2>3, <3>1, FS_Subset, FS_CardinalityType
  <2>5. Va!Before(x, S) = Cardinality(T) /\ Va!Before(y, S) = Cardinality(U)
    BY VaCounts DEF T, U, Va!Before
  <2> QED
    BY <2>4, <2>5
<1>2. j < k \/ k < j
  BY <1>0
<1> QED
  BY <1>1, <1>2

(* The places of a format are numbers from one.                            *)
LEMMA PlacesAreNumbers ==
  ASSUME VaTypes
  PROVE  /\ \A type : Va!Places(type) \subseteq Nat \ {0}
         /\ Va!Passed \subseteq Nat \ {0} /\ Va!OnStack \subseteq Nat \ {0}
         /\ Va!OnStack \subseteq Va!Passed
         /\ Va!Places("int") \cap Va!Places("double") = {}
BY DEF VaTypes, Va!Places, Va!Passed, Va!OnStack

(* No two arguments are in one place.                                      *)
LEMMA PlacesApart ==
  ASSUME VaTypes, NEW j \in Va!Passed, NEW k \in Va!Passed, Va!Place(j) = Va!Place(k)
  PROVE  j = k
<1>1. \A s, t, x, y : <<s, x>> = <<t, y>> => s = t /\ x = y
  OBVIOUS
<1>2. \A s \in {"stack", "x", "q"} : s = "stack" \/ s = "x" \/ s = "q"
  OBVIOUS
<1>3. PICK I, D, O : I = Va!Places("int") /\ D = Va!Places("double") /\ O = Va!OnStack
  OBVIOUS
<1>4. /\ I \subseteq Nat \ {0} /\ D \subseteq Nat \ {0} /\ O \subseteq Nat \ {0}
      /\ Va!Passed = I \cup D /\ taken \in Nat
  BY <1>3, PlacesAreNumbers DEF Va!Passed, VaTypes
<1>5. \A n \in Va!Passed : Va!Place(n) = IF n \in O THEN <<"stack", Va!Before(n, O)>>
                                         ELSE IF n \in I THEN <<"x", taken + Va!Before(n, I)>>
                                         ELSE <<"q", Va!Before(n, D)>>
  BY <1>3 DEF Va!Place
<1>6. CASE j \in O
  <2>1. k \in O
    BY <1>1, <1>5, <1>6
  <2>2. Va!Before(j, O) = Va!Before(k, O)
    BY <1>1, <1>5, <1>6, <2>1
  <2> QED
    BY <1>4, <1>6, <2>1, <2>2, BeforeGrows
<1>7. CASE j \notin O /\ j \in I
  <2>1. k \notin O /\ k \in I
    BY <1>1, <1>5, <1>7
  <2>2. taken + Va!Before(j, I) = taken + Va!Before(k, I)
    BY <1>1, <1>5, <1>7, <2>1
  <2>3. Va!Before(j, I) \in Nat /\ Va!Before(k, I) \in Nat
    BY <1>4, <1>7, <2>1, BeforeStep
  <2>4. Va!Before(j, I) = Va!Before(k, I)
    BY <1>4, <2>2, <2>3
  <2> QED
    BY <1>4, <1>7, <2>1, <2>4, BeforeGrows
<1>8. CASE j \notin O /\ j \notin I
  <2>1. k \notin O /\ k \notin I
    BY <1>1, <1>5, <1>8
  <2>2. Va!Before(j, D) = Va!Before(k, D) /\ j \in D /\ k \in D
    BY <1>1, <1>4, <1>5, <1>8, <2>1
  <2> QED
    BY <1>4, <2>2, BeforeGrows
<1> QED
  BY <1>6, <1>7, <1>8

(* What is found in an argument's place is that argument.                  *)
LEMMA FoundInPlace ==
  ASSUME VaTypes, NEW k \in Va!Passed, NEW area, NEW n, Va!Place(k) = <<area, n>>
  PROVE  Va!At(area, n) = k
<1>1. \A j \in Va!Passed : Va!Place(j) = <<area, n>> => j = k
  BY PlacesApart
<1>2. {j \in Va!Passed : Va!Place(j) = <<area, n>>} = {k}
  BY <1>1
<1> QED
  BY <1>2 DEF Va!At

(* One place of the format.                                                *)
LEMMA FetchesItsOwn ==
  ASSUME VaInv, conversion \in DOMAIN format, Va!Fetch(format[conversion])
  PROVE  ap' = ListAt(conversion + 1) /\ fetched' = OwnBefore(conversion + 1)
<1>1. PICK k, c, I, D, O : /\ k = conversion /\ c = format[k] /\ I = Va!Places("int")
                           /\ D = Va!Places("double") /\ O = Va!OnStack
  OBVIOUS
<1>2. /\ k \in Nat \ {0} /\ taken \in 0 .. ArgRegs /\ ArgRegs \in Nat /\ VecRegs \in Nat
      /\ VaTypes
  BY <1>1, ServicesAssumption DEF VaInv, VaTypes, ServicesAssumption, Va!VarargsAssumption
<1>3. /\ I \subseteq Nat \ {0} /\ D \subseteq Nat \ {0} /\ O \subseteq Nat \ {0}
      /\ O \subseteq I \cup D /\ I \cap D = {} /\ Va!Passed = I \cup D
  BY <1>1, <1>2, PlacesAreNumbers DEF Va!Passed
<1>4. PICK x, y, z : x = Va!Before(k, I) /\ y = Va!Before(k, D) /\ z = Va!Before(k, O)
  OBVIOUS
<1>5. PICK xx, yy, zz : /\ xx = Va!Before(k + 1, I) /\ yy = Va!Before(k + 1, D)
                        /\ zz = Va!Before(k + 1, O)
  OBVIOUS
<1>6. /\ x \in Nat /\ xx = x + IF k \in I THEN 1 ELSE 0
      /\ y \in Nat /\ yy = y + IF k \in D THEN 1 ELSE 0
      /\ z \in Nat /\ zz = z + IF k \in O THEN 1 ELSE 0
  BY <1>2, <1>3, <1>4, <1>5, BeforeStep
<1>7. PICK g, v : /\ g = (IF taken + x < ArgRegs THEN taken + x ELSE ArgRegs) - ArgRegs
                  /\ v = (IF y < VecRegs THEN y ELSE VecRegs) - VecRegs
  OBVIOUS
<1>8. g \in Int /\ v \in Int /\ (g < 0 <=> taken + x < ArgRegs) /\ (v < 0 <=> y < VecRegs)
  BY <1>2, <1>6, <1>7
<1>9. ap = [gr_offs |-> g, vr_offs |-> v, stack |-> z]
  BY <1>1, <1>4, <1>7 DEF VaInv, ListAt, Va!SmallerOf
<1>10. PICK p : p = [gr_offs |-> g, vr_offs |-> v, stack |-> z]
  OBVIOUS
<1>11. p.gr_offs = g /\ p.vr_offs = v /\ p.stack = z
  BY <1>10
<1>12. \A gg, vv : gg = (IF taken + xx < ArgRegs THEN taken + xx ELSE ArgRegs) - ArgRegs
                   /\ vv = (IF yy < VecRegs THEN yy ELSE VecRegs) - VecRegs
          => ListAt(k + 1) = [gr_offs |-> gg, vr_offs |-> vv, stack |-> zz]
  BY <1>1, <1>5 DEF ListAt, Va!SmallerOf
<1>13. k \in I <=> Va!Takes(c) = "int"
  BY <1>1 DEF Va!Places
<1>14. k \in D <=> Va!Takes(c) = "double"
  BY <1>1 DEF Va!Places
<1>15. Va!Takes(c) \in {"int", "double", "none"}
  BY DEF Va!Takes
<1>16. k \in O <=> k \in I \cup D /\ ~(IF k \in I THEN taken + x < ArgRegs ELSE y < VecRegs)
  BY <1>1, <1>3, <1>4 DEF Va!OnStack, Va!InRegister
<1>17. Va!Place(k) = IF k \in O THEN <<"stack", z>> ELSE IF k \in I THEN <<"x", taken + x>> ELSE <<"q", y>>
  BY <1>1, <1>4 DEF Va!Place
<1>18. OwnBefore(k + 1) = IF k \in I \cup D THEN OwnBefore(k) \cup {<<k, k>>} ELSE OwnBefore(k)
  <2>1. \A j \in I \cup D : j < k + 1 <=> j < k \/ j = k
    BY <1>2, <1>3
  <2>2. ~(k < k) /\ k < k + 1
    BY <1>2
  <2> QED
    BY <1>3, <2>1, <2>2 DEF OwnBefore
<1>19. fetched = OwnBefore(k)
  BY <1>1 DEF VaInv
<1>20. CASE k \notin I \cup D
  <2>1. UNCHANGED <<ap, fetched>>
    BY <1>1, <1>13, <1>14, <1>15, <1>20 DEF Va!Fetch
  <2>2. ListAt(k + 1) = [gr_offs |-> g, vr_offs |-> v, stack |-> z]
    <3>1. k \notin I /\ k \notin D /\ k \notin O
      BY <1>3, <1>20
    <3>2. xx = x /\ yy = y /\ zz = z
      BY <1>6, <3>1
    <3> QED
      BY <1>7, <1>12, <3>2
  <2> QED
    BY <1>1, <1>9, <1>18, <1>19, <1>20, <2>1, <2>2
<1>21. CASE k \in I
  <2>1. ap' = Va!NextInt(p).ap /\ fetched' = fetched \cup {<<k, Va!NextInt(p).got>>}
    BY <1>1, <1>9, <1>10, <1>13, <1>21 DEF Va!Fetch
  <2>2. CASE g < 0
    <3>1. PICK n : n = Va!At("x", ArgRegs + g)
      OBVIOUS
    <3>2. Va!NextInt(p) = [got |-> n, ap |-> [p EXCEPT !.gr_offs = g + 1]]
      BY <1>11, <2>2, <3>1 DEF Va!NextInt
    <3>3. [p EXCEPT !.gr_offs = g + 1] = [gr_offs |-> g + 1, vr_offs |-> v, stack |-> z]
      BY <1>10
    <3>4. Va!Place(k) = <<"x", ArgRegs + g>>
      <4>1. ArgRegs + g = taken + x
        BY <1>2, <1>6, <1>7, <1>8, <2>2
      <4> QED
        BY <1>8, <1>16, <1>17, <1>21, <2>2, <4>1
    <3>5. n = k
      BY <1>2, <1>3, <1>21, <3>1, <3>4, FoundInPlace
    <3>6. ListAt(k + 1) = [gr_offs |-> g + 1, vr_offs |-> v, stack |-> z]
      <4>1. k \notin D /\ k \notin O
        BY <1>3, <1>8, <1>16, <1>21, <2>2
      <4>2. g + 1 = (IF taken + xx < ArgRegs THEN taken + xx ELSE ArgRegs) - ArgRegs
        BY <1>2, <1>6, <1>7, <1>8, <1>21, <2>2
      <4> QED
        BY <1>6, <1>7, <1>12, <4>1, <4>2
    <3>7. Va!NextInt(p).got = k /\ Va!NextInt(p).ap = ListAt(k + 1)
      BY <3>2, <3>3, <3>5, <3>6
    <3> QED
      BY <1>1, <1>18, <1>19, <1>21, <2>1, <3>7
  <2>3. CASE ~(g < 0)
    <3>1. PICK n : n = Va!At("stack", z)
      OBVIOUS
    <3>2. Va!NextInt(p) = [got |-> n, ap |-> [p EXCEPT !.stack = z + 1]]
      BY <1>11, <2>3, <3>1 DEF Va!NextInt, Va!FromStack
    <3>3. [p EXCEPT !.stack = z + 1] = [gr_offs |-> g, vr_offs |-> v, stack |-> z + 1]
      BY <1>10
    <3>4. k \in O /\ k \notin D
      BY <1>3, <1>8, <1>16, <1>21, <2>3
    <3>5. n = k
      BY <1>2, <1>3, <1>17, <1>21, <3>1, <3>4, FoundInPlace
    <3>6. ListAt(k + 1) = [gr_offs |-> g, vr_offs |-> v, stack |-> z + 1]
      <4>1. g = (IF taken + xx < ArgRegs THEN taken + xx ELSE ArgRegs) - ArgRegs
        BY <1>2, <1>6, <1>7, <1>8, <1>21, <2>3
      <4> QED
        BY <1>6, <1>7, <1>12, <3>4, <4>1
    <3>7. Va!NextInt(p).got = k /\ Va!NextInt(p).ap = ListAt(k + 1)
      BY <3>2, <3>3, <3>5, <3>6
    <3> QED
      BY <1>1, <1>18, <1>19, <1>21, <2>1, <3>7
  <2> QED
    BY <2>2, <2>3
<1>22. CASE k \in D
  <2>0. k \notin I
    BY <1>3, <1>22
  <2>1. ap' = Va!NextDouble(p).ap /\ fetched' = fetched \cup {<<k, Va!NextDouble(p).got>>}
    BY <1>1, <1>9, <1>10, <1>14, <1>22 DEF Va!Fetch
  <2>2. CASE v < 0
    <3>1. PICK n : n = Va!At("q", VecRegs + v)
      OBVIOUS
    <3>2. Va!NextDouble(p) = [got |-> n, ap |-> [p EXCEPT !.vr_offs = v + 1]]
      BY <1>11, <2>2, <3>1 DEF Va!NextDouble
    <3>3. [p EXCEPT !.vr_offs = v + 1] = [gr_offs |-> g, vr_offs |-> v + 1, stack |-> z]
      BY <1>10
    <3>4. Va!Place(k) = <<"q", VecRegs + v>>
      <4>1. VecRegs + v = y
        BY <1>2, <1>6, <1>7, <1>8, <2>2
      <4> QED
        BY <1>8, <1>16, <1>17, <1>22, <2>0, <2>2, <4>1
    <3>5. n = k
      BY <1>2, <1>3, <1>22, <3>1, <3>4, FoundInPlace
    <3>6. ListAt(k + 1) = [gr_offs |-> g, vr_offs |-> v + 1, stack |-> z]
      <4>1. k \notin O
        BY <1>8, <1>16, <1>22, <2>0, <2>2
      <4>2. v + 1 = (IF yy < VecRegs THEN yy ELSE VecRegs) - VecRegs
        BY <1>2, <1>6, <1>7, <1>8, <1>22, <2>2
      <4> QED
        BY <1>6, <1>7, <1>12, <2>0, <4>1, <4>2
    <3>7. Va!NextDouble(p).got = k /\ Va!NextDouble(p).ap = ListAt(k + 1)
      BY <3>2, <3>3, <3>5, <3>6
    <3> QED
      BY <1>1, <1>18, <1>19, <1>22, <2>1, <3>7
  <2>3. CASE ~(v < 0)
    <3>1. PICK n : n = Va!At("stack", z)
      OBVIOUS
    <3>2. Va!NextDouble(p) = [got |-> n, ap |-> [p EXCEPT !.stack = z + 1]]
      BY <1>11, <2>3, <3>1 DEF Va!NextDouble, Va!FromStack
    <3>3. [p EXCEPT !.stack = z + 1] = [gr_offs |-> g, vr_offs |-> v, stack |-> z + 1]
      BY <1>10
    <3>4. k \in O
      BY <1>8, <1>16, <1>22, <2>0, <2>3
    <3>5. n = k
      BY <1>2, <1>3, <1>17, <1>22, <3>1, <3>4, FoundInPlace
    <3>6. ListAt(k + 1) = [gr_offs |-> g, vr_offs |-> v, stack |-> z + 1]
      <4>1. v = (IF yy < VecRegs THEN yy ELSE VecRegs) - VecRegs
        BY <1>2, <1>6, <1>7, <1>8, <1>22, <2>3
      <4> QED
        BY <1>6, <1>7, <1>12, <2>0, <3>4, <4>1
    <3>7. Va!NextDouble(p).got = k /\ Va!NextDouble(p).ap = ListAt(k + 1)
      BY <3>2, <3>3, <3>5, <3>6
    <3> QED
      BY <1>1, <1>18, <1>19, <1>22, <2>1, <3>7
  <2> QED
    BY <2>2, <2>3
<1> QED
  BY <1>20, <1>21, <1>22

(* An argument list starts before every argument.                          *)
LEMMA ListFirst ==
  ASSUME VaTypes
  PROVE  ListAt(1) = Va!VaFromContext(taken) /\ OwnBefore(1) = {}
<1>1. /\ Va!Before(1, Va!Places("int")) = 0 /\ Va!Before(1, Va!Places("double")) = 0
      /\ Va!Before(1, Va!OnStack) = 0
  BY PlacesAreNumbers, BeforeFirst
<1>2. taken \in 0 .. ArgRegs /\ ArgRegs \in Nat /\ VecRegs \in Nat
  BY ServicesAssumption DEF VaTypes, ServicesAssumption, Va!VarargsAssumption
<1>3. Va!SmallerOf(taken + 0, ArgRegs) = taken /\ Va!SmallerOf(0, VecRegs) = 0
  BY <1>2 DEF Va!SmallerOf
<1>4. ListAt(1) = [gr_offs |-> taken - ArgRegs, vr_offs |-> 0 - VecRegs, stack |-> 0]
  BY <1>1, <1>3 DEF ListAt
<1>5. 0 - VecRegs = -VecRegs
  BY <1>2
<1>6. OwnBefore(1) = {}
  <2>1. \A j \in Va!Passed : ~(j < 1)
    BY PlacesAreNumbers
  <2> QED
    BY <2>1 DEF OwnBefore
<1> QED
  BY <1>4, <1>5, <1>6 DEF Va!VaFromContext

(* A conversion has a length, and what is produced of it has one.          *)
LEMMA SizesAreNumbers ==
  ASSUME VaTypes, NEW k \in DOMAIN format
  PROVE  Va!Extent(format[k]) \in Nat /\ Va!Produced(format[k]) \in Nat
<1>1. format[k].size \in Nat /\ PieceSize \in Nat \ {0}
  BY ServicesAssumption DEF VaTypes, ServicesAssumption, Va!VarargsAssumption
<1>2. Va!Extent(format[k]) \in {0, 1, format[k].size}
  BY DEF Va!Extent
<1>3. Va!Extent(format[k]) \in Nat
  BY <1>1, <1>2
<1> QED
  BY <1>1, <1>3 DEF Va!Produced, Va!SmallerOf

(* The call stays as it is made.                                           *)
LEMMA SameCall ==
  ASSUME UNCHANGED <<format, taken>>
  PROVE  (\A k : ListAt(k)' = ListAt(k) /\ OwnBefore(k)' = OwnBefore(k)) /\ Va!Fits' = Va!Fits
BY DEF ListAt, OwnBefore, Va!Before, Va!Places, Va!Takes, Va!OnStack, Va!InRegister, Va!Passed,
       Va!SmallerOf, Va!Cardinality, Va!Fits, Va!Produced, Va!Extent

(* It begins so.                                                           *)
LEMMA VaBegins == Va!Init => VaInv
<1> SUFFICES ASSUME Va!Init PROVE VaInv
  OBVIOUS
<1>1. PICK n \in 1 .. MaxFormat : format \in [1 .. n -> Conversions]
  BY DEF Va!Init
<1>2. MaxFormat \in Nat /\ \A c \in Conversions : c.size \in Nat
  BY ServicesAssumption DEF ServicesAssumption, Va!VarargsAssumption
<1>3. format \in Seq(Conversions)
  BY <1>1, <1>2, SeqDef
<1>4. Len(format) \in Nat /\ DOMAIN format = 1 .. Len(format)
  BY <1>3, LenProperties
<1>5. Len(format) <= MaxFormat
  <2>1. 1 .. n = 1 .. Len(format)
    BY <1>1, <1>4
  <2>2. Len(format) = n
    BY <1>1, <1>2, <1>4, <2>1
  <2> QED
    BY <1>1, <1>2, <2>2
<1>6. \A k \in DOMAIN format : format[k].size \in Nat
  BY <1>1, <1>2
<1>7. taken \in 0 .. ArgRegs /\ Caps \subseteq Nat \ {0}
  BY ServicesAssumption DEF Va!Init, ServicesAssumption, Va!VarargsAssumption
<1>8. conversion = 1 /\ used = 0 /\ full = 0 /\ written = 0 /\ fetched = {}
      /\ ap = Va!VaFromContext(taken)
  BY DEF Va!Init
<1>9. \/ pass = "measures" /\ cap = 0
      \/ pass = "writes" /\ cap \in Nat \ {0}
  BY <1>7 DEF Va!Init, Va!NoBuffer
<1>10. VaTypes
  BY <1>4, <1>5, <1>6, <1>7, <1>8, <1>9 DEF VaTypes
<1>11. LengthsInv
  BY <1>8, <1>9 DEF LengthsInv, Va!SmallerOf
<1> QED
  BY <1>8, <1>10, <1>11, ListFirst DEF VaInv

(* Formatting one place of the format keeps it.                            *)
LEMMA FormatKeeps == VaInv /\ Va!FormatInto => VaInv'
<1> SUFFICES ASSUME VaInv, Va!FormatInto PROVE VaInv'
  OBVIOUS
<1>1. VaTypes /\ LengthsInv
  BY DEF VaInv
<1>2. /\ UNCHANGED <<format, taken, pass, cap, result>> /\ pass \in {"measures", "writes"}
      /\ conversion <= Len(format) /\ conversion' = conversion + 1
      /\ Va!Fetch(format[conversion]) /\ Va!Put(Va!Produced(format[conversion]))
      /\ full' = full + Va!Extent(format[conversion])
  BY DEF Va!FormatInto
<1>3. conversion \in DOMAIN format
  BY <1>1, <1>2 DEF VaTypes
<1>4. PICK k, n, s : /\ k = conversion /\ n = Va!Produced(format[conversion])
                     /\ s = Va!Extent(format[conversion])
  OBVIOUS
<1>5. n \in Nat /\ s \in Nat /\ (Va!Fits => n = s)
  BY <1>1, <1>3, <1>4, SizesAreNumbers DEF Va!Fits
<1>6. used' = used + n /\ full' = full + s
  BY <1>2, <1>4 DEF Va!Put
<1>7. VaTypes'
  BY <1>1, <1>2, <1>3, <1>5, <1>6 DEF VaTypes
<1>8. written' = IF cap = 0 THEN 0 ELSE Va!SmallerOf(used + n, cap - 1)
  <2>1. /\ written = IF cap = 0 THEN 0 ELSE IF used < cap - 1 THEN used ELSE cap - 1
        /\ written' = IF cap # 0 /\ used < cap
                      THEN used + IF n < cap - used - 1 THEN n ELSE cap - used - 1 ELSE written
    BY <1>1, <1>2, <1>4 DEF LengthsInv, Va!Put, Va!NoBuffer, Va!SmallerOf
  <2>2. cap \in Nat /\ used \in Nat
    BY <1>1 DEF VaTypes
  <2> QED
    BY <1>5, <2>1, <2>2 DEF Va!SmallerOf
<1>9. Va!Fits' = Va!Fits
  BY <1>2, SameCall
<1>10. LengthsInv'
  <2>1. (written = IF cap = 0 THEN 0 ELSE Va!SmallerOf(used, cap - 1))'
    BY <1>2, <1>6, <1>8 DEF Va!SmallerOf
  <2>2. (Va!Fits => used = full)'
    BY <1>1, <1>5, <1>6, <1>9 DEF LengthsInv
  <2>3. pass' # "done"
    BY <1>2
  <2> QED
    BY <2>1, <2>2, <2>3 DEF LengthsInv
<1>11. ap' = ListAt(k + 1) /\ fetched' = OwnBefore(k + 1)
  BY <1>2, <1>3, <1>4, FetchesItsOwn
<1>12. ap' = ListAt(k + 1)' /\ fetched' = OwnBefore(k + 1)'
  BY <1>2, <1>11, SameCall
<1>13. (ap = ListAt(conversion) /\ fetched = OwnBefore(conversion))'
  BY <1>2, <1>4, <1>12 DEF ListAt, OwnBefore
<1> QED
  BY <1>7, <1>10, <1>13 DEF VaInv

(* And so does every step.                                                 *)
LEMMA VaKeeps == VaInv /\ [Va!Next]_vaVars => VaInv'
<1> SUFFICES ASSUME VaInv, Va!Next \/ UNCHANGED vaVars PROVE VaInv'
  OBVIOUS
<1>1. VaTypes /\ LengthsInv
  BY DEF VaInv
<1>2. CASE Va!FormatInto
  BY <1>2, FormatKeeps
<1>3. CASE Va!FormatAlloc
  <2>1. /\ UNCHANGED <<format, taken>> /\ result' = used /\ pass' = "writes" /\ cap' = used + 1
        /\ ap' = Va!VaFromContext(taken) /\ conversion' = 1 /\ used' = 0 /\ written' = 0
        /\ fetched' = {} /\ full' = 0
    BY <1>3 DEF Va!FormatAlloc, Va!Begins
  <2>2. VaTypes'
    BY <1>1, <2>1 DEF VaTypes
  <2>3. LengthsInv'
    <3>1. used \in Nat
      BY <1>1 DEF VaTypes
    <3>2. written' = 0 /\ used' = 0 /\ full' = 0 /\ pass' = "writes" /\ cap' # 0 /\ ~(cap' - 1 < 0)
      BY <2>1, <3>1
    <3>3. Va!SmallerOf(used, cap - 1)' = 0
      <4>1. cap' - 1 = used
        BY <2>1, <3>1
      <4> QED
        BY <2>1, <3>1, <4>1 DEF Va!SmallerOf
    <3> QED
      BY <3>2, <3>3 DEF LengthsInv
  <2>4. ap' = ListAt(1) /\ fetched' = OwnBefore(1)
    BY <1>1, <2>1, ListFirst
  <2>5. ap' = ListAt(1)' /\ fetched' = OwnBefore(1)'
    BY <2>1, <2>4, SameCall
  <2>6. (ap = ListAt(conversion) /\ fetched = OwnBefore(conversion))'
    BY <2>1, <2>5 DEF ListAt, OwnBefore
  <2> QED
    BY <2>2, <2>3, <2>6 DEF VaInv
<1>4. CASE Va!Finished
  <2>1. /\ UNCHANGED <<format, taken, cap, ap, conversion, used, written, fetched, full>>
        /\ pass = "writes" /\ conversion > Len(format) /\ pass' = "done" /\ result' = used
    BY <1>4 DEF Va!Finished
  <2>2. VaTypes'
    BY <1>1, <2>1 DEF VaTypes
  <2>3. Va!Fits' = Va!Fits
    BY <2>1, SameCall
  <2>4. LengthsInv'
    BY <1>1, <2>1, <2>3 DEF LengthsInv, Va!SmallerOf
  <2>5. PICK k : k = conversion
    OBVIOUS
  <2>6. ap' = ListAt(k)' /\ fetched' = OwnBefore(k)'
    BY <2>1, <2>5, SameCall DEF VaInv
  <2>7. (ap = ListAt(conversion) /\ fetched = OwnBefore(conversion))'
    BY <2>1, <2>5, <2>6 DEF ListAt, OwnBefore
  <2> QED
    BY <2>2, <2>4, <2>7 DEF VaInv
<1>5. CASE UNCHANGED vaVars
  <2>1. UNCHANGED <<format, taken, pass, cap, ap, conversion, used, written, fetched, full, result>>
    BY <1>5 DEF vaVars
  <2>2. VaTypes'
    BY <1>1, <2>1 DEF VaTypes
  <2>3. Va!Fits' = Va!Fits
    BY <2>1, SameCall
  <2>4. LengthsInv'
    BY <1>1, <2>1, <2>3 DEF LengthsInv, Va!SmallerOf
  <2>5. PICK k : k = conversion
    OBVIOUS
  <2>6. ap' = ListAt(k)' /\ fetched' = OwnBefore(k)'
    BY <2>1, <2>5, SameCall DEF VaInv
  <2>7. (ap = ListAt(conversion) /\ fetched = OwnBefore(conversion))'
    BY <2>1, <2>5, <2>6 DEF ListAt, OwnBefore
  <2> QED
    BY <2>2, <2>4, <2>7 DEF VaInv
<1> QED
  BY <1>2, <1>3, <1>4, <1>5 DEF Va!Next

(* So every place gets its own argument, and the caller its length.        *)
LEMMA VaSound == VaInv => FetchesOwn
<1> SUFFICES ASSUME VaInv PROVE FetchesOwn
  OBVIOUS
<1>1. VaTypes /\ LengthsInv
  BY DEF VaInv
<1>2. MaxFormat \in Nat
  BY ServicesAssumption DEF ServicesAssumption, Va!VarargsAssumption
<1>3. written = IF cap = 0 THEN 0 ELSE IF used < cap - 1 THEN used ELSE cap - 1
  BY <1>1 DEF LengthsInv, Va!SmallerOf
<1>4. Va!TypeOK
  BY <1>1, <1>2, <1>3 DEF VaTypes, Va!TypeOK, Va!NoBuffer
<1>5. pass = "done" => cap # 0
  BY <1>1 DEF VaTypes
<1>6. Va!FetchesOwn
  BY <1>1, <1>5 DEF VaInv, LengthsInv, OwnBefore, Va!FetchesOwn
<1> QED
  BY <1>4, <1>6 DEF FetchesOwn

-----------------------------------------------------------------------------
(* All of them at once.                                                    *)
ServicesInv ==
    ZInv /\ PosixInv /\ NetInv /\ CrashInv /\ FileInv /\ AssetInv /\ GlInv /\ JavaInv /\ VaInv

(* They begin so, whichever is in focus.                                   *)
LEMMA ServicesBegin == MCInit => ServicesInv
<1> SUFFICES ASSUME MCInit PROVE ServicesInv
  OBVIOUS
<1>1. /\ Z!Init /\ System!Init /\ Net!Init /\ Crash!Init
      /\ File!Init /\ Asset!Init /\ Gl!Init /\ Java!Init /\ Va!Init
  BY DEF MCInit
<1> QED
  BY <1>1, ServicesAssumption, ZBegins, PosixBegins, NetBegins, CrashBegins,
     FileBegins, AssetBegins, GlBegins, JavaBegins, VaBegins DEF ServicesInv, ServicesAssumption

(* A step is one component's, and leaves the others alone.                 *)
LEMMA ServicesKeep == ServicesInv /\ [MCNext]_<<focus, dataVars, callVars>> => ServicesInv'
<1> SUFFICES ASSUME ServicesInv, MCNext \/ UNCHANGED <<focus, dataVars, callVars>> PROVE ServicesInv'
  OBVIOUS
<1>1. /\ Z!Next \/ UNCHANGED zVars
      /\ Va!Next \/ UNCHANGED vaVars
      /\ Asset!Next \/ UNCHANGED assetVars
      /\ System!ClockNext \/ UNCHANGED clockVars
      /\ System!DateNext \/ UNCHANGED dateVars
      /\ System!TextNext \/ UNCHANGED textVars
  BY DEF MCNext, Computes, Others, dataVars, posixVars
<1>2. /\ File!FdNext \/ UNCHANGED fdVars
      /\ File!DirNext \/ UNCHANGED dirVars
      /\ File!StreamNext \/ UNCHANGED streamVars
      /\ Net!Next \/ UNCHANGED sockVars
  BY DEF MCNext, Computes, Others, callVars, fileVars
<1>3. /\ Gl!GeometryNext \/ Gl!TextureNext \/ UNCHANGED drawVars
      /\ Gl!ShaderNext \/ UNCHANGED shaderVars
      /\ Java!Next \/ UNCHANGED javaVars
      /\ Crash!Next \/ UNCHANGED crashVars
  BY DEF MCNext, Computes, Others, callVars, glVars
<1> USE ServicesAssumption DEF ServicesAssumption
<1>4. ZInv' /\ AssetInv' /\ PosixInv' /\ VaInv'
  BY <1>1, ZKeeps, AssetKeeps, PosixKeeps, VaKeeps DEF ServicesInv
<1>5. FileInv' /\ NetInv'
  BY <1>2, FileKeeps, NetKeeps DEF ServicesInv
<1>6. GlInv' /\ JavaInv' /\ CrashInv'
  BY <1>3, GlKeeps, JavaKeeps, CrashKeeps DEF ServicesInv
<1> QED
  BY <1>4, <1>5, <1>6 DEF ServicesInv

(* Whatever the guest asks for, every component stays as it has to be.     *)
THEOREM ServicesInvariance == MCSpec => []ServicesInv
BY ServicesBegin, ServicesKeep, PTL DEF MCSpec

(* Zlib, alone and among the services, for every number of streams and of  *)
(* the host's: each stream of the guest has one of the host's to itself,   *)
(* never one that was freed, and zlib is given the bytes and the room the  *)
(* program set, unless the stream began anew after it had set them.        *)
THEOREM StreamsWorkAlone ==
  /\ Z!Spec => []StreamsSound
  /\ MCSpec => []StreamsSound
<1>1. ZInv => StreamsSound
  BY ServicesAssumption, ZSound DEF ServicesAssumption
<1>2. Z!Init => ZInv
  BY ServicesAssumption, ZBegins DEF ServicesAssumption
<1>3. ZInv /\ [Z!Next]_(Z!vars) => ZInv'
  BY ServicesAssumption, ZKeeps DEF ServicesAssumption, Z!vars, zVars
<1>4. Z!Spec => []StreamsSound
  BY <1>1, <1>2, <1>3, PTL DEF Z!Spec
<1>5. MCSpec => []StreamsSound
  BY <1>1, ServicesInvariance, PTL DEF ServicesInv
<1> QED
  BY <1>4, <1>5

(* Posix, for every number of threads and every text: from one stopwatch   *)
(* to another the time measured is the time that passed, a date a thread   *)
(* holds still answers its last question whatever other threads ask, and a *)
(* text comes out whole however it was cut into pieces.                    *)
THEOREM ClocksDatesAndTextsHold ==
  /\ System!Spec => []SystemSound
  /\ MCSpec => []SystemSound
<1>1. PosixInv => SystemSound
  BY ServicesAssumption, PosixSound DEF ServicesAssumption
<1>2. System!Init => PosixInv
  BY ServicesAssumption, PosixBegins DEF ServicesAssumption
<1>3. PosixInv /\ [System!Next]_(System!vars) => PosixInv'
  <2> SUFFICES ASSUME PosixInv, System!Next \/ UNCHANGED System!vars PROVE PosixInv'
    OBVIOUS
  <2>1. /\ System!ClockNext \/ UNCHANGED clockVars
        /\ System!DateNext \/ UNCHANGED dateVars
        /\ System!TextNext \/ UNCHANGED textVars
    BY DEF System!Next, System!vars, System!clockVars, System!dateVars, System!textVars,
           clockVars, dateVars, textVars
  <2> QED
    BY <2>1, ServicesAssumption, PosixKeeps DEF ServicesAssumption
<1>4. System!Spec => []SystemSound
  BY <1>1, <1>2, <1>3, PTL DEF System!Spec
<1>5. MCSpec => []SystemSound
  BY <1>1, ServicesInvariance, PTL DEF ServicesInv
<1> QED
  BY <1>4, <1>5

(* Sockets, for every number of transfers: an address is only left for the *)
(* next when its connection has failed, however the peer's answers, the    *)
(* guest's polls and the translated flags and errors fall.                 *)
THEOREM OnlyFailedAreLeft ==
  /\ Net!Spec => []LeavesOnlyFailed
  /\ MCSpec => []LeavesOnlyFailed
<1>1. NetInv /\ [Net!Next]_(Net!vars) => NetInv'
  BY NetKeeps DEF Net!vars, sockVars
<1>2. Net!Spec => []LeavesOnlyFailed
  BY <1>1, NetBegins, NetSound, PTL DEF Net!Spec
<1>3. MCSpec => []LeavesOnlyFailed
  BY ServicesInvariance, NetSound, PTL DEF ServicesInv
<1> QED
  BY <1>2, <1>3

(* CrashReports, for every memory, symbol table and frame chain: a report  *)
(* reads only what is there until it peeks, however the chain of frames    *)
(* runs, and names the function the address is in, if it is in one.        *)
THEOREM ReportsTouchNoFault ==
  /\ Crash!Spec => []ReportsSafely
  /\ MCSpec => []ReportsSafely
<1>1. CrashInv => ReportsSafely
  BY ServicesAssumption, CrashSound DEF ServicesAssumption
<1>2. Crash!Init => CrashInv
  BY ServicesAssumption, CrashBegins DEF ServicesAssumption
<1>3. CrashInv /\ [Crash!Next]_(Crash!vars) => CrashInv'
  BY ServicesAssumption, CrashKeeps DEF ServicesAssumption, Crash!vars, crashVars
<1>4. Crash!Spec => []ReportsSafely
  BY <1>1, <1>2, <1>3, PTL DEF Crash!Spec
<1>5. MCSpec => []ReportsSafely
  BY <1>1, ServicesInvariance, PTL DEF ServicesInv
<1> QED
  BY <1>4, <1>5

(* The files alone keep their part of it.                                  *)
LEMMA FileInvariance == File!Spec => []FileInv
<1>1. File!Init => FileInv
  BY ServicesAssumption, FileBegins DEF ServicesAssumption
<1>2. FileInv /\ [File!Next]_(File!vars) => FileInv'
  <2> SUFFICES ASSUME FileInv, File!Next \/ UNCHANGED File!vars PROVE FileInv'
    OBVIOUS
  <2>1. /\ File!FdNext \/ UNCHANGED fdVars
        /\ File!DirNext \/ UNCHANGED dirVars
        /\ File!StreamNext \/ UNCHANGED streamVars
    BY DEF File!Next, File!vars, File!fdVars, File!dirVars, File!streamVars,
           fdVars, dirVars, streamVars
  <2> QED
    BY <2>1, ServicesAssumption, FileKeeps DEF ServicesAssumption
<1> QED
  BY <1>1, <1>2, PTL DEF File!Spec

(* And the assets.                                                         *)
LEMMA AssetInvariance == Asset!Spec => []AssetInv
<1>1. Asset!Init => AssetInv
  BY ServicesAssumption, AssetBegins DEF ServicesAssumption
<1>2. AssetInv /\ [Asset!Next]_(Asset!vars) => AssetInv'
  BY ServicesAssumption, AssetKeeps DEF ServicesAssumption, Asset!vars, assetVars
<1> QED
  BY <1>1, <1>2, PTL DEF Asset!Spec

(* Files and Assets, for every size of file, directory and path: a mapping *)
(* that no other thread disturbed holds the file's bytes, a directory      *)
(* tells each entry once, in order, a name told of one asset directory     *)
(* stands while others are asked, and an asset is found by its name with   *)
(* the root's before it or slashes, and by none besides.                   *)
THEOREM FilesHold ==
  /\ File!Spec /\ Asset!Spec => []FilesSound
  /\ MCSpec => []FilesSound
<1>1. FileInv /\ AssetInv => FilesSound
  BY ServicesAssumption, FileSound, AssetSound DEF ServicesAssumption, FilesSound
<1>2. File!Spec /\ Asset!Spec => []FilesSound
  BY <1>1, FileInvariance, AssetInvariance, PTL
<1>3. MCSpec => []FilesSound
  BY <1>1, ServicesInvariance, PTL DEF ServicesInv
<1> QED
  BY <1>2, <1>3

(* GlShim, for every set of attributes and textures: no draw reads an      *)
(* address that is none, and, through every census and every error said,   *)
(* the driver's attributes and binding are what the guest set.             *)
THEOREM DriverKeepsGuestState ==
  /\ Gl!Spec => []DrawsAsSet
  /\ MCSpec => []DrawsAsSet
<1>1. Gl!Init => GlInv
  BY ServicesAssumption, GlBegins DEF ServicesAssumption
<1>2. GlInv /\ [Gl!Next]_(Gl!vars) => GlInv'
  <2> SUFFICES ASSUME GlInv, Gl!Next \/ UNCHANGED Gl!vars PROVE GlInv'
    OBVIOUS
  <2>1. /\ Gl!GeometryNext \/ Gl!TextureNext \/ UNCHANGED drawVars
        /\ Gl!ShaderNext \/ UNCHANGED shaderVars
    BY DEF Gl!Next, Gl!vars, Gl!glVars, Gl!shaderVars, drawVars, shaderVars
  <2> QED
    BY <2>1, ServicesAssumption, GlKeeps DEF ServicesAssumption
<1>3. Gl!Spec => []DrawsAsSet
  BY <1>1, <1>2, GlSound, PTL DEF Gl!Spec
<1>4. MCSpec => []DrawsAsSet
  BY ServicesInvariance, GlSound, PTL DEF ServicesInv
<1> QED
  BY <1>3, <1>4

(* JniMethods, for every program, set of knobs and number of threads: an   *)
(* id names one method and a method has one id whoever looks it up first,  *)
(* what was answered with nothing is in the report, a value that was       *)
(* stored is the one read back, and a worker thread is reported running    *)
(* just as often as it was asked to.                                       *)
THEOREM MethodsAnswerSoundly ==
  /\ Java!Spec => []MethodsSound
  /\ MCSpec => []MethodsSound
<1>1. Java!Init => JavaInv
  BY ServicesAssumption, JavaBegins DEF ServicesAssumption
<1>2. JavaInv /\ [Java!Next]_(Java!vars) => JavaInv'
  BY ServicesAssumption, JavaKeeps DEF ServicesAssumption, Java!vars, javaVars
<1>3. Java!Spec => []MethodsSound
  BY <1>1, <1>2, JavaSound, PTL DEF Java!Spec
<1>4. MCSpec => []MethodsSound
  BY ServicesInvariance, JavaSound, PTL DEF ServicesInv
<1> QED
  BY <1>3, <1>4

(* Varargs, for every number of registers, every format and every room:    *)
(* each conversion takes the argument that was passed for it, however the  *)
(* kinds are mixed, wherever each ran out of registers and in both passes, *)
(* and the buffer has as much of the text as fits.                         *)
THEOREM ArgumentsAreTheirOwn ==
  /\ Va!Spec => []FetchesOwn
  /\ MCSpec => []FetchesOwn
<1>1. VaInv /\ [Va!Next]_(Va!vars) => VaInv'
  BY VaKeeps DEF Va!vars, vaVars
<1>2. Va!Spec => []FetchesOwn
  BY <1>1, VaBegins, VaSound, PTL DEF Va!Spec
<1>3. MCSpec => []FetchesOwn
  BY ServicesInvariance, VaSound, PTL DEF ServicesInv
<1> QED
  BY <1>2, <1>3
=============================================================================
