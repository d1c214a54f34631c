------------------------------- MODULE Census -------------------------------
(***************************************************************************)
(* The tally of guest functions (arc_census_note, arc_census_report): an   *)
(* open-addressed table keyed by function, a key of 0 meaning free, that   *)
(* every report empties and that is emptied when the marker function first *)
(* runs.  One thread notes; what a report prints is left out.              *)
(***************************************************************************)
EXTENDS Naturals, FiniteSetsExt

CONSTANTS Functions,   \* packed values of the guest functions that run
          Slots,       \* ARC_CENSUS_SLOTS
          Hash,        \* the slot a function's probe starts at
          Marker,      \* ARC_FN_CENSUS_FROM, or 0
          MaxCalls     \* bound: calls noted between two reports

Ids == 0 .. Slots - 1

CensusAssumption ==
    /\ Slots \in Nat \ {0} /\ MaxCalls \in Nat
    /\ Functions \subseteq Nat \ {0}
    /\ Hash \in [Functions -> Ids]

VARIABLES table,      \* g_census_key, g_census_hits, g_census_lost
          started,    \* the marker has run
          pending,    \* ... and has not been reported yet
          spinning,   \* a probe that goes round for ever
          calls       \* ghost: calls noted since the table was emptied

vars == <<table, started, pending, spinning, calls>>

Empty == [key |-> [i \in Ids |-> 0], hits |-> [i \in Ids |-> 0], lost |-> 0]

TypeOK ==
    /\ table \in [key : [Ids -> Functions \cup {0}],
                  hits : [Ids -> 0 .. MaxCalls], lost : 0 .. MaxCalls]
    /\ \A i \in Ids : table.key[i] = 0 <=> table.hits[i] = 0
    /\ {started, pending, spinning} \subseteq BOOLEAN /\ (pending => started)
    /\ calls \in 0 .. MaxCalls

Init ==
    /\ table = Empty
    /\ started = FALSE /\ pending = FALSE /\ spinning = FALSE
    /\ calls = 0

(* The n-th slot a probe looks at.  It stops at the function's own key, at *)
(* a free slot if that is the first or the one after it is taken, and      *)
(* gives up at a free slot followed by another free one.                   *)
Slot(f, n)       == (Hash[f] + n) % Slots
Free(t, f, n)    == t.key[Slot(f, n)] = 0
GivesUp(t, f, n) == n > 0 /\ Free(t, f, n) /\ Free(t, f, n + 1)

Stops(t, f)      == {n \in Ids : t.key[Slot(f, n)] \in {f, 0}}

\* Learns a function without its first hit.
Counted_KeyOnly(t, f) ==
    LET n == Min(Stops(t, f))
        i == Slot(f, n)
    IN  IF GivesUp(t, f, n) THEN [t EXCEPT !.lost = @ + 1]
        ELSE IF t.key[i] = f THEN [t EXCEPT !.hits[i] = @ + 1]
        ELSE [t EXCEPT !.key[i] = f]

Counted(t, f) ==
    LET n == Min(Stops(t, f))
        i == Slot(f, n)
    IN  IF GivesUp(t, f, n)
        THEN [t EXCEPT !.lost = @ + 1]
        ELSE [t EXCEPT !.key[i] = f, !.hits[i] = @ + 1]

(* arc_census_note.  With every slot taken by another function none of the *)
(* three ways out of the loop is ever taken.                               *)
Note(f) ==
    LET starts == Marker = f /\ ~started
        base   == IF starts THEN Empty ELSE table
    IN  /\ calls < MaxCalls
        /\ started' = (started \/ starts)
        /\ pending' = (pending \/ starts)
        /\ IF Stops(base, f) = {}
           THEN spinning' = TRUE /\ UNCHANGED <<table, calls>>
           ELSE /\ table' = Counted(base, f)
                /\ calls' = IF starts THEN 1 ELSE calls + 1
                /\ UNCHANGED spinning

(* arc_census_report; arc_census_clear.                                    *)
Report ==
    /\ table' = Empty /\ calls' = 0
    /\ pending' = FALSE
    /\ UNCHANGED <<started, spinning>>

Next == ~spinning /\ (Report \/ \E f \in Functions : Note(f))

Spec == Init /\ [][Next]_vars

-----------------------------------------------------------------------------
HitsBelow[n \in 0 .. Slots] ==
    IF n = 0 THEN 0 ELSE HitsBelow[n - 1] + table.hits[n - 1]

(* Every call is in the report: as a hit of some function or as lost.      *)
EveryCallCounted == table.lost + HitsBelow[Slots] = calls

(* A function has one line in the report and not its calls split over two. *)
OneSlotEach ==
    \A i, j \in Ids : i # j /\ table.key[i] = table.key[j] => table.key[i] = 0

(* ... and stopping means not learning, not never returning to the guest.  *)
NoteReturns == ~spinning
=============================================================================
