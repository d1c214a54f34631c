----------------------------- MODULE JniHandles -----------------------------
(***************************************************************************)
(* The handles of the JNI environment: blocks of an arena that wraps and   *)
(* that nothing frees.  A block holds a text and, behind it, the elements  *)
(* of an array of objects; a handle nobody could answer for is a cleared   *)
(* block.  Taking a block is one step, under the arena's lock; filling it  *)
(* is another, outside it.                                                 *)
(*                                                                         *)
(* A call into the environment that makes handles is a list of blocks to   *)
(* take and what to fill them with, worked off in order.                   *)
(***************************************************************************)
EXTENDS Naturals, Sequences, SequencesExt

CONSTANTS Users,          \* threads of the guest
          Blocks,         \* kArenaSize / kBlock
          Texts,          \* what the guest or the tables put in a string
          Numerals,       \* those CallbackIdOf takes for an id
          MaxAllocs,      \* bound: blocks taken in a run
          MaxHeld         \* bound: handles a thread holds at once

HandlesAssumption ==
    /\ Blocks \in Nat \ {0} /\ MaxAllocs \in Nat /\ MaxHeld \in Nat \ {0}
    /\ Numerals \subseteq Texts /\ "" \notin Texts

VARIABLES g_arena_used,   \* blocks in use since the last wrap
          block,          \* what each block holds
          todo,           \* per thread, what its call has yet to fill in
          made,           \* per thread, the handles its call has made
          filling,        \* per thread, whether the last of them is unfilled
          held,           \* per thread, the handles the guest holds
          allocs,         \* blocks taken so far
          overrun         \* ghost: something wrote to a block given out again

vars == <<g_arena_used, block, todo, made, filling, held, allocs, overrun>>

Handles == 1 .. Blocks
Blank   == [text |-> "", array |-> FALSE, items |-> <<>>]

(* A handle as the guest knows it: which block, taken when, to be read as  *)
(* which text or as an array of which handles.                             *)
Known(h, n, text, elements) ==
    [handle |-> h, born |-> n, means |-> text, elements |-> elements]

(* The arena's promise: a block is not given out again until every other   *)
(* one has been.                                                           *)
Recent(k) == allocs - k.born < Blocks

(* What is to be done with a block: a text put in, or another handle's     *)
(* copied, an array made of the handles before it, or nothing.            *)
Text(s) == [fill |-> "text", text |-> s, of |-> <<>>]
Copy(k) == [fill |-> "copy", text |-> "", of |-> <<k>>]
Array   == [fill |-> "array", text |-> "", of |-> <<>>]
Cleared == [fill |-> "none", text |-> "", of |-> <<>>]

Init ==
    /\ g_arena_used = 0 /\ allocs = 0 /\ overrun = FALSE
    /\ block = [h \in Handles |-> Blank]
    /\ todo = [t \in Users |-> <<>>] /\ made = [t \in Users |-> <<>>]
    /\ filling = [t \in Users |-> FALSE]
    /\ held = [t \in Users |-> <<>>]

-----------------------------------------------------------------------------
(* Allocate.                                                               *)
\* Wraps while the last block still fits.
Wrapped_Early == IF g_arena_used + 1 >= Blocks THEN 0 ELSE g_arena_used

Wrapped == IF g_arena_used + 1 > Blocks THEN 0 ELSE g_arena_used

Allocate(t) ==
    /\ todo[t] # <<>> /\ ~filling[t] /\ allocs < MaxAllocs
    /\ g_arena_used' = Wrapped + 1
    /\ block' = [block EXCEPT ![Wrapped + 1] = Blank]
    /\ allocs' = allocs + 1
    /\ made' = [made EXCEPT ![t] = Append(@, Known(Wrapped + 1, allocs + 1, "", <<>>))]
    /\ IF Head(todo[t]) = Cleared
       THEN todo' = [todo EXCEPT ![t] = Tail(@)] /\ UNCHANGED filling
       ELSE filling' = [filling EXCEPT ![t] = TRUE] /\ UNCHANGED todo
    /\ UNCHANGED <<held, overrun>>

(* The rest of AllocateText, of AllocateObjectArray and of GetStringChars, *)
(* none of which holds the lock.  A copy of a handle that is still recent  *)
(* should mean what the handle does; of any other, what it happens to say. *)
Fill(t) ==
    LET p    == Last(made[t])
        job  == Head(todo[t])
        rest == Front(made[t])
        copied == block[job.of[1].handle].text
    IN
    /\ filling[t]
    /\ CASE job.fill = "text" ->
              /\ block' = [block EXCEPT ![p.handle].text = job.text]
              /\ made' = [made EXCEPT ![t] = Append(rest, [p EXCEPT !.means = job.text])]
         [] job.fill = "copy" ->
              /\ block' = [block EXCEPT ![p.handle].text = copied]
              /\ made' = [made EXCEPT ![t] = Append(rest, [p EXCEPT !.means =
                             IF Recent(job.of[1]) THEN job.of[1].means ELSE copied])]
         [] job.fill = "array" ->
              /\ block' = [block EXCEPT ![p.handle] =
                             [@ EXCEPT !.array = TRUE,
                                       !.items = [i \in DOMAIN rest |-> rest[i].handle]]]
              /\ made' = [made EXCEPT ![t] = Append(rest, [p EXCEPT !.elements = rest])]
    /\ overrun' = (overrun \/ ~Recent(p))
    /\ todo' = [todo EXCEPT ![t] = Tail(@)]
    /\ filling' = [filling EXCEPT ![t] = FALSE]
    /\ UNCHANGED <<g_arena_used, held, allocs>>

(* The call comes back, or calls the guest: with the array of a delivered  *)
(* callback, else with the handle made last.  The guest forgets its        *)
(* longest-held handle when it holds too many.                             *)
Answer(t) ==
    IF \E k \in Range(made[t]) : k.elements # <<>>
    THEN CHOOSE k \in Range(made[t]) : k.elements # <<>>
    ELSE Last(made[t])

Return(t) ==
    /\ todo[t] = <<>> /\ made[t] # <<>>
    /\ held' = [held EXCEPT ![t] =
                  LET s == Append(@, Answer(t))
                  IN  IF Len(s) > MaxHeld THEN Tail(s) ELSE s]
    /\ made' = [made EXCEPT ![t] = <<>>]
    /\ UNCHANGED <<g_arena_used, block, todo, filling, allocs, overrun>>

-----------------------------------------------------------------------------
(* What the guest calls.                                                   *)
Begin(t, jobs) ==
    /\ todo[t] = <<>> /\ made[t] = <<>>
    /\ todo' = [todo EXCEPT ![t] = jobs]
    /\ UNCHANGED <<g_arena_used, block, made, filling, held, allocs, overrun>>

(* NewStringUTF, and a method the tables answer with a text.               *)
NewStringUTF(t, s) == Begin(t, <<Text(s)>>)

(* NewByteArray, and every slot and method nobody can answer for.          *)
Unanswered(t) == Begin(t, <<Cleared>>)

(* NewObjectV of a callback's wrapper: a block is taken before the id is   *)
(* found among the arguments, and another one for its text.                *)
NewObject(t, id) == Begin(t, <<Cleared, Text(id)>>)

(* toString, getBytes, getComponentId, and GetStringChars, whose widening  *)
(* of the text is not told apart.                                          *)
CopyOf(t, k) == k.elements = <<>> /\ Begin(t, <<Copy(k)>>)

(* CallbackIdOf *)
CallbackIdOf(k) == block[k.handle].text

(* requestSafetyNetAttestation: for an object whose text is an id, the     *)
(* guest's callback is called, with an array of the result and an empty    *)
(* error, and a class.                                                     *)
DeliverNimbleCallback(result) == <<Text(result), Text(""), Array, Cleared>>

Attestation(t, k, result) ==
    /\ k.elements = <<>> /\ CallbackIdOf(k) \in Numerals
    /\ Begin(t, DeliverNimbleCallback(result))

(* SetByteArrayRegion of a whole array that nothing was put in before.     *)
SetByteArrayRegion(t, i, s) ==
    LET k == held[t][i] IN
    /\ todo[t] = <<>> /\ made[t] = <<>>
    /\ k.means = "" /\ k.elements = <<>>
    /\ block' = [block EXCEPT ![k.handle].text = s]
    /\ held' = [held EXCEPT ![t][i].means = s]
    /\ overrun' = (overrun \/ ~Recent(k))
    /\ UNCHANGED <<g_arena_used, todo, made, filling, allocs>>

GuestCalls(t) ==
    \/ \E s \in Texts : NewStringUTF(t, s)
    \/ \E s \in Numerals : NewObject(t, s)
    \/ Unanswered(t)
    \/ \E k \in Range(held[t]) : CopyOf(t, k)
    \/ \E k \in Range(held[t]), s \in Texts \ Numerals : Attestation(t, k, s)
    \/ \E i \in DOMAIN held[t], s \in Texts : SetByteArrayRegion(t, i, s)

Next == \E t \in Users :
    \/ Allocate(t) \/ Fill(t) \/ Return(t) \/ GuestCalls(t)

Spec == Init /\ [][Next]_vars

-----------------------------------------------------------------------------
TypeOK ==
    /\ g_arena_used \in 0 .. Blocks /\ allocs \in 0 .. MaxAllocs /\ overrun \in BOOLEAN
    /\ \A h \in Handles :
          /\ block[h].text \in Texts \cup {""} /\ block[h].array \in BOOLEAN
          /\ Range(block[h].items) \subseteq Handles
    /\ filling \in [Users -> BOOLEAN]
    /\ \A t \in Users :
          /\ Len(held[t]) <= MaxHeld /\ Len(todo[t]) <= 4 /\ Len(made[t]) <= 4
          /\ filling[t] => todo[t] # <<>> /\ made[t] # <<>>

(* What the guest sees when it reads a handle is what it was given it for. *)
ReadsAs(k) ==
    /\ block[k.handle].text = k.means
    /\ block[k.handle].array <=> k.elements # <<>>
    /\ block[k.handle].items = [i \in DOMAIN k.elements |-> k.elements[i].handle]

(* A handle, and an element of an array, reads as what it was made for     *)
(* until the arena has gone round, whatever other threads made meanwhile;  *)
(* so an attestation is answered to the callback that asked for it.  A     *)
(* write through a handle the arena has gone round past is the exception:  *)
(* it lands in somebody else's block.                                      *)
HandlesReadAsMeant ==
    ~overrun =>
      \A t \in Users : \A k \in Range(held[t]) :
         Recent(k) => /\ ReadsAs(k)
                      /\ \A e \in Range(k.elements) : Recent(e) => ReadsAs(e)
=============================================================================
