---------------------------- MODULE Preferences ----------------------------
(***************************************************************************)
(* The preference store behind the JNI environment: a map read from a file *)
(* on first use and written back whole when the title synchronizes.  The   *)
(* store's lock covers one call; the file is cut to nothing and written    *)
(* line by line under it, and the process may end at any point.  Lines are *)
(* written in the map's order, one for a key, so the file is a map too.    *)
(***************************************************************************)
EXTENDS Naturals, Sequences, Functions

CONSTANTS Callers,        \* threads of the title
          KeyOrder,       \* the keys a title uses, in the map's order
          Spaced,         \* those with a space in them
          Values,         \* what it stores; strings
          MaxCalls,       \* bound: stores and synchronizations
          MaxCrashes      \* bound: times the process ends

Keys == Range(KeyOrder)

PreferencesAssumption ==
    /\ Spaced \subseteq Keys /\ MaxCalls \in Nat /\ MaxCrashes \in Nat
    /\ IsInjective(KeyOrder) /\ "none" \notin Keys
    /\ {"nothing", "damaged", "unsaid"} \cap Values = {}

Nothing == "nothing"      \* no value, no default either
Damaged == "damaged"      \* not the value that was stored
Stored  == Values \cup {Damaged}

VARIABLES g_prefs,        \* the map
          g_prefs_loaded,
          file,           \* prefs.txt: of each key with a line, its value
          saving,         \* the keys SavePrefs has yet to write
          locked,         \* whether a save holds g_prefs_lock
          found,          \* per caller, the key whose value it holds by pointer
          stale,          \* per caller, whether the value was assigned since
          answer,         \* ghost: the last answer, next to what was due
          due,            \* ghost: what the title should read
          kept,           \* ghost: what it should read after a restart
          calls, crashes

vars == <<g_prefs, g_prefs_loaded, file, saving, locked, found, stale, answer,
          due, kept, calls, crashes>>

None  == "none"
Empty  == [k \in Keys |-> Nothing]
Unsaid == "unsaid"        \* the ghosts promise nothing of this key
NoLines == [k \in {} |-> Nothing]
Present == {k \in Keys : g_prefs[k] # Nothing}
Before(k, l) == \E i, j \in DOMAIN KeyOrder : i < j /\ KeyOrder[i] = k /\ KeyOrder[j] = l

Init ==
    /\ g_prefs = Empty /\ g_prefs_loaded = FALSE /\ file = NoLines
    /\ saving = {} /\ locked = FALSE
    /\ found = [t \in Callers |-> None] /\ stale = [t \in Callers |-> FALSE]
    /\ answer = <<Nothing, Nothing>> /\ due = Empty /\ kept = Empty
    /\ calls = 0 /\ crashes = 0

-----------------------------------------------------------------------------
(* LoadPrefs: reading stops at a key with a space in it, whose second word *)
(* is no length.                                                           *)
Readable == {k \in DOMAIN file : \A s \in Spaced \cap DOMAIN file : Before(k, s)}
FromFile == [k \in Keys |-> IF k \in Readable THEN file[k] ELSE g_prefs[k]]

LoadPrefs == IF g_prefs_loaded THEN g_prefs ELSE FromFile

(* SetPreference.  A caller that holds the value by pointer has it changed *)
(* under its hands.                                                        *)
\* Forgets to load first.
SetPreference_Unloaded(t, k, v) ==
    /\ ~locked /\ found[t] = None /\ calls < MaxCalls
    /\ g_prefs' = [g_prefs EXCEPT ![k] = v]
    /\ due' = [due EXCEPT ![k] = v]
    /\ stale' = [u \in Callers |-> stale[u] \/ found[u] = k]
    /\ calls' = calls + 1
    /\ UNCHANGED <<g_prefs_loaded, file, saving, locked, found, answer, kept, crashes>>

SetPreference(t, k, v) ==
    /\ ~locked /\ found[t] = None /\ calls < MaxCalls
    /\ g_prefs' = [LoadPrefs EXCEPT ![k] = v] /\ g_prefs_loaded' = TRUE
    /\ due' = [due EXCEPT ![k] = v]
    /\ stale' = [u \in Callers |-> stale[u] \/ found[u] = k]
    /\ calls' = calls + 1
    /\ UNCHANGED <<file, saving, locked, found, answer, kept, crashes>>

(* StoredPreference: the answer is a pointer into the map, read after the  *)
(* lock is given up (PreferenceValue's caller copies it into a handle).    *)
Find(t, k) ==
    /\ ~locked /\ found[t] = None
    /\ g_prefs' = LoadPrefs /\ g_prefs_loaded' = TRUE
    /\ IF LoadPrefs[k] = Nothing
       THEN answer' = <<Nothing, due[k]>> /\ UNCHANGED <<found, stale>>
       ELSE /\ found' = [found EXCEPT ![t] = k]
            /\ stale' = [stale EXCEPT ![t] = FALSE]
            /\ UNCHANGED answer
    /\ UNCHANGED <<file, saving, locked, due, kept, calls, crashes>>

Use(t) ==
    /\ found[t] # None
    /\ \E v \in IF stale[t] THEN Stored ELSE {g_prefs[found[t]]} :
          answer' = <<v, IF stale[t] THEN Unsaid ELSE due[found[t]]>>
    /\ found' = [found EXCEPT ![t] = None]
    /\ UNCHANGED <<g_prefs, g_prefs_loaded, file, saving, locked, stale, due, kept,
                   calls, crashes>>

(* SyncPreferences and SavePrefs: a store nobody asked for is not written; *)
(* any other is, over a file cut to nothing, a line at a time.             *)
SyncPreferences(t) ==
    /\ ~locked /\ found[t] = None /\ calls < MaxCalls
    /\ calls' = calls + 1
    /\ g_prefs_loaded
    /\ locked' = TRUE /\ saving' = Present /\ file' = NoLines
    /\ kept' = [k \in Keys |-> Unsaid]
    /\ UNCHANGED <<g_prefs, g_prefs_loaded, found, stale, answer, due, crashes>>

Turn(k) == k \in saving /\ \A l \in saving : ~Before(l, k)
Line(k, v) == file' = [l \in DOMAIN file \cup {k} |-> IF l = k THEN v ELSE file[l]]

SaveLine ==
    /\ locked
    /\ \E k \in saving : Turn(k) /\ Line(k, g_prefs[k]) /\ saving' = saving \ {k}
    /\ UNCHANGED <<g_prefs, g_prefs_loaded, locked, found, stale, answer, due, kept,
                   calls, crashes>>

(* What was saved is due after a restart, except what lies behind a key    *)
(* that cannot be read back.                                               *)
Survives(k) == \A s \in Spaced \cap Present : Before(k, s)

Saved ==
    /\ locked /\ saving = {}
    /\ locked' = FALSE
    /\ kept' = [k \in Keys |-> IF Survives(k) THEN due[k] ELSE Unsaid]
    /\ UNCHANGED <<g_prefs, g_prefs_loaded, file, saving, found, stale, answer, due,
                   calls, crashes>>

(* The process ends, perhaps in the middle of a line, and is started again.*)
Crash ==
    /\ crashes < MaxCrashes /\ crashes' = crashes + 1
    /\ g_prefs' = Empty /\ g_prefs_loaded' = FALSE
    /\ \/ UNCHANGED file
       \/ locked /\ \E k \in saving : Turn(k) /\ Line(k, Damaged)
    /\ saving' = {} /\ locked' = FALSE
    /\ found' = [t \in Callers |-> None] /\ stale' = [t \in Callers |-> FALSE]
    /\ due' = kept
    /\ UNCHANGED <<answer, kept, calls>>

Next ==
    \/ \E t \in Callers, k \in Keys :
          \/ \E v \in Values : SetPreference(t, k, v)
          \/ Find(t, k)
    \/ \E t \in Callers : Use(t) \/ SyncPreferences(t)
    \/ SaveLine \/ Saved \/ Crash

Spec == Init /\ [][Next]_vars

-----------------------------------------------------------------------------
TypeOK ==
    /\ g_prefs \in [Keys -> Stored \cup {Nothing}] /\ g_prefs_loaded \in BOOLEAN
    /\ saving \subseteq Keys /\ file \in [DOMAIN file -> Stored] /\ DOMAIN file \subseteq Keys
    /\ locked \in BOOLEAN /\ (~locked => saving = {})
    /\ found \in [Callers -> Keys \cup {None}] /\ stale \in [Callers -> BOOLEAN]
    /\ due \in [Keys -> Values \cup {Nothing, Unsaid}] /\ kept \in [Keys -> Values \cup {Nothing, Unsaid}]
    /\ calls \in 0 .. MaxCalls /\ crashes \in 0 .. MaxCrashes

(* A title reads back what it stored last, and after a restart what it had *)
(* stored when it last synchronized, whichever thread stored it and        *)
(* whichever call came first.  Three things are excepted: a store under    *)
(* way while the answer is still being copied, a save the process did not  *)
(* live to finish, and keys that follow one with a space in it.            *)
ReadsBack == answer[2] \in {Unsaid, answer[1]}
=============================================================================
