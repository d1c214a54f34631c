----------------------------- MODULE JniMethods -----------------------------
(***************************************************************************)
(* The Java side the guest believes it calls: methods looked up by name    *)
(* and called through an id, fields read through another, answered from    *)
(* what the host was told, from what the title wrote down, and from        *)
(* tables; and the report of what was asked and of what nothing answered.  *)
(*                                                                         *)
(* A call comes in one of three forms.  A walk over the arguments takes    *)
(* the fourth register for a va_list, which it is in one of them.  An      *)
(* answer is the name of the place it was taken from, or a stored value.   *)
(***************************************************************************)
EXTENDS Naturals, Sequences, SequencesExt, TLC

CONSTANTS Callers,        \* threads of the guest
          Programs,       \* sets of methods that a title calls, and of keys it uses
          Knobs,          \* sets of variables the environment may hold
          Values,         \* what the title stores
          Polls,          \* ARC_THREAD_POLLS
          MaxCalls        \* bound: calls in a run

None  == "none"
Empty == ""

MethodsAssumption ==
    /\ Polls \in Nat /\ MaxCalls \in Nat /\ Empty \notin Values
    /\ \A p \in Programs : None \notin p.methods

VARIABLES program, env,   \* of this run: the title, and what getenv finds
          g_method_names, g_method_called, g_method_unanswered,
          g_unknown_fields,
          g_prefs, dirs,  \* what was stored, per key, and the directories made
          polls,          \* ThreadComplete's
          call,           \* per thread, its call
          last,           \* per thread, the answer it was given last
          calls,          \* made so far
          ids, asked      \* ghosts: ids handed out per method, fields asked for

vars == <<program, env, g_method_names, g_method_called, g_method_unanswered,
          g_unknown_fields, g_prefs, dirs, polls, call, last, calls, ids, asked>>

fixed   == <<program, env>>
noteVars == <<g_method_called, g_method_unanswered>>
idVars  == <<g_method_names, ids>>
fieldVars == <<g_unknown_fields, asked>>

Forms   == {"va_list", "other"}
Keys    == {"telemetryId", "deviceIdentifier", "androidId", "language", "ServerURL", "other"}

KeyReaders == {"getSharedPreference", "getStringPreference", "getParameter", "getStringValue"}
KeyWriters == {"setValue", "setSharedPreference", "setStringPreference"}
OwnText    == {"getBytes", "toString"}
Makers     == {"newStringUTF"}
LogMethods == {"Log", "writeWithTitle"}
TableTexts == {"getCarrier", "getStatus", "getStringPreference", "getLanguage", "getVersion"}
Numbers    == {"getFreeDiskSpace"}
Flags      == {"isThreadComplete", "mkdir", "hasConnectivity"}
Returns(m) ==
    CASE m \in KeyReaders \cup OwnText \cup Makers \cup TableTexts
               \cup {"getComponentId", "getServerUrlWithKey", "getCurrentSynergyId",
                     "getEADeviceId", "getStorageDir", "getText"} -> "object"
      [] m \in Numbers \cup {"ordinal", "getUptime", "getCount"} -> "number"
      [] m \in Flags \cup {"isFeatureDisabled", "isAnything"} -> "boolean"
      [] m \in KeyWriters \cup LogMethods \cup {"requestSafetyNetAttestation", "track"} -> "void"

Fields == [appPath |-> "s", appVersion |-> "s", locale |-> "s", deviceName |-> "s",
           width |-> "i", density |-> "f", mbExternalStorageUnusable |-> "z"]
Named  == DOMAIN Fields \cup {"unheardOf"}

Idle == [at |-> "idle", method |-> None, form |-> None, args |-> <<>>]

Init ==
    /\ program \in Programs /\ env \in Knobs
    /\ g_method_names = <<>> /\ g_method_called = <<>> /\ g_method_unanswered = <<>>
    /\ g_unknown_fields = <<>> /\ asked = {}
    /\ g_prefs = [k \in Keys |-> None] /\ dirs = {} /\ polls = 0
    /\ call = [t \in Callers |-> Idle]
    /\ last = [t \in Callers |-> [method |-> None, key |-> None, stored |-> None, answer |-> None]]
    /\ calls = 0 /\ ids = {}

-----------------------------------------------------------------------------
(* Looking a method up.  One that ARC_JNI_ABSENT lists has no id.          *)
MethodIsAbsent(m) == "ARC_JNI_ABSENT" \in env /\ m = "getText"

MethodIdFor_Anew(m) == Len(g_method_names) + 1
MethodIdFor(m) ==
    IF m \in Range(g_method_names)
    THEN CHOOSE i \in DOMAIN g_method_names : g_method_names[i] = m
    ELSE Len(g_method_names) + 1

GetMethodID(m) ==
    /\ m \in program.methods /\ ~ MethodIsAbsent(m)
    /\ LET id == MethodIdFor(m)
       IN /\ g_method_names' = IF id \in DOMAIN g_method_names THEN g_method_names
                               ELSE Append(g_method_names, m)
          /\ ids' = ids \cup {[method |-> m, id |-> id]}
    /\ UNCHANGED <<fixed, noteVars, fieldVars, g_prefs, dirs, polls, call, last, calls>>

MethodName(id) == g_method_names[id]

NoteOnce(list, m) == IF m \in Range(list) THEN list ELSE Append(list, m)

(* The arguments that are handles of ours, each of them its text.  Read    *)
(* through what is no va_list, whatever that memory holds: none, here.     *)
OwnedArgs(c)     == IF c.form = "va_list" THEN c.args ELSE <<>>
FirstOwnedArg(c) == IF OwnedArgs(c) = <<>> THEN None ELSE Head(OwnedArgs(c))

-----------------------------------------------------------------------------
(* Where a text comes from.                                                *)
First(places) == LET some == {i \in DOMAIN places : places[i] # None}
                 IN IF some = {} THEN None ELSE places[Min(some)]
Knob(v)       == IF v \in env THEN v ELSE None
Else(a, b)    == IF a # None THEN a ELSE b

LocaleOverride(m) ==
    CASE m = "getLanguage" -> Knob("ARC_LANG") [] m = "locale" -> Knob("ARC_LOCALE")
      [] OTHER -> None

IdentityOverride(m) ==
    CASE m = "getCurrentSynergyId" -> g_prefs["telemetryId"]
      [] m = "getEADeviceId" -> Else(g_prefs["deviceIdentifier"], g_prefs["androidId"])
      [] OTHER -> None

VersionOverride(m)  == IF m \in {"getVersion", "appVersion"} THEN Knob("ARC_APP_VERSION") ELSE None
DirectoryForName(m) == IF m \in {"getStorageDir", "appPath"} THEN Knob("root") ELSE None

TextForMethod(m) ==
    First(<<Knob("ARC_JNI_" \o m), LocaleOverride(m), IdentityOverride(m), VersionOverride(m),
            DirectoryForName(m), IF m \in TableTexts THEN "table" ELSE None>>)

(* What was written down wins over anything set from outside.              *)
PreferenceValue_KnobsFirst(k) ==
    First(<<Knob("ARC_PREF_" \o k), g_prefs[k],
            IF k = "ServerURL" THEN Knob("ARC_SERVER") ELSE None,
            IF k = "language" THEN Else(Knob("ARC_LANG"), "en") ELSE None>>)
PreferenceValue(k) ==
    First(<<g_prefs[k], Knob("ARC_PREF_" \o k),
            IF k = "ServerURL" THEN Knob("ARC_SERVER") ELSE None,
            IF k = "language" THEN Else(Knob("ARC_LANG"), "en") ELSE None>>)

(* A field of the object a lifecycle call was given.  The name is looked   *)
(* up, then read as the kind the caller asks for.                          *)
FieldText(f) ==
    IF f \notin DOMAIN Fields \/ Fields[f] # "s" THEN Empty
    ELSE First(<<DirectoryForName(f), VersionOverride(f), LocaleOverride(f), "table">>)
FieldNumber(f, kind) == IF f \in DOMAIN Fields /\ Fields[f] = kind THEN "table" ELSE "0"

FieldIdFor(f) ==
    g_unknown_fields' = IF f \in DOMAIN Fields THEN g_unknown_fields
                        ELSE NoteOnce(g_unknown_fields, f)

GetField(t, f, kind) ==
    /\ call[t].at = "idle" /\ calls < MaxCalls /\ calls' = calls + 1
    /\ FieldIdFor(f)
    /\ asked' = asked \cup {[field |-> f, answer |-> IF kind = "s" THEN FieldText(f)
                                                     ELSE FieldNumber(f, kind)]}
    /\ UNCHANGED <<fixed, idVars, noteVars, g_prefs, dirs, polls, call, last>>

-----------------------------------------------------------------------------
(* A call: its method's name is noted first, then it is answered, then it  *)
(* is noted that nothing answered.                                         *)
NoteCalled(t, i, form, args) ==
    /\ call[t].at = "idle" /\ calls < MaxCalls /\ calls' = calls + 1
    /\ i \in {n.id : n \in ids}
    /\ g_method_called' = NoteOnce(g_method_called, MethodName(i))
    /\ call' = [call EXCEPT ![t] = [at |-> "called", method |-> MethodName(i),
                                    form |-> form, args |-> args]]
    /\ UNCHANGED <<fixed, idVars, fieldVars, g_method_unanswered, g_prefs, dirs, polls, last>>

(* The call returns a, or goes on to note that there was nothing to say.   *)
Return(t, a, key, at) ==
    /\ call' = [call EXCEPT ![t].at = at]
    /\ last' = [last EXCEPT ![t] = [method |-> call[t].method, key |-> key, answer |-> a,
                                    stored |-> IF key \in Keys THEN g_prefs[key] ELSE None]]
Answered(t, a) == Return(t, a, None, "idle")
FromText(t, m) == LET a == TextForMethod(m)
                  IN Return(t, a, None, IF a = None THEN "unanswered" ELSE "idle")

Answering(t, returned) ==
    /\ call[t].at = "called" /\ Returns(call[t].method) = returned
    /\ UNCHANGED <<fixed, idVars, fieldVars, noteVars, calls>>

CallObjectMethod(t) ==
    LET m == call[t].method
        arg == FirstOwnedArg(call[t])
    IN /\ Answering(t, "object") /\ UNCHANGED <<g_prefs, dirs, polls>>
       /\ CASE m \in OwnText -> Answered(t, "self")
            [] m = "getComponentId" -> Answered(t, IF arg = None THEN Empty ELSE arg)
            [] m = "getServerUrlWithKey" /\ "ARC_SERVER" \in env -> Answered(t, "ARC_SERVER")
            [] m \in KeyReaders /\ arg \in Keys /\ PreferenceValue(arg) # None ->
                   Return(t, PreferenceValue(arg), arg, "idle")
            [] m \in Makers /\ arg # None -> Answered(t, arg)
            [] OTHER -> FromText(t, m)

(* A number that is the object's own, the clock, or the table's.           *)
CallNumberMethod(t) ==
    LET m == call[t].method
    IN /\ Answering(t, "number") /\ UNCHANGED <<g_prefs, dirs, polls>>
       /\ CASE m = "ordinal" -> Answered(t, "self")
            [] m = "getUptime" -> Answered(t, "clock")
            [] m \in Numbers -> Answered(t, "table")
            [] OTHER -> Return(t, None, None, "unanswered")

ThreadComplete_Late == polls > Polls
ThreadComplete == polls >= Polls

(* mkdir makes the directory it is given, if it finds one and can; else it *)
(* is one of the flags.                                                    *)
CallBooleanMethod(t) ==
    LET m == call[t].method
        arg == FirstOwnedArg(call[t])
    IN /\ Answering(t, "boolean") /\ UNCHANGED g_prefs
       /\ polls' = IF m = "isThreadComplete" THEN polls + 1 ELSE polls
       /\ CASE m = "mkdir" /\ arg # None ->
                   \/ dirs' = dirs \cup {arg} /\ Answered(t, "true")
                   \/ UNCHANGED dirs /\ arg \notin dirs /\ Answered(t, "false")
            [] m = "isThreadComplete" ->
                   UNCHANGED dirs /\ Answered(t, IF ThreadComplete THEN "true" ELSE "false")
            [] m = "isFeatureDisabled" ->
                   UNCHANGED dirs
                   /\ Answered(t, IF "ARC_JNI_FEATURES" \in env THEN "true" ELSE "false")
            [] m \in Flags /\ m # "isThreadComplete" /\ (m = "mkdir" => arg = None) ->
                   UNCHANGED dirs /\ Answered(t, "true")
            [] OTHER -> UNCHANGED dirs /\ Return(t, None, None, "unanswered")

(* Storing, logging and the rest.  An empty value is stored as such.       *)
SetPreference(k, v) == g_prefs' = [g_prefs EXCEPT ![k] = v]

CallVoidMethod(t) ==
    LET m == call[t].method
        args == OwnedArgs(call[t])
    IN /\ Answering(t, "void") /\ UNCHANGED <<dirs, polls, last>>
       /\ call' = [call EXCEPT ![t].at = "idle"]
       /\ IF m \in KeyWriters /\ args # <<>> /\ args[1] \in Keys
          THEN SetPreference(args[1], IF Len(args) > 1 THEN args[2] ELSE Empty)
          ELSE UNCHANGED g_prefs

NoteUnanswered_Never(t) ==
    /\ call[t].at = "unanswered"
    /\ UNCHANGED g_method_unanswered
    /\ call' = [call EXCEPT ![t].at = "idle"]
    /\ UNCHANGED <<fixed, idVars, fieldVars, g_method_called, g_prefs, dirs, polls, last, calls>>
NoteUnanswered(t) ==
    /\ call[t].at = "unanswered"
    /\ g_method_unanswered' = NoteOnce(g_method_unanswered, call[t].method)
    /\ call' = [call EXCEPT ![t].at = "idle"]
    /\ UNCHANGED <<fixed, idVars, fieldVars, g_method_called, g_prefs, dirs, polls, last, calls>>

(* The arguments a method is called with, of those that are ours.          *)
ArgsOf(m) ==
    CASE m \in KeyReaders -> {<<k>> : k \in program.keys} \cup {<<>>}
      [] m \in KeyWriters -> {<<k, v>> : k \in program.keys, v \in Values} \cup {<<k>> : k \in program.keys}
      [] m \in Makers \cup {"mkdir", "getComponentId"} -> {<<"text">>}
      [] OTHER -> {<<>>}

Next ==
    \/ \E m \in program.methods : GetMethodID(m)
    \/ \E t \in Callers :
          \/ \E i \in DOMAIN g_method_names, form \in Forms :
                \E args \in ArgsOf(MethodName(i)) : NoteCalled(t, i, form, args)
          \/ \E f \in Named, kind \in {"s", "i", "f", "z"} : program.methods = {} /\ GetField(t, f, kind)
          \/ CallObjectMethod(t) \/ CallNumberMethod(t) \/ CallBooleanMethod(t)
          \/ CallVoidMethod(t) \/ NoteUnanswered(t)

Spec == Init /\ [][Next]_vars

-----------------------------------------------------------------------------
TypeOK ==
    /\ Range(g_method_names) \subseteq program.methods /\ Range(g_method_called) \subseteq program.methods
    /\ \A t \in Callers : call[t].at \in {"idle", "called", "unanswered"}
    /\ \A k \in Keys : g_prefs[k] \in Values \cup {Empty, None}

(* Whatever two threads look up, an id names one method and a method has   *)
(* one id.                                                                 *)
IdsNameOneMethod ==
    /\ \A n \in ids : MethodName(n.id) = n.method
    /\ \A n, o \in ids : n.method = o.method => n.id = o.id

(* The report: what was answered with nothing is in it, once the call has  *)
(* returned, and is among what was called; and so is a field whose zero    *)
(* stands for "no such field".                                             *)
NothingUnsaid ==
    /\ \A t \in Callers :
          call[t].at = "idle" /\ last[t].method # None /\ last[t].answer = None
             => last[t].method \in Range(g_method_unanswered)
    /\ Range(g_method_unanswered) \subseteq Range(g_method_called)
    /\ \A a \in asked : a.field \in DOMAIN Fields \cup Range(g_unknown_fields)

(* A title reads back what it stored last, whatever the environment says.  *)
StoredWins ==
    \A t \in Callers : last[t].stored # None => last[t].answer = last[t].stored

(* A worker thread is reported running just as often as it was asked to,   *)
(* and no longer: of several callers who have only polled, one was told.   *)
PollsCount ==
    LET poll == {t \in Callers : last[t].method = "isThreadComplete"} IN
    /\ polls <= Polls => \A t \in poll : last[t].answer = "false"
    /\ polls > Polls /\ (\A t \in Callers \ poll : last[t].method = None)
          => \E t \in poll : last[t].answer = "true"

(* The promise of mkdir, whichever form it is called in: true means that   *)
(* the directory is there.                                                 *)
TrueMeansMade ==
    \A t \in Callers : last[t].method = "mkdir" /\ last[t].answer = "true" => dirs # {}
=============================================================================
