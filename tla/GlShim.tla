------------------------------- MODULE GlShim -------------------------------
(***************************************************************************)
(* The GL calls that do not go straight to the driver: draws that would    *)
(* have it read an address that is none, attributes numbered from one,     *)
(* shaders written for GLES, errors that are said of the call that made    *)
(* them, and the census of the textures that are drawn with.               *)
(*                                                                         *)
(* A pointer handed to GL is null, an offset (an address in the low pages) *)
(* or client memory; it is an offset into the buffer bound for it, if one  *)
(* is, and an address otherwise.                                           *)
(***************************************************************************)
EXTENDS Integers, Sequences, FiniteSets, FiniteSetsExt

CONSTANTS Attributes,     \* that the guest numbers, from 1
          Textures,       \* that it has, besides none, which is 0
          Skipped,        \* of these, the ones whose draws are left out
          CensusAfter,    \* the frame that reports, or 0
          Dumped,         \* bound: how many of the busiest textures are dumped
          MaxSaid,        \* bound: how many errors are said of each call
          MaxDraws, MaxFrames,   \* bounds: draws of a texture that are counted, and frames
          Lines, MaxLines \* kinds of lines of a shader, and bound: how many

GlAssumption ==
    Attributes \subseteq Nat \ {0} /\ {MaxSaid, CensusAfter, MaxFrames, MaxLines} \subseteq Nat

VARIABLES attribs,        \* the driver's: per attribute, [on, buf, at]
          array, element, \* the buffers bound, 0 when none is
          read,           \* what the last draw read that is not in a buffer
          texture,        \* the driver's binding
          g_textures,     \* the census: per texture, [size, draws]
          frames, reported,
          errors,         \* the driver's flags: the calls that raised one
          left, said,     \* errors each call may yet say, and the one last said
          source, shader, logged,  \* of a shader: the guest's lines, the driver's, the line its log names
          wanted, bound, drew      \* ghosts: the guest's attributes and texture, and its draws

glVars     == <<attribs, array, element, read, texture, g_textures, frames, reported,
                errors, left, said, wanted, bound, drew>>
shaderVars == <<source, shader, logged>>
vars       == <<glVars, shaderVars>>

Calls    == {"glDrawElements", "glTexImage2D"}
Off      == [on |-> FALSE, buf |-> 0, at |-> "null"]
Unseen   == [size |-> 0, draws |-> 0]
Buffer   == 1
All      == Textures \cup {0}

ShiftAttrib(index) == IF index # 0 THEN index - 1 ELSE 0

Init ==
    /\ attribs = [a \in {ShiftAttrib(g) : g \in Attributes} |-> Off]
    /\ wanted = [g \in Attributes |-> Off]
    /\ array = 0 /\ element = 0 /\ read = {}
    /\ texture = 0 /\ bound = 0
    /\ g_textures = [t \in All |-> Unseen] /\ drew = [t \in All |-> 0]
    /\ frames = 0 /\ reported = FALSE
    /\ errors = {} /\ left = [c \in Calls |-> MaxSaid] /\ said = <<>>
    /\ source = <<>> /\ shader = <<>> /\ logged = 0

attribVars == <<attribs, wanted>>
bindVars   == <<array, element>>
errorVars  == <<errors, left, said>>
censusVars == <<g_textures, frames, reported, drew>>
texVars    == <<texture, bound>>

-----------------------------------------------------------------------------
(* Attributes: what the guest numbers from one the driver numbers from     *)
(* zero, in every call that names one.                                     *)
Set(g, part, v) ==
    /\ attribs' = [attribs EXCEPT ![ShiftAttrib(g)][part] = v]
    /\ wanted' = [wanted EXCEPT ![g][part] = v]
    /\ UNCHANGED <<bindVars, read, errorVars, censusVars, texVars>>

EnableVertexAttribArray(g)  == Set(g, "on", TRUE)
DisableVertexAttribArray(g) == Set(g, "on", FALSE)

VertexAttribPointer(g, at) ==
    /\ array # 0 => at # "memory"
    /\ attribs' = [attribs EXCEPT ![ShiftAttrib(g)] = [@ EXCEPT !.buf = array, !.at = at]]
    /\ wanted' = [wanted EXCEPT ![g] = [@ EXCEPT !.buf = array, !.at = at]]
    /\ UNCHANGED <<bindVars, read, errorVars, censusVars, texVars>>

(* The driver's own: a buffer is bound, or deleted, which unbinds it from  *)
(* wherever it is and leaves the pointers that were offsets into it.       *)
BindBuffer(a, e) ==
    /\ array' = a /\ element' = e
    /\ UNCHANGED <<attribVars, read, errorVars, censusVars, texVars>>
DeleteBuffer ==
    /\ array' = 0 /\ element' = 0
    /\ attribs' = [a \in DOMAIN attribs |-> [attribs[a] EXCEPT !.buf = 0]]
    /\ wanted' = [g \in Attributes |-> [wanted[g] EXCEPT !.buf = 0]]
    /\ UNCHANGED <<read, errorVars, censusVars, texVars>>
BindTexture(t) ==
    /\ texture' = t /\ bound' = t
    /\ UNCHANGED <<attribVars, bindVars, read, errorVars, censusVars>>
(* Another call of the guest's is wrong, and nobody asks. *)
Mistake ==
    /\ errors' = errors \cup {"other"}
    /\ UNCHANGED <<attribVars, bindVars, read, left, said, censusVars, texVars>>

-----------------------------------------------------------------------------
(* The driver is called: what it had to say before is drained first, as    *)
(* long as anything will be said, and what it says then is said of it.     *)
\* What was raised before the call is still there after it.
Drained_Not(c) == errors

Drained(c) == IF left[c] > 0 THEN {} ELSE errors

Driven(c) ==
    \E raised \in {{}, {c}} :
       LET now == Drained(c) \cup raised IN
       IF left[c] = 0 \/ now = {}
       THEN errors' = now /\ UNCHANGED <<left, said>>
       ELSE \E e \in now :
               /\ said' = <<c, e>> /\ errors' = now \ {e}
               /\ left' = [left EXCEPT ![c] = @ - 1]

LooksLikeAnOffset(p) == p = "offset"

NoBufferFor(p, buffer) == LooksLikeAnOffset(p) /\ buffer = 0

Enabled == {a \in DOMAIN attribs : attribs[a].on}

\* Only the indices are looked at.
IndicesAreUnusable_Alone(indices) == NoBufferFor(indices, element)

IndicesAreUnusable(indices) ==
    \/ NoBufferFor(indices, element)
    \/ \E a \in Enabled : NoBufferFor(attribs[a].at, attribs[a].buf)

TextureIsSkipped(t) == t # 0 /\ t \in Skipped

NoteDraw(t) ==
    IF CensusAfter = 0 THEN UNCHANGED g_textures
    ELSE g_textures' = [g_textures EXCEPT ![t].draws = @ + 1]

DrawElements(indices) ==
    /\ element # 0 => indices # "memory"
    /\ drew[bound] < MaxDraws
    /\ IF IndicesAreUnusable(indices) \/ TextureIsSkipped(texture)
       THEN UNCHANGED <<read, g_textures, drew, errorVars>>
       ELSE /\ NoteDraw(texture) /\ drew' = [drew EXCEPT ![bound] = @ + 1]
            /\ read' = (IF element = 0 THEN {indices} ELSE {})
                       \cup {attribs[a].at : a \in {b \in Enabled : attribs[b].buf = 0}}
            /\ Driven("glDrawElements")
    /\ UNCHANGED <<attribVars, bindVars, frames, reported, texVars>>

(* The census has the largest size of a texture's first level.             *)
NoteTexture(t, n) ==
    IF CensusAfter = 0 THEN UNCHANGED g_textures
    ELSE g_textures' = [g_textures EXCEPT ![t].size = Max({@, n})]

TexImage2D(level, n) ==
    /\ IF level = 0 THEN NoteTexture(texture, n) ELSE UNCHANGED g_textures
    /\ Driven("glTexImage2D")
    /\ UNCHANGED <<attribVars, bindVars, read, frames, reported, drew, texVars>>

(* DumpTexture binds a texture to read it back, and what was bound again.  *)
DumpTexture_Leaves(was, t) == t

DumpTexture(was, t) == was

(* The busiest, as many as are dumped, in either order among the equally   *)
(* busy; a texture without a size cannot be read back.                     *)
Busiest ==
    {S \in kSubset(Min({Dumped, Cardinality(All)}), All) :
       \A t \in S, u \in All \ S : g_textures[t].draws >= g_textures[u].draws}

\* Each puts back what it found bound; what the last of them puts back stays.
ReportCensus ==
    \E S \in Busiest :
       LET dumped == {t \in S \ {0} : g_textures[t].size > 0} IN
       IF dumped = {} THEN UNCHANGED texture
       ELSE \E t \in dumped : texture' = DumpTexture(texture, t)

Clear ==
    /\ frames < MaxFrames /\ frames' = frames + 1
    /\ IF CensusAfter > 0 /\ frames + 1 >= CensusAfter /\ ~reported
       THEN ReportCensus /\ reported' = TRUE
       ELSE UNCHANGED <<texture, reported>>
    /\ UNCHANGED <<attribVars, bindVars, read, errorVars, g_textures, drew, bound>>

-----------------------------------------------------------------------------
(* Shaders.  What desktop GLSL has no grammar for is left blank, below the *)
(* lines that say which version it is and define the qualifiers away.      *)
Header == <<"#version 120", "#define lowp", "#define mediump", "#define highp">>

Blank == ""

ToDesktopGlsl(in) ==
    Header \o [i \in DOMAIN in |-> IF in[i] \in {"#version", "precision"} THEN Blank ELSE in[i]]

ShaderSource(lines) ==
    source' = lines /\ shader' = ToDesktopGlsl(lines) /\ logged' = 0

(* The driver's log names the first line it does not understand.           *)
CompileShader ==
    LET wrong == {i \in DOMAIN shader : shader[i] = "wrong"} IN
    /\ wrong # {} /\ logged' = Min(wrong) /\ UNCHANGED <<source, shader>>

-----------------------------------------------------------------------------
Pointers == {"null", "offset", "memory"}

GeometryNext ==
    \/ \E g \in Attributes :
          \/ EnableVertexAttribArray(g) \/ DisableVertexAttribArray(g)
          \/ \E p \in Pointers : VertexAttribPointer(g, p)
    \/ \E a, e \in {0, Buffer} : BindBuffer(a, e)
    \/ DeleteBuffer
    \/ \E p \in Pointers : DrawElements(p)

TextureNext ==
    \/ \E t \in All : BindTexture(t)
    \/ \E level \in {0, 1} : TexImage2D(level, 1)
    \/ DrawElements("memory") \/ Mistake \/ Clear

ShaderNext == CompileShader \/ \E n \in 1 .. MaxLines : \E s \in [1 .. n -> Lines] : ShaderSource(s)

Next ==
    \/ (GeometryNext \/ TextureNext) /\ UNCHANGED shaderVars
    \/ ShaderNext /\ UNCHANGED glVars

Spec == Init /\ [][Next]_vars

-----------------------------------------------------------------------------
TypeOK ==
    /\ array \in {0, Buffer} /\ element \in {0, Buffer} /\ texture \in All
    /\ \A a \in DOMAIN attribs : attribs[a].buf \in {0, Buffer} /\ attribs[a].at \in Pointers
    /\ errors \subseteq Calls \cup {"other"} /\ frames \in 0 .. MaxFrames
    /\ logged \in 0 .. MaxLines + Len(Header)

(* No draw has the driver read through an offset whose buffer is gone,     *)
(* not even one that was a good offset when it was set, and whose buffer   *)
(* was deleted since.                                                      *)
DrawsReadable == "offset" \notin read

(* What the guest set is what the driver has, attribute by attribute, and  *)
(* its texture is still bound after a census; the census has counted its   *)
(* draws by texture; and an error is only said of the call that made it.   *)
KeepsGuestState ==
    /\ \A g \in Attributes : attribs[ShiftAttrib(g)] = wanted[g]
    /\ texture = bound
    /\ CensusAfter > 0 => \A t \in All : g_textures[t].draws = drew[t]
    /\ said # <<>> => said[1] = said[2]

(* What shim_gl.cpp says of a rejected draw: nothing is read that no       *)
(* buffer holds and that is no pointer either.                             *)
NothingRead == read \subseteq {"memory"}

(* What shim_gl.cpp says of shaders: the log names the author's line.      *)
LogNamesLine == logged # 0 => logged \in DOMAIN source /\ source[logged] = "wrong"
=============================================================================
