----------------------------- MODULE MCServices -----------------------------
(***************************************************************************)
(* What the host does for a guest that asks for something: the registry    *)
(* behind its pthread objects, files, sockets, zlib, assets, clocks and    *)
(* texts, variadic calls, GL, Java methods, and the report when it faults. *)
(* They share no state, so a behaviour exercises one of them, its focus,   *)
(* and leaves the others as they began.                                    *)
(***************************************************************************)
EXTENDS Registry, Integers, Sequences, TLC

CONSTANTS
    Pair,                                                    \* threads, descriptors, z_streams
    Size, Entries, FileStreams, Paths,                       \* of Files,
    Transfers, SetBits,                                      \* Sockets,
    Hosts, Data,                                             \* Zlib,
    AssetHandles, Dirs, OnDisk, AskedFor, FileLength, Names, \* Assets,
    Began, Fakes, MaxNow, Times, kEarliest, kLatest, MaxText, Room,      \* Posix,
    ArgRegs, VecRegs, NamedRegs, Conversions, MaxFormat, Caps, PieceSize,    \* Varargs,
    Attributes, Textures, Skipped, CensusAfter, Dumped, MaxSaid, MaxDraws, MaxFrames,
    Lines, MaxLines,                                         \* GlShim,
    Programs, Knobs, Values, Polls, MaxCalls,                \* JniMethods
    Memory, MaxDepth, Tables, Chains                         \* and CrashReports

VARIABLES focus,
          size, desc, pos, map, find, given, file, g_open_paths, closed,
          waiter, doing, addrs, try, ready, sock, replied, failed,
          guest, host, opens, meant, begun, differed,
          asset, dir, heap, told, opened,
          now, fake, start, skew, read, slots, held, text, wide, src, out,
          format, taken, pass, cap, ap, conversion, used, written, fetched, full, result,
          attribs, array, element, drawn, texture, g_textures, frames, reported,
          errors, left, said, source, shader, logged, wanted, bound, drew,
          program, env, g_method_names, g_method_called, g_method_unanswered,
          g_unknown_fields, g_prefs, dirs, polls, call, last, calls, ids, asked,
          region, symbols, phase, at, depth, chain, named, touched

fdVars    == <<size, desc, pos, map>>
dirVars   == <<find, given>>
streamVars == <<file, g_open_paths, closed>>
fileVars  == <<fdVars, dirVars, streamVars>>
sockVars  == <<waiter, doing, addrs, try, ready, sock, replied, failed>>
zVars     == <<guest, host, opens, meant, begun, differed>>
assetVars == <<asset, dir, heap, told, opened>>
clockVars == <<now, fake, start, skew, read>>
dateVars  == <<slots, held>>
textVars  == <<text, wide, src, out>>
posixVars == <<clockVars, dateVars, textVars>>
vaVars    == <<format, taken, pass, cap, ap, conversion, used, written, fetched, full, result>>
drawVars  == <<attribs, array, element, drawn, texture, g_textures, frames, reported,
               errors, left, said, wanted, bound, drew>>
shaderVars == <<source, shader, logged>>
glVars    == <<drawVars, shaderVars>>
javaVars  == <<program, env, g_method_names, g_method_called, g_method_unanswered,
               g_unknown_fields, g_prefs, dirs, polls, call, last, calls, ids, asked>>
crashVars == <<region, symbols, phase, at, depth, chain, named, touched>>
dataVars  == <<zVars, assetVars, posixVars, vaVars>>
callVars  == <<vars, fileVars, sockVars, glVars, javaVars, crashVars>>

(* Conversions: of each class of argument, widths given as arguments, and  *)
(* one that comes out longer than a piece has room for.                    *)
Conversion(k, n) == [kind |-> k, size |-> n]
MCConversions == {Conversion("star", 0), Conversion("int", 1), Conversion("double", 2),
                  Conversion("n", 0), Conversion("string", 3), Conversion("percent", 1)}

(* The one asset, at the root, and the ways it is asked for.               *)
MCEntries == <<"a", "b">>
MCNames   == <<"x", "y">>
MCOnDisk  == <<"f">>
MCAskedFor == {<<"f">>, <<"/", "f">>, <<"/", "assets/", "f">>, <<"assets/", "f">>,
               <<"assets/", "assets/", "f">>, <<"/">>, <<"assets/", "/", "f">>}

(* Titles: the methods that bear on one another, with keys of theirs.      *)
Title(methods, keys) == [methods |-> methods, keys |-> keys]
MCPrograms ==
    {Title({}, {}), Title({"isThreadComplete", "mkdir"}, {}),
     Title({"setValue", "getSharedPreference"}, {"ServerURL", "other"}),
     Title({"setStringPreference", "getStringPreference"}, {"language"}),
     Title({"setSharedPreference", "getEADeviceId"}, {"deviceIdentifier", "androidId"}),
     Title({"setValue", "getCurrentSynergyId"}, {"telemetryId"}),
     Title({"isFeatureDisabled", "isAnything", "hasConnectivity"}, {}),
     Title({"getLanguage", "getVersion"}, {}), Title({"getStorageDir", "getCarrier"}, {}),
     Title({"toString", "getText"}, {}), Title({"getComponentId", "getServerUrlWithKey"}, {}),
     Title({"newStringUTF", "getUptime"}, {}), Title({"getFreeDiskSpace", "getCount", "ordinal"}, {}),
     Title({"Log", "track", "requestSafetyNetAttestation"}, {})}
MCKnobs == {{}, {"ARC_LANG", "ARC_LOCALE", "ARC_APP_VERSION", "root", "ARC_SERVER", "ARC_JNI_FEATURES"},
            {"ARC_JNI_ABSENT", "ARC_PREF_other", "ARC_PREF_ServerURL", "ARC_PREF_telemetryId",
             "ARC_JNI_getCurrentSynergyId"}}

(* Symbol tables: two functions, each with a size or without, and an       *)
(* object between them.  Chains of one offset and of two.                  *)
Symbol(n, kind, from, length, said_size) ==
    [name |-> n, kind |-> kind, start |-> from, length |-> length, size |-> said_size]
MCTables == {{Symbol("a", "func", 1, 2, sa), Symbol("b", "func", 3, 1, sb), Symbol("d", "object", 2, 1, 1)} :
                sa \in {0, 2}, sb \in {0, 1}}
MCChains == {<<0, 0>>, <<1, 1, 0>>}
MCFakes  == {-1, 500}
MCTimes  == {-2, 0, 3, 9}

File   == INSTANCE Files WITH Callers <- Pair, Fds <- Pair, Streams <- FileStreams
Net    == INSTANCE Sockets WITH pc <- doing
Z      == INSTANCE Zlib WITH Streams <- Pair
Asset  == INSTANCE Assets WITH Assets <- AssetHandles, Length <- FileLength
System == INSTANCE Posix WITH Threads <- Pair
Va     == INSTANCE Varargs WITH Regs <- ArgRegs, VRegs <- VecRegs, named <- taken, i <- conversion, out <- written
Gl     == INSTANCE GlShim WITH read <- drawn
Java   == INSTANCE JniMethods WITH Callers <- Pair
Crash  == INSTANCE CrashReports WITH Words <- Memory, Symbols <- Tables

ASSUME ServicesAssumption ==
    /\ File!FilesAssumption /\ Net!SocketsAssumption /\ Z!ZlibAssumption /\ Asset!AssetsAssumption
    /\ System!PosixAssumption /\ Va!VarargsAssumption /\ Gl!GlAssumption
    /\ Java!MethodsAssumption /\ Crash!ReportsAssumption

(* Whatever is not in focus begins in one way.                             *)
MCInit ==
    /\ focus \in {"registry", "descriptors", "directories", "streams", "sockets", "zlib", "assets",
                  "clock", "dates", "texts", "varargs", "geometry", "textures", "shaders", "java", "crash"}
    /\ Init /\ (focus = "registry" \/ \A w \in Words : word[w] = 0)
    /\ File!Init /\ (focus = "descriptors" \/ size = Size)
    /\ Net!Init /\ (focus = "sockets" \/ waiter = "poll")
    /\ Z!Init /\ Asset!Init /\ Gl!Init
    /\ System!Init /\ (focus = "clock" \/ fake = -1) /\ (focus = "texts" \/ (text = <<"a">> /\ wide))
    /\ Va!Init /\ (focus = "varargs" \/
                      (/\ format = <<CHOOSE c \in Conversions : Va!WellFormed(<<c>>)>>
                       /\ taken = (CHOOSE n \in NamedRegs : TRUE) /\ cap = Va!NoBuffer))
    /\ Java!Init /\ (focus = "java" \/ (program = Title({}, {}) /\ env = {}))
    /\ Crash!Init /\ (focus = "crash" \/
                         ((\A w \in 1 .. Memory : region[w] = 0) /\ symbols = CHOOSE t \in Tables : TRUE))

Computes ==
    /\ UNCHANGED callVars
    /\ \/ focus = "zlib" /\ Z!Next /\ UNCHANGED <<assetVars, posixVars, vaVars>>
       \/ focus = "assets" /\ Asset!Next /\ UNCHANGED <<zVars, posixVars, vaVars>>
       \/ focus = "varargs" /\ Va!Next /\ UNCHANGED <<zVars, assetVars, posixVars>>
       \/ focus = "clock" /\ System!ClockNext
          /\ UNCHANGED <<dateVars, textVars, zVars, assetVars, vaVars>>
       \/ focus = "dates" /\ System!DateNext
          /\ UNCHANGED <<clockVars, textVars, zVars, assetVars, vaVars>>
       \/ focus = "texts" /\ System!TextNext
          /\ UNCHANGED <<clockVars, dateVars, zVars, assetVars, vaVars>>

Others ==
    /\ UNCHANGED dataVars
    /\ \/ focus = "registry" /\ Next /\ UNCHANGED <<fileVars, sockVars, glVars, javaVars, crashVars>>
       \/ /\ UNCHANGED <<vars, sockVars, glVars, javaVars, crashVars>>
          /\ \/ focus = "descriptors" /\ File!FdNext /\ UNCHANGED <<dirVars, streamVars>>
             \/ focus = "directories" /\ File!DirNext /\ UNCHANGED <<fdVars, streamVars>>
             \/ focus = "streams" /\ File!StreamNext /\ UNCHANGED <<fdVars, dirVars>>
       \/ focus = "sockets" /\ Net!Next /\ UNCHANGED <<vars, fileVars, glVars, javaVars, crashVars>>
       \/ focus = "java" /\ Java!Next /\ UNCHANGED <<vars, fileVars, sockVars, glVars, crashVars>>
       \/ focus = "crash" /\ Crash!Next /\ UNCHANGED <<vars, fileVars, sockVars, glVars, javaVars>>
       \/ /\ UNCHANGED <<vars, fileVars, sockVars, javaVars, crashVars>>
          /\ \/ focus = "geometry" /\ Gl!GeometryNext /\ UNCHANGED shaderVars
             \/ focus = "textures" /\ Gl!TextureNext /\ UNCHANGED shaderVars
             \/ focus = "shaders" /\ Gl!ShaderNext /\ UNCHANGED drawVars

MCNext == UNCHANGED focus /\ (Computes \/ Others)

MCFairness ==
    /\ WF_sockVars(focus = "sockets" /\ Net!Wait)
    /\ \A i \in Transfers :
          /\ WF_sockVars(focus = "sockets" /\ Net!Step(i))
          /\ WF_sockVars(focus = "sockets" /\ (Net!Establish(i) \/ Net!Refuse(i)))
          /\ WF_sockVars(focus = "sockets" /\ Net!Reply(i))

MCSpec == MCInit /\ [][MCNext]_<<focus, dataVars, callVars>> /\ MCFairness

(* Sound for TransfersEnd as well: no state of its focus holds one of      *)
(* these values where exchanging them makes another state.                 *)
Symmetry == Permutations(Pair)

-----------------------------------------------------------------------------
(* Files: a mapping holds the file's bytes, a directory lists each entry   *)
(* once.  Assets: a name read from a directory stays while another's is.   *)
FilesSound ==
    /\ File!TypeOK /\ File!MappingHoldsFile /\ File!EntriesOnce
    /\ Asset!TypeOK /\ Asset!NamesHeld

(* Sockets: a connection is only given up when it has failed.              *)
LeavesOnlyFailed == Net!TypeOK /\ Net!LeavesOnlyFailed

(* Sockets: every transfer comes to an end.                                *)
TransfersEnd == focus = "sockets" => Net!TransfersEnd

(* Zlib: each stream of the guest works on its own, as its program set it. *)
StreamsSound == Z!TypeOK /\ Z!StreamsSound

(* Posix: stopwatches agree, dates stand and texts come out whole.         *)
SystemSound == System!TypeOK /\ System!StopwatchesAgree /\ System!DatesStand /\ System!TextWhole

(* Varargs: each conversion takes the arguments passed for it.             *)
FetchesOwn == Va!TypeOK /\ Va!FetchesOwn

(* GlShim: no draw reads an address that is none, and the driver's state   *)
(* is what the guest set.                                                  *)
DrawsAsSet == Gl!TypeOK /\ Gl!DrawsReadable /\ Gl!KeepsGuestState

(* JniMethods: ids stand for one method, nothing goes unsaid, and what was *)
(* stored is read back.                                                    *)
MethodsSound ==
    Java!TypeOK /\ Java!IdsNameOneMethod /\ Java!NothingUnsaid /\ Java!StoredWins /\ Java!PollsCount

(* CrashReports: a report touches nothing that faults, and names functions *)
(* that are there.                                                         *)
ReportsSafely == Crash!TypeOK /\ Crash!ReportsSafely /\ Crash!NamesFunction
=============================================================================
