------------------------------ MODULE Linking -------------------------------
(***************************************************************************)
(* How arc_boot puts the images of a title together: the dependencies the  *)
(* engine names are loaded in the order it names them, then the engine,    *)
(* each import bound as it is met (resolve); afterwards every import is    *)
(* sorted into the host functions the dispatcher must know, the addresses  *)
(* in other guest images, and the ones nobody has (register_imports).      *)
(* Once the guest runs, dlsym finds functions by name and announces the    *)
(* host's (shim_sys.cpp, shim.cpp).  ElfImage has the inside of one Load;  *)
(* here it binds all of an image's imports at once, or fails.              *)
(***************************************************************************)
EXTENDS Naturals, Sequences, FiniteSetsExt

CONSTANTS Names,     \* of functions
          Needed,    \* the engine's DT_NEEDED, in order
          Engine

Deps   == Range(Needed)
Images == Deps \cup {Engine}

LinkingAssumption == Needed \in Seq(Deps)

NoAddress    == <<"none">>
Host(n)      == <<"host", n>>          \* the host's own function
Guest(i, n)  == <<"guest", i, n>>      \* inside an image
Trap(i, n)   == <<"trap", i, n>>       \* a slot of the image's trap page

(* What the files and the build are: which dependencies ship beside the    *)
(* engine, what each image exports and imports, what the shim implements,  *)
(* and which images the lifted program covers.                             *)
Worlds == [shipped : SUBSET Deps, lifted : SUBSET Deps,
           exports : [Images -> SUBSET Names], imports : [Images -> SUBSET Names],
           shim : SUBSET Names, overrides : SUBSET Names]

VARIABLES world,
          next,            \* the entry of Needed the loop is at
          stage,           \* "deps", "engine", "register", "ready", "ended"
          g_deps, g_lifted_deps,
          g_mappings,
          bound,           \* each loaded image's bindings
          natives,         \* addresses the dispatcher was told of
          g_unresolved,
          answered         \* ghost: <<name, address>> dlsym gave

vars == <<world, next, stage, g_deps, g_lifted_deps, g_mappings, bound, natives,
          g_unresolved, answered>>

Start ==
    /\ next = 1 /\ stage = "deps"
    /\ g_deps = <<>> /\ g_lifted_deps = <<>> /\ g_mappings = <<>>
    /\ bound = [i \in Images |-> <<>>]
    /\ natives = {} /\ g_unresolved = {} /\ answered = {}

Init == /\ world \in Worlds
        /\ \A i \in Images : world.exports[i] \cap world.imports[i] = {}
        /\ Start

(* Lookup in a list of images: the first that exports the name.            *)
FirstOf(images, n) ==
    LET have == {k \in DOMAIN images : n \in world.exports[images[k]]}
    IN  IF have = {} THEN NoAddress ELSE Guest(images[Min(have)], n)

InOrder(places) ==
    LET have == {k \in DOMAIN places : places[k] # NoAddress}
    IN  IF have = {} THEN NoAddress ELSE places[Min(have)]
Shim(names, n) == IF n \in names THEN Host(n) ELSE NoAddress

\* The shim is asked before the lifted dependencies.
Resolve_ShimFirst(n) ==
    InOrder(<<Shim(world.overrides, n), Shim(world.shim, n),
              FirstOf(g_lifted_deps, n), FirstOf(g_deps, n)>>)

Resolve(n) ==
    InOrder(<<Shim(world.overrides, n), FirstOf(g_lifted_deps, n),
              Shim(world.shim, n), FirstOf(g_deps, n)>>)

(* Load binds each import to what resolve finds, or to a trap.             *)
Bindings(i) ==
    [n \in world.imports[i] |-> IF Resolve(n) = NoAddress THEN Trap(i, n) ELSE Resolve(n)]

(* One turn of the dependency loop: a dependency that is not beside the    *)
(* engine, or does not load, is passed over.                               *)
LoadDep ==
    /\ stage = "deps" /\ next <= Len(Needed)
    /\ next' = next + 1
    /\ LET i == Needed[next]
       IN  \/ UNCHANGED <<g_deps, g_lifted_deps, g_mappings, bound>>
           \/ /\ i \in world.shipped
              /\ bound' = [bound EXCEPT ![i] = Bindings(i)]
              /\ g_mappings' = Append(g_mappings, i)
              /\ g_deps' = Append(g_deps, i)
              /\ g_lifted_deps' = IF i \in world.lifted THEN Append(g_lifted_deps, i)
                                  ELSE g_lifted_deps
    /\ UNCHANGED <<world, stage, natives, g_unresolved, answered>>

LoadEngine ==
    /\ stage = "deps" /\ next > Len(Needed)
    /\ \/ /\ stage' = "register"
          /\ bound' = [bound EXCEPT ![Engine] = Bindings(Engine)]
          /\ g_mappings' = Append(g_mappings, Engine)
       \/ /\ stage' = "ended"
          /\ UNCHANGED <<bound, g_mappings>>
    /\ next' = 1
    /\ UNCHANGED <<world, g_deps, g_lifted_deps, natives, g_unresolved, answered>>

in_guest_image(a) == a[1] = "guest" /\ a[2] \in Range(g_mappings)

\* Whatever was resolved is taken for a host function.
IsNative_Resolved(a) == a[1] # "trap"

IsNative(a) == a[1] # "trap" /\ ~in_guest_image(a)

(* register_imports: the dependencies', then the engine's.                 *)
RegisterImports ==
    /\ stage = "register"
    /\ LET order == Append(g_deps, Engine)
           b     == bound[order[next]]
       IN  /\ natives' = natives \cup {b[n] : n \in {m \in DOMAIN b : IsNative(b[m])}}
           /\ g_unresolved' = g_unresolved \cup
                 {<<b[n], n>> : n \in {m \in DOMAIN b : b[m][1] = "trap"}}
           /\ next' = next + 1
           /\ stage' = IF next = Len(order) THEN "ready" ELSE stage
    /\ UNCHANGED <<world, g_deps, g_lifted_deps, g_mappings, bound, answered>>

\* Announces what it found, wherever that is.
HandOut_Any(a) == IF a = NoAddress THEN natives ELSE natives \cup {a}

(* ShimHandOut announces what the shim answers; an image's own symbol is   *)
(* guest code and is not.                                                  *)
HandOut(a) == IF a[1] = "host" THEN natives \cup {a} ELSE natives

(* dlsym looks in every image, in the order they were loaded, and only     *)
(* then asks the shim.                                                     *)
Dlsym(n) ==
    /\ stage = "ready"
    /\ LET a == InOrder(<<FirstOf(g_mappings, n), Shim(world.shim, n)>>)
       IN  natives' = HandOut(a) /\ answered' = answered \cup {<<n, a>>}
    /\ UNCHANGED <<world, next, stage, g_deps, g_lifted_deps, g_mappings, bound, g_unresolved>>

Next == LoadDep \/ LoadEngine \/ RegisterImports \/ \E n \in Names : Dlsym(n)

Spec == Init /\ [][Next]_vars

-----------------------------------------------------------------------------
(* When the guest starts, every binding of every image leads somewhere the *)
(* runtime knows: a host function the dispatcher was told of, an image it  *)
(* can attribute, or a trap it can name -- and nothing the dispatcher      *)
(* would call as host code lies in guest code.                             *)
EveryImportKnown == stage = "ready" =>
    /\ \A i \in Range(g_mappings) : \A n \in world.imports[i] :
          \/ bound[i][n] = Host(n) /\ bound[i][n] \in natives
          \/ \E d \in Range(g_deps) : /\ bound[i][n] = Guest(d, n)
                                      /\ n \in world.exports[d]
          \/ <<bound[i][n], n>> \in g_unresolved
    /\ \A a \in natives : a[1] = "host"

(* What dlsym answers at run time leads somewhere as well: to what an      *)
(* image exports, or to a host function the dispatcher was told of; and it *)
(* is null only for a name nobody has.                                     *)
AnswersKnown == \A q \in answered :
    \/ \E i \in Range(g_mappings) : q[2] = Guest(i, q[1]) /\ q[1] \in world.exports[i]
    \/ q[2] = Host(q[1]) /\ q[2] \in natives
    \/ /\ q[2] = NoAddress /\ q[1] \notin world.shim
       /\ \A i \in Range(g_mappings) : q[1] \notin world.exports[i]

(* A function is the same by name as by import.  Refuted: an import passes *)
(* over a dependency that is not lifted where the shim has the name, and   *)
(* dlsym does not.                                                         *)
SameByName == \A q \in answered : \A i \in Range(g_mappings) :
    q[1] \in world.imports[i] /\ bound[i][q[1]][1] # "trap" => bound[i][q[1]] = q[2]

(* What the engine imports is taken from a lifted dependency if one has    *)
(* it, and from an unlifted one only when nobody else does, whichever      *)
(* dependencies are shipped, lifted, or failed to load.                    *)
EngineBinding == stage = "ready" =>
    \A n \in world.imports[Engine] \ world.overrides :
        LET have == {d \in Range(g_deps) : n \in world.exports[d]}
            a    == bound[Engine][n]
        IN  /\ have \cap world.lifted # {} =>
                  \E d \in have \cap world.lifted : a = Guest(d, n)
            /\ have \cap world.lifted = {} /\ n \in world.shim => a = Host(n)
            /\ have # {} => a[1] # "trap"

(* What arc_boot.cpp says of every image's imports: a dependency that the  *)
(* title ships and the lifted program covers wins over the shim.           *)
ShippedWins == stage = "ready" =>
    \A i \in Range(g_mappings), d \in Range(g_lifted_deps) :
        \A n \in (world.imports[i] \cap world.exports[d]) \ world.overrides :
            bound[i][n][1] = "guest"
=============================================================================
