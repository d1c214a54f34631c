------------------------------ MODULE HostProofs ------------------------------
(***************************************************************************)
(* The stages of a boot and the services next to them, proved for every    *)
(* value of their constants.  The harness runs one component at a time, so *)
(* its behaviours are the component's with stuttering; each component has  *)
(* an inductive invariant of its own.                                      *)
(***************************************************************************)
EXTENDS MCHost, Sequences, FiniteSetTheorems, WellFoundedInduction, TLAPS

(* A nonempty set of naturals has a least member, which is what Min is.    *)
LEMMA Least ==
  ASSUME NEW S \in SUBSET Nat, S # {}
  PROVE  \E i \in S : \A j \in S : i <= j
<1>1. PICK i \in S : \A j \in S : ~ (<<j, i>> \in OpToRel(<, Nat))
  BY NatLessThanWellFounded, WFMin
<1>2. \A j \in S : ~ (j < i)
  BY <1>1 DEF OpToRel
<1> QED
  BY <1>2

-----------------------------------------------------------------------------
(* Linking.  Where a binding of image i may lead.                          *)
Leads(i, n, a) ==
  \/ a = Link!Host(n)
  \/ \E d \in Link!Range(g_deps) : a = Link!Guest(d, n) /\ n \in world.exports[d]
  \/ a = Link!Trap(i, n)

BoundWell(i) ==
  /\ DOMAIN bound[i] = world.imports[i]
  /\ \A n \in world.imports[i] : Leads(i, n, bound[i][n])

(* The bindings of one image are registered.                               *)
Registered(i) ==
  \A n \in world.imports[i] :
    /\ Link!IsNative(bound[i][n]) => bound[i][n] \in natives
    /\ bound[i][n][1] = "trap" => <<bound[i][n], n>> \in g_unresolved

(* Images are mapped as they are loaded, the engine last.                  *)
Mapped ==
  /\ phase = "deps" => g_mappings = g_deps
  /\ phase \in {"register", "ready"} => g_mappings = Append(g_deps, Engine)

(* As far as register_imports has come, everything is registered.          *)
Progress ==
  /\ phase = "register" =>
       /\ turn \in 1 .. Len(g_mappings)
       /\ \A k \in 1 .. turn - 1 : Registered(g_mappings[k])
  /\ phase = "ready" => \A k \in 1 .. Len(g_mappings) : Registered(g_mappings[k])

(* What the engine's imports are bound to once it is loaded.               *)
EngineBound ==
  phase \in {"register", "ready"} =>
    \A n \in world.imports[Engine] \ world.overrides :
      LET offers == {d \in Link!Range(g_deps) : n \in world.exports[d]}
          a    == bound[Engine][n]
      IN  /\ offers \cap world.lifted # {} =>
                \E d \in offers \cap world.lifted : a = Link!Guest(d, n)
          /\ offers \cap world.lifted = {} /\ n \in world.shim => a = Link!Host(n)
          /\ offers # {} => a[1] # "trap"

Answers == phase # "ready" => answered = {}

LinkInv ==
  /\ phase \in {"deps", "register", "ready", "ended"} /\ turn \in Nat \ {0}
  /\ g_deps \in Seq(Link!Images) /\ g_lifted_deps \in Seq(Link!Images)
  /\ g_mappings \in Seq(Link!Images)
  /\ Link!Range(g_lifted_deps) = Link!Range(g_deps) \cap world.lifted
  /\ Mapped
  /\ bound = [i \in Link!Images |-> bound[i]]
  /\ \A i \in Link!Range(g_mappings) : BoundWell(i)
  /\ Progress
  /\ EngineBound
  /\ \A a \in natives : a[1] = "host"
  /\ Answers
  /\ Link!AnswersKnown

(* Min of a nonempty set of naturals is its least member.                  *)
LEMMA LinkMin ==
  ASSUME NEW S \in SUBSET Nat, S # {}
  PROVE  Link!Min(S) \in S /\ \A y \in S : Link!Min(S) <= y
<1>1. \E x \in S : \A y \in S : x <= y
  BY Least
<1> QED
  BY <1>1 DEF Link!Min

(* Lookup in a list of images finds one that exports the name, or none     *)
(* does.                                                                   *)
LEMMA FirstOfFinds ==
  ASSUME NEW list \in Seq(Link!Images), NEW n
  PROVE  \/ /\ Link!FirstOf(list, n) = Link!NoAddress
            /\ \A i \in Link!Range(list) : n \notin world.exports[i]
         \/ \E i \in Link!Range(list) :
              n \in world.exports[i] /\ Link!FirstOf(list, n) = Link!Guest(i, n)
<1> DEFINE offers == {k \in DOMAIN list : n \in world.exports[list[k]]}
<1>1. offers \in SUBSET Nat
  OBVIOUS
<1>2. CASE offers = {}
  BY <1>2 DEF Link!FirstOf, Link!Range
<1>3. CASE offers # {}
  <2>1. Link!Min(offers) \in offers
    BY <1>1, <1>3, LinkMin
  <2>2. Link!FirstOf(list, n) = Link!Guest(list[Link!Min(offers)], n)
    BY <1>3 DEF Link!FirstOf
  <2> QED
    BY <2>1, <2>2 DEF Link!Range
<1> QED
  BY <1>2, <1>3

(* The first place that is an address is taken, if there is one.           *)
LEMMA FirstPlace ==
  ASSUME NEW p, NEW m \in DOMAIN p, DOMAIN p \subseteq Nat, p[m] # Link!NoAddress,
         \A k \in DOMAIN p : k < m => p[k] = Link!NoAddress
  PROVE  Link!InOrder(p) = p[m]
<1> DEFINE offers == {k \in DOMAIN p : p[k] # Link!NoAddress}
<1>1. offers \in SUBSET Nat /\ offers # {} /\ m \in offers /\ m \in Nat
  OBVIOUS
<1>2. PICK n : n = Link!Min(offers)
  OBVIOUS
<1>3. n \in offers /\ n <= m
  BY <1>1, <1>2, LinkMin
<1>4. n \in DOMAIN p /\ p[n] # Link!NoAddress /\ n \in Nat
  BY <1>1, <1>3
<1>5. n = m
  BY <1>1, <1>3, <1>4
<1> QED
  BY <1>1, <1>2, <1>5 DEF Link!InOrder

(* Of no address, none is.                                                 *)
LEMMA NoPlace ==
  ASSUME NEW p, \A k \in DOMAIN p : p[k] = Link!NoAddress
  PROVE  Link!InOrder(p) = Link!NoAddress
<1>1. {k \in DOMAIN p : p[k] # Link!NoAddress} = {}
  OBVIOUS
<1> QED
  BY <1>1 DEF Link!InOrder

(* The first of two, and of four places that is an address.                *)
LEMMA InOrderOfTwo ==
  ASSUME NEW a, NEW b
  PROVE  Link!InOrder(<<a, b>>) =
           IF a # Link!NoAddress THEN a ELSE IF b # Link!NoAddress THEN b ELSE Link!NoAddress
<1>1. PICK p : p = <<a, b>>
  OBVIOUS
<1>2. DOMAIN p = 1 .. 2 /\ p[1] = a /\ p[2] = b
  BY <1>1
<1>3. \A k \in 1 .. 2 : k = 1 \/ k = 2
  OBVIOUS
<1>4. CASE a # Link!NoAddress
  <2>1. \A k \in DOMAIN p : k < 1 => FALSE
    BY <1>2
  <2> QED
    BY <1>1, <1>2, <1>4, <2>1, FirstPlace
<1>5. CASE a = Link!NoAddress /\ b # Link!NoAddress
  <2>1. \A k \in DOMAIN p : k < 2 => p[k] = Link!NoAddress
    BY <1>2, <1>3, <1>5
  <2> QED
    BY <1>1, <1>2, <1>5, <2>1, FirstPlace
<1>6. CASE a = Link!NoAddress /\ b = Link!NoAddress
  <2>1. \A k \in DOMAIN p : p[k] = Link!NoAddress
    BY <1>2, <1>3, <1>6
  <2> QED
    BY <1>1, <1>6, <2>1, NoPlace
<1> QED
  BY <1>4, <1>5, <1>6

(* The same of four.                                                       *)
LEMMA InOrderOfFour ==
  ASSUME NEW a, NEW b, NEW c, NEW d
  PROVE  Link!InOrder(<<a, b, c, d>>) =
           IF a # Link!NoAddress THEN a ELSE IF b # Link!NoAddress THEN b
           ELSE IF c # Link!NoAddress THEN c ELSE IF d # Link!NoAddress THEN d
           ELSE Link!NoAddress
<1>1. PICK p : p = <<a, b, c, d>>
  OBVIOUS
<1>2. DOMAIN p = 1 .. 4 /\ p[1] = a /\ p[2] = b /\ p[3] = c /\ p[4] = d
  BY <1>1
<1>3. \A k \in 1 .. 4 : k = 1 \/ k = 2 \/ k = 3 \/ k = 4
  OBVIOUS
<1>4. CASE a # Link!NoAddress
  <2>1. \A k \in DOMAIN p : k < 1 => FALSE
    BY <1>2
  <2> QED
    BY <1>1, <1>2, <1>4, <2>1, FirstPlace
<1>5. CASE a = Link!NoAddress /\ b # Link!NoAddress
  <2>1. \A k \in DOMAIN p : k < 2 => p[k] = Link!NoAddress
    BY <1>2, <1>3, <1>5
  <2> QED
    BY <1>1, <1>2, <1>5, <2>1, FirstPlace
<1>6. CASE a = Link!NoAddress /\ b = Link!NoAddress /\ c # Link!NoAddress
  <2>1. \A k \in DOMAIN p : k < 3 => p[k] = Link!NoAddress
    BY <1>2, <1>3, <1>6
  <2> QED
    BY <1>1, <1>2, <1>6, <2>1, FirstPlace
<1>7. CASE a = Link!NoAddress /\ b = Link!NoAddress /\ c = Link!NoAddress /\ d # Link!NoAddress
  <2>1. \A k \in DOMAIN p : k < 4 => p[k] = Link!NoAddress
    BY <1>2, <1>3, <1>7
  <2> QED
    BY <1>1, <1>2, <1>7, <2>1, FirstPlace
<1>8. CASE a = Link!NoAddress /\ b = Link!NoAddress /\ c = Link!NoAddress /\ d = Link!NoAddress
  <2>1. \A k \in DOMAIN p : p[k] = Link!NoAddress
    BY <1>2, <1>3, <1>8
  <2> QED
    BY <1>1, <1>8, <2>1, NoPlace
<1> QED
  BY <1>4, <1>5, <1>6, <1>7, <1>8

(* Addresses of different kinds differ.                                    *)
LEMMA KindsDiffer ==
  ASSUME NEW n, NEW i
  PROVE  /\ Link!Host(n)[1] = "host" /\ Link!Guest(i, n)[1] = "guest"
         /\ Link!Guest(i, n)[2] = i /\ Link!Trap(i, n)[1] = "trap"
         /\ Link!Host(n) # Link!NoAddress /\ Link!Guest(i, n) # Link!NoAddress
         /\ Link!NoAddress[1] = "none"
  BY DEF Link!Host, Link!Guest, Link!Trap, Link!NoAddress

(* What resolve finds: an override, or a lifted dependency's, or the       *)
(* shim's, or another dependency's.                                        *)
LEMMA ResolveFinds ==
  ASSUME LinkInv, NEW n
  PROVE  LET a    == Link!Resolve(n)
             offers == {d \in Link!Range(g_deps) : n \in world.exports[d]}
         IN  /\ \/ a = Link!NoAddress
                \/ a = Link!Host(n)
                \/ \E d \in Link!Range(g_deps) : a = Link!Guest(d, n) /\ n \in world.exports[d]
             /\ n \notin world.overrides =>
                  /\ offers \cap world.lifted # {} =>
                        \E d \in offers \cap world.lifted : a = Link!Guest(d, n)
                  /\ offers \cap world.lifted = {} /\ n \in world.shim => a = Link!Host(n)
                  /\ offers # {} => a # Link!NoAddress
<1> DEFINE o == Link!Shim(world.overrides, n)
           l == Link!FirstOf(g_lifted_deps, n)
           s == Link!Shim(world.shim, n)
           g == Link!FirstOf(g_deps, n)
           No == Link!NoAddress
           offers == {d \in Link!Range(g_deps) : n \in world.exports[d]}
<1>1. Link!Resolve(n) = IF o # No THEN o ELSE IF l # No THEN l ELSE IF s # No THEN s
                        ELSE IF g # No THEN g ELSE No
  BY InOrderOfFour DEF Link!Resolve
<1>2. /\ \/ l = No /\ \A i \in Link!Range(g_lifted_deps) : n \notin world.exports[i]
         \/ \E i \in Link!Range(g_lifted_deps) : n \in world.exports[i] /\ l = Link!Guest(i, n)
      /\ \/ g = No /\ \A i \in Link!Range(g_deps) : n \notin world.exports[i]
         \/ \E i \in Link!Range(g_deps) : n \in world.exports[i] /\ g = Link!Guest(i, n)
  BY FirstOfFinds DEF LinkInv
<1>3. /\ o = IF n \in world.overrides THEN Link!Host(n) ELSE No
      /\ s = IF n \in world.shim THEN Link!Host(n) ELSE No
  BY DEF Link!Shim
<1>4. Link!Range(g_lifted_deps) = Link!Range(g_deps) \cap world.lifted
  BY DEF LinkInv
<1>5. Link!Host(n) # No /\ \A i : Link!Guest(i, n) # No
  BY KindsDiffer
<1>6. /\ offers \cap world.lifted = {d \in Link!Range(g_lifted_deps) : n \in world.exports[d]}
  BY <1>4
<1> HIDE DEF o, l, s, g, No
<1>7. Link!Resolve(n) \in {No, Link!Host(n)} \/
        \E d \in Link!Range(g_deps) : Link!Resolve(n) = Link!Guest(d, n) /\ n \in world.exports[d]
  BY <1>1, <1>2, <1>3, <1>4
<1>8. ASSUME n \notin world.overrides, offers \cap world.lifted # {}
      PROVE  \E d \in offers \cap world.lifted : Link!Resolve(n) = Link!Guest(d, n)
  <2>1. o = No /\ l # No
    BY <1>2, <1>3, <1>5, <1>6, <1>8
  <2> QED
    BY <1>1, <1>2, <1>6, <2>1
<1>9. ASSUME n \notin world.overrides, offers \cap world.lifted = {}
      PROVE  /\ n \in world.shim => Link!Resolve(n) = Link!Host(n)
             /\ offers # {} => Link!Resolve(n) # No
  <2>1. o = No /\ l = No
    BY <1>2, <1>3, <1>6, <1>9
  <2>2. offers # {} => g # No
    BY <1>2, <1>5
  <2> QED
    BY <1>1, <1>3, <1>5, <2>1, <2>2
<1>10. offers # {} /\ offers \cap world.lifted # {} /\ n \notin world.overrides => Link!Resolve(n) # No
  BY <1>5, <1>8
<1> QED
  BY <1>7, <1>8, <1>9, <1>10 DEF No

(* What is in a longer list.                                               *)
LEMMA AppendRange ==
  ASSUME NEW S, NEW s \in Seq(S), NEW x \in S
  PROVE  /\ Append(s, x) \in Seq(S) /\ Len(Append(s, x)) = Len(s) + 1
         /\ Append(s, x)[Len(s) + 1] = x
         /\ \A k \in 1 .. Len(s) : Append(s, x)[k] = s[k]
         /\ Link!Range(Append(s, x)) = Link!Range(s) \cup {x}
<1>1. /\ Append(s, x) \in Seq(S) /\ Len(Append(s, x)) = Len(s) + 1
      /\ Append(s, x)[Len(s) + 1] = x
      /\ \A k \in 1 .. Len(s) : Append(s, x)[k] = s[k]
      /\ DOMAIN s = 1 .. Len(s) /\ Len(s) \in Nat
      /\ DOMAIN Append(s, x) = 1 .. Len(s) + 1
  OBVIOUS
<1>2. 1 .. Len(s) + 1 = (1 .. Len(s)) \cup {Len(s) + 1}
  BY <1>1
<1> DEFINE t == Append(s, x)
<1> HIDE DEF t
<1>3. Link!Range(t) = {t[k] : k \in 1 .. Len(s)} \cup {t[Len(s) + 1]}
  BY <1>1, <1>2 DEF Link!Range, t
<1>4. {t[k] : k \in 1 .. Len(s)} = Link!Range(s)
  BY <1>1 DEF Link!Range, t
<1> QED
  BY <1>1, <1>3, <1>4 DEF t

(* A Load binds its own image well and leaves the others' bindings.        *)
LEMMA Binds ==
  ASSUME LinkInv, NEW i \in Link!Images, world' = world,
         bound' = [bound EXCEPT ![i] = Link!Bindings(i)],
         Link!Range(g_deps) \subseteq Link!Range(g_deps'),
         Link!Range(g_mappings') = Link!Range(g_mappings) \cup {i}
  PROVE  /\ bound' = [j \in Link!Images |-> bound'[j]]
         /\ \A j \in Link!Range(g_mappings') : BoundWell(j)'
         /\ \A n \in world.imports[i] :
              bound'[i][n] = IF Link!Resolve(n) = Link!NoAddress THEN Link!Trap(i, n)
                             ELSE Link!Resolve(n)
<1>1. bound = [j \in Link!Images |-> bound[j]] /\ \A j \in Link!Range(g_mappings) : BoundWell(j)
  BY DEF LinkInv
<1>2. bound'[i] = Link!Bindings(i) /\ \A j \in Link!Images : j # i => bound'[j] = bound[j]
  BY <1>1
<1>3. bound' = [j \in Link!Images |-> bound'[j]]
  BY <1>1
<1>4. /\ DOMAIN bound'[i] = world.imports[i]
      /\ \A n \in world.imports[i] :
           bound'[i][n] = IF Link!Resolve(n) = Link!NoAddress THEN Link!Trap(i, n)
                          ELSE Link!Resolve(n)
  BY <1>2 DEF Link!Bindings
<1>5. BoundWell(i)'
  <2> SUFFICES ASSUME NEW n \in world.imports[i] PROVE Leads(i, n, bound[i][n])'
    BY <1>4 DEF BoundWell, Leads
  <2>1. \/ Link!Resolve(n) = Link!NoAddress
        \/ Link!Resolve(n) = Link!Host(n)
        \/ \E d \in Link!Range(g_deps) : Link!Resolve(n) = Link!Guest(d, n) /\ n \in world.exports[d]
    BY ResolveFinds
  <2> QED
    BY <1>4, <2>1 DEF Leads
<1>6. \A j \in Link!Range(g_mappings) : j \in Link!Images
  BY DEF LinkInv, Link!Range
<1>7. ASSUME NEW j \in Link!Range(g_mappings), j # i PROVE BoundWell(j)'
  BY <1>1, <1>2, <1>6, <1>7 DEF BoundWell, Leads
<1> QED
  BY <1>3, <1>4, <1>5, <1>7

(* Nothing is loaded and nothing known when linking starts.                *)
LEMMA LinkBegins == Link!Start => LinkInv
<1> SUFFICES ASSUME Link!Start PROVE LinkInv
  OBVIOUS
<1>1. Link!Range(<<>>) = {}
  BY DEF Link!Range
<1> QED
  BY <1>1 DEF Link!Start, LinkInv, Mapped, Progress, EngineBound, Answers, Link!AnswersKnown

(* Where only the loop's counter moves, everything stays as it is.         *)
LEMMA LinkStays ==
  ASSUME LinkInv, phase' \in {phase, "ended"}, turn' \in Nat \ {0}, phase = "register" => turn' = turn,
         answered = {} \/ phase' = phase,
         UNCHANGED <<world, g_deps, g_lifted_deps, g_mappings, bound, natives, g_unresolved, answered>>
  PROVE  LinkInv'
<1>1. \A i \in Link!Range(g_mappings') : BoundWell(i)'
  BY DEF LinkInv, BoundWell, Leads
<1>2. \A a : Link!IsNative(a)' <=> Link!IsNative(a)
  BY DEF Link!IsNative, Link!in_guest_image
<1>3. \A k : Registered(g_mappings[k]) => Registered(g_mappings[k])'
  BY <1>2 DEF Registered
<1>4. Progress'
  BY <1>3 DEF LinkInv, Progress
<1>5. Mapped' /\ EngineBound' /\ Answers'
  BY DEF LinkInv, Mapped, EngineBound, Answers
<1>6. Link!AnswersKnown'
  BY DEF LinkInv, Link!AnswersKnown
<1> QED
  BY <1>1, <1>4, <1>5, <1>6 DEF LinkInv

(* A dependency is loaded, or passed over.                                 *)
LEMMA LoadDepKeeps ==
  ASSUME HostAssumption, LinkInv, Link!LoadDep
  PROVE  LinkInv'
<1>1. /\ phase = "deps" /\ phase' = "deps" /\ turn' = turn + 1 /\ answered' = answered
      /\ world' = world /\ natives' = natives /\ g_unresolved' = g_unresolved
  BY DEF Link!LoadDep
<1>2. CASE UNCHANGED <<g_deps, g_lifted_deps, g_mappings, bound>>
  <2>1. turn' \in Nat \ {0}
    BY <1>1 DEF LinkInv
  <2> QED
    BY <1>1, <1>2, <2>1, LinkStays
<1>3. ASSUME NEW i, i = Needed[turn], i \in world.shipped,
             bound' = [bound EXCEPT ![i] = Link!Bindings(i)],
             g_mappings' = Append(g_mappings, i), g_deps' = Append(g_deps, i),
             g_lifted_deps' = IF i \in world.lifted THEN Append(g_lifted_deps, i)
                              ELSE g_lifted_deps
      PROVE  LinkInv'
  <2>1. i \in Link!Images
    BY <1>3 DEF HostAssumption, Link!LinkingAssumption, Link!LoadDep, LinkInv, Link!Images
  <2>2. g_mappings = g_deps /\ answered = {}
    BY <1>1 DEF LinkInv, Mapped, Answers
  <2>3. /\ g_deps' \in Seq(Link!Images) /\ g_lifted_deps' \in Seq(Link!Images)
        /\ Link!Range(g_deps') = Link!Range(g_deps) \cup {i}
    BY <1>3, <2>1, AppendRange DEF LinkInv
  <2>4. Link!Range(g_lifted_deps') = Link!Range(g_deps') \cap world.lifted
    BY <1>3, <2>1, <2>3, AppendRange DEF LinkInv
  <2>5. /\ bound' = [j \in Link!Images |-> bound'[j]]
        /\ \A j \in Link!Range(g_mappings') : BoundWell(j)'
    BY <1>1, <1>3, <2>1, <2>2, <2>3, Binds
  <2> QED
    BY <1>1, <1>3, <2>2, <2>3, <2>4, <2>5
    DEF LinkInv, Mapped, Progress, EngineBound, Answers, Link!AnswersKnown
<1> QED
  BY <1>2, <1>3 DEF Link!LoadDep

(* The engine is loaded after its dependencies, or the boot ends.          *)
LEMMA LoadEngineKeeps ==
  ASSUME HostAssumption, LinkInv, Link!LoadEngine
  PROVE  LinkInv'
<1>1. /\ phase = "deps" /\ turn' = 1 /\ world' = world
      /\ UNCHANGED <<g_deps, g_lifted_deps, natives, g_unresolved, answered>>
  BY DEF Link!LoadEngine
<1>2. g_mappings = g_deps /\ answered = {}
  BY <1>1 DEF LinkInv, Mapped, Answers
<1>3. CASE phase' = "ended" /\ UNCHANGED <<bound, g_mappings>>
  BY <1>1, <1>2, <1>3, LinkStays
<1>4. CASE /\ phase' = "register" /\ bound' = [bound EXCEPT ![Engine] = Link!Bindings(Engine)]
           /\ g_mappings' = Append(g_mappings, Engine)
  <2>1. Engine \in Link!Images
    BY DEF Link!Images
  <2>2. /\ g_mappings' \in Seq(Link!Images) /\ Len(g_mappings') = Len(g_mappings) + 1
        /\ Link!Range(g_mappings') = Link!Range(g_mappings) \cup {Engine}
        /\ Len(g_mappings) \in Nat
    BY <1>4, <2>1, AppendRange DEF LinkInv
  <2>3. /\ bound' = [j \in Link!Images |-> bound'[j]]
        /\ \A j \in Link!Range(g_mappings') : BoundWell(j)'
        /\ \A n \in world.imports[Engine] :
              bound'[Engine][n] = IF Link!Resolve(n) = Link!NoAddress THEN Link!Trap(Engine, n)
                                  ELSE Link!Resolve(n)
    BY <1>1, <1>4, <2>1, <2>2, Binds
  <2>4. EngineBound'
    <3> SUFFICES ASSUME NEW n \in world.imports[Engine], n \notin world.overrides
                 PROVE  LET offers == {d \in Link!Range(g_deps) : n \in world.exports[d]}
                            a      == bound'[Engine][n]
                        IN  /\ offers \cap world.lifted # {} =>
                                  \E d \in offers \cap world.lifted : a = Link!Guest(d, n)
                            /\ offers \cap world.lifted = {} /\ n \in world.shim => a = Link!Host(n)
                            /\ offers # {} => a[1] # "trap"
      BY <1>1 DEF EngineBound
    <3> DEFINE offers == {d \in Link!Range(g_deps) : n \in world.exports[d]}
               a      == Link!Resolve(n)
               b      == bound'[Engine][n]
    <3>1. /\ \/ a = Link!NoAddress
             \/ a = Link!Host(n)
             \/ \E d \in Link!Range(g_deps) : a = Link!Guest(d, n) /\ n \in world.exports[d]
          /\ offers \cap world.lifted # {} =>
                \E d \in offers \cap world.lifted : a = Link!Guest(d, n)
          /\ offers \cap world.lifted = {} /\ n \in world.shim => a = Link!Host(n)
          /\ offers # {} => a # Link!NoAddress
      BY ResolveFinds
    <3>2. a # Link!NoAddress => b = a /\ b[1] # "trap"
      <4>1. \A d : Link!Guest(d, n)[1] = "guest" /\ Link!Host(n)[1] = "host"
        BY KindsDiffer
      <4>2. b = IF a = Link!NoAddress THEN Link!Trap(Engine, n) ELSE a
        BY <2>3
      <4> HIDE DEF a, b
      <4> QED
        BY <3>1, <4>1, <4>2
    <3>3. Link!Host(n) # Link!NoAddress /\ \A d : Link!Guest(d, n) # Link!NoAddress
      BY KindsDiffer
    <3> HIDE DEF a, b, offers
    <3>4. /\ offers \cap world.lifted # {} =>
                \E d \in offers \cap world.lifted : b = Link!Guest(d, n)
          /\ offers \cap world.lifted = {} /\ n \in world.shim => b = Link!Host(n)
          /\ offers # {} => b[1] # "trap"
      BY <3>1, <3>2, <3>3
    <3> QED
      BY <3>4 DEF b, offers
  <2>5. Progress'
    BY <1>1, <1>4, <2>2 DEF Progress
  <2> QED
    BY <1>1, <1>2, <1>4, <2>2, <2>3, <2>4, <2>5 DEF LinkInv, Mapped, Answers, Link!AnswersKnown
<1> QED
  BY <1>3, <1>4 DEF Link!LoadEngine

(* Of a binding only the host's own functions count as native.             *)
LEMMA NativeIsHost ==
  ASSUME LinkInv, phase \in {"register", "ready"}, NEW i, NEW n, NEW a, Leads(i, n, a)
  PROVE  Link!IsNative(a) <=> a = Link!Host(n)
<1>1. g_mappings = Append(g_deps, Engine)
  BY DEF LinkInv, Mapped
<1>2. Link!Range(g_deps) \subseteq Link!Range(g_mappings)
  <2>1. Engine \in Link!Images
    BY DEF Link!Images
  <2> QED
    BY <1>1, <2>1, AppendRange DEF LinkInv
<1> QED
  BY <1>2, KindsDiffer DEF Leads, Link!IsNative, Link!in_guest_image

(* register_imports of one image.                                          *)
LEMMA RegisterKeeps ==
  ASSUME LinkInv, Link!RegisterImports
  PROVE  LinkInv'
<1>1. /\ phase = "register" /\ turn' = turn + 1
      /\ UNCHANGED <<world, g_deps, g_lifted_deps, g_mappings, bound, answered>>
  BY DEF Link!RegisterImports
<1>2. g_mappings = Append(g_deps, Engine)
  BY <1>1 DEF LinkInv, Mapped
<1>3. PICK j : j = g_mappings[turn]
  OBVIOUS
<1> DEFINE b == bound[j]
<1>4. /\ natives' = natives \cup {b[n] : n \in {m \in DOMAIN b : Link!IsNative(b[m])}}
      /\ g_unresolved' = g_unresolved \cup {<<b[n], n>> : n \in {m \in DOMAIN b : b[m][1] = "trap"}}
      /\ phase' = IF turn = Len(g_mappings) THEN "ready" ELSE phase
  BY <1>2, <1>3 DEF Link!RegisterImports
<1>5. turn \in 1 .. Len(g_mappings) /\ \A k \in 1 .. turn - 1 : Registered(g_mappings[k])
  BY <1>1 DEF LinkInv, Progress
<1>6. j \in Link!Range(g_mappings) /\ BoundWell(j)
  BY <1>3, <1>5 DEF LinkInv, Link!Range
<1>7. \A a : Link!IsNative(a)' <=> Link!IsNative(a)
  BY <1>1 DEF Link!IsNative, Link!in_guest_image
<1>8. \A k \in 1 .. turn : Registered(g_mappings[k])'
  <2> SUFFICES ASSUME NEW k \in 1 .. turn PROVE Registered(g_mappings[k])'
    OBVIOUS
  <2>1. CASE k = turn
    <3>1. DOMAIN b = world.imports[j]
      BY <1>6 DEF BoundWell
    <3>2. Registered(j)'
      BY <1>1, <1>4, <1>7, <3>1 DEF Registered
    <3>3. g_mappings'[k] = j
      BY <1>1, <1>3, <2>1
    <3> QED
      BY <3>2, <3>3 DEF Registered
  <2>2. CASE k # turn
    <3>1. Registered(g_mappings[k])
      BY <1>5, <2>2
    <3>2. natives \subseteq natives' /\ g_unresolved \subseteq g_unresolved'
      BY <1>4
    <3> QED
      BY <1>1, <1>7, <3>1, <3>2 DEF Registered
  <2> QED
    BY <2>1, <2>2
<1>9. Progress'
  <2>1. CASE turn = Len(g_mappings)
    <3>1. phase' = "ready" /\ Len(g_mappings') = turn
      BY <1>1, <1>4, <2>1
    <3> QED
      BY <1>8, <3>1 DEF Progress
  <2>2. CASE turn # Len(g_mappings)
    <3>1. turn' \in 1 .. Len(g_mappings') /\ phase' = "register" /\ turn' - 1 = turn
      BY <1>1, <1>4, <1>5, <2>2 DEF LinkInv
    <3> QED
      BY <1>8, <3>1 DEF Progress
  <2> QED
    BY <2>1, <2>2
<1>10. \A a \in natives' : a[1] = "host"
  <2> SUFFICES ASSUME NEW n \in DOMAIN b, Link!IsNative(b[n]) PROVE b[n][1] = "host"
    BY <1>4 DEF LinkInv
  <2>1. Leads(j, n, b[n])
    BY <1>6 DEF BoundWell
  <2> QED
    BY <1>1, <2>1, NativeIsHost, KindsDiffer
<1>11. answered = {} /\ phase' \in {"register", "ready"} /\ turn' \in Nat \ {0}
  BY <1>1, <1>4 DEF LinkInv, Answers
<1> QED
  BY <1>1, <1>2, <1>9, <1>10, <1>11
  DEF LinkInv, BoundWell, Leads, Mapped, EngineBound, Answers, Link!AnswersKnown

(* A function found by name at run time.                                   *)
LEMMA DlsymKeeps ==
  ASSUME LinkInv, NEW n, Link!Dlsym(n)
  PROVE  LinkInv'
<1> DEFINE f == Link!FirstOf(g_mappings, n)
           s == Link!Shim(world.shim, n)
           a == Link!InOrder(<<f, s>>)
<1>1. /\ phase = "ready" /\ natives' = Link!HandOut(a)
      /\ answered' = answered \cup {<<n, a>>}
      /\ UNCHANGED <<world, turn, phase, g_deps, g_lifted_deps, g_mappings, bound, g_unresolved>>
  BY DEF Link!Dlsym
<1>2. a = IF f # Link!NoAddress THEN f ELSE IF s # Link!NoAddress THEN s ELSE Link!NoAddress
  BY InOrderOfTwo
<1>3. \/ f = Link!NoAddress /\ \A i \in Link!Range(g_mappings) : n \notin world.exports[i]
      \/ \E i \in Link!Range(g_mappings) : n \in world.exports[i] /\ f = Link!Guest(i, n)
  BY FirstOfFinds DEF LinkInv
<1>4. s = IF n \in world.shim THEN Link!Host(n) ELSE Link!NoAddress
  BY DEF Link!Shim
<1> HIDE DEF f, s, a
<1>5. \/ \E i \in Link!Range(g_mappings) : a = Link!Guest(i, n) /\ n \in world.exports[i]
      \/ a = Link!Host(n)
      \/ /\ a = Link!NoAddress /\ n \notin world.shim
         /\ \A i \in Link!Range(g_mappings) : n \notin world.exports[i]
  BY <1>2, <1>3, <1>4, KindsDiffer
<1>6. natives \subseteq natives' /\ \A m \in natives' : m \in natives \/ (m = a /\ a[1] = "host")
  BY <1>1 DEF Link!HandOut
<1>7. a = Link!Host(n) => a \in natives'
  BY <1>1, KindsDiffer DEF Link!HandOut
<1>8. \A m \in natives' : m[1] = "host"
  BY <1>6 DEF LinkInv
<1>9. Progress'
  <2>1. \A k \in 1 .. Len(g_mappings) : Registered(g_mappings[k])'
    BY <1>1, <1>6 DEF LinkInv, Progress, Registered, Link!IsNative, Link!in_guest_image
  <2> QED
    BY <1>1, <2>1 DEF Progress
<1>10. Link!AnswersKnown'
  <2> SUFFICES ASSUME NEW q \in answered'
               PROVE  \/ \E i \in Link!Range(g_mappings) : q[2] = Link!Guest(i, q[1]) /\ q[1] \in world.exports[i]
                      \/ q[2] = Link!Host(q[1]) /\ q[2] \in natives'
                      \/ /\ q[2] = Link!NoAddress /\ q[1] \notin world.shim
                         /\ \A i \in Link!Range(g_mappings) : q[1] \notin world.exports[i]
    BY <1>1 DEF Link!AnswersKnown
  <2>1. CASE q \in answered
    BY <1>6, <2>1 DEF LinkInv, Link!AnswersKnown
  <2>2. CASE q = <<n, a>>
    <3>1. q[1] = n /\ q[2] = a
      BY <2>2
    <3> QED
      BY <1>5, <1>7, <3>1
  <2> QED
    BY <1>1, <2>1, <2>2
<1> QED
  BY <1>1, <1>8, <1>9, <1>10 DEF LinkInv, BoundWell, Leads, Mapped, EngineBound, Answers

(* One case per step of the boot.                                          *)
LEMMA LinkKeeps ==
  ASSUME HostAssumption, LinkInv, Link!Next \/ UNCHANGED linkVars
  PROVE  LinkInv'
<1>1. CASE UNCHANGED linkVars
  BY <1>1, LinkStays DEF linkVars, LinkInv
<1> QED
  BY <1>1, LoadDepKeeps, LoadEngineKeeps, RegisterKeeps, DlsymKeeps DEF Link!Next

(* What the invariant says once the guest may start.                       *)
LEMMA LinkSound == LinkInv => EveryImportKnown
<1> SUFFICES ASSUME LinkInv PROVE EveryImportKnown
  OBVIOUS
<1>1. Link!EveryImportKnown
  <2> SUFFICES ASSUME phase = "ready"
               PROVE  /\ \A i \in Link!Range(g_mappings) : \A n \in world.imports[i] :
                            \/ bound[i][n] = Link!Host(n) /\ bound[i][n] \in natives
                            \/ \E d \in Link!Range(g_deps) : /\ bound[i][n] = Link!Guest(d, n)
                                                             /\ n \in world.exports[d]
                            \/ <<bound[i][n], n>> \in g_unresolved
                      /\ \A a \in natives : a[1] = "host"
    BY DEF Link!EveryImportKnown
  <2> SUFFICES ASSUME NEW i \in Link!Range(g_mappings), NEW n \in world.imports[i]
               PROVE  \/ bound[i][n] = Link!Host(n) /\ bound[i][n] \in natives
                      \/ \E d \in Link!Range(g_deps) : /\ bound[i][n] = Link!Guest(d, n)
                                                       /\ n \in world.exports[d]
                      \/ <<bound[i][n], n>> \in g_unresolved
    BY DEF LinkInv
  <2>1. Leads(i, n, bound[i][n])
    BY DEF LinkInv, BoundWell
  <2>2. Registered(i)
    BY DEF LinkInv, Progress, Link!Range
  <2>3. bound[i][n] = Link!Host(n) => bound[i][n] \in natives
    BY <2>1, <2>2, NativeIsHost DEF Registered
  <2>4. bound[i][n] = Link!Trap(i, n) => <<bound[i][n], n>> \in g_unresolved
    BY <2>2, KindsDiffer DEF Registered
  <2> QED
    BY <2>1, <2>3, <2>4 DEF Leads
<1>2. Link!EngineBinding
  BY DEF LinkInv, EngineBound, Link!EngineBinding
<1> QED
  BY <1>1, <1>2 DEF LinkInv, EveryImportKnown

-----------------------------------------------------------------------------
(* FrameLoop.  Main waits for one call at a time, and goes on where the    *)
(* call says; while no call is under way nobody runs the guest, and the    *)
(* context is on no thread of the guest's.                                 *)
CallInv ==
  /\ pc \in {"entries", "pump", "resize", "touch", "steps", "render", "present", "ended"}
  /\ guest \in {"none", "starting", "entry", "main"}
  /\ call = Loop!NoCall <=> guest = "none"
  /\ guest # "none" =>
       \/ pc = "entries" /\ call.then = "entries"
       \/ pc \in {"resize", "touch"} /\ call.then = "touch"
       \/ pc = "steps" /\ call.then = "steps"
       \/ pc = "render" /\ call.then = "present"
  /\ holder \in {"main", "none", "entry"} /\ denied \in BOOLEAN
  /\ guest = "none" => holder # "entry"
  /\ guest \in {"starting", "main"} => holder = "none"
  /\ guest = "entry" /\ ~denied => holder = "entry"

(* The touch made last, which the guest may have been handed already; the  *)
(* next one starts from where it ended.                                    *)
LastTouch == IF pointers_ = <<>> THEN heard ELSE pointers_[Len(pointers_)]

TouchInv ==
  /\ pointers_ \in Seq(Loop!Touch) /\ heard \in Loop!Touch /\ last_ \in Places
  /\ down_ \in BOOLEAN /\ down_ = pressed
  /\ pointers_ # <<>> => Loop!Follows(heard, pointers_[1])
  /\ \A k \in 1 .. Len(pointers_) - 1 : Loop!Follows(pointers_[k], pointers_[k + 1])
  /\ down_ <=> LastTouch.kind # "Up"
  /\ down_ => LastTouch.at = last_

(* The steps of the frame that were come past have been taken.             *)
StepInv ==
  /\ step \in Nat \ {0} /\ frames \in Nat
  /\ issued \in [Loop!StepIds -> BOOLEAN] /\ taken \in [Loop!StepIds -> Nat]
  /\ Loop!StepsOnce
  /\ pc = "entries" => \A i \in Loop!StepIds : i >= step /\ Steps[i] = 0 => taken[i] = 0
  /\ pc = "steps" => \A i \in Loop!StepIds : i < step /\ Steps[i] = frames + 1 => taken[i] = 1
  /\ pc \in {"render", "present"} =>
       \A i \in Loop!StepIds : Steps[i] = frames + 1 => taken[i] = 1

LoopInv == CallInv /\ TouchInv /\ StepInv

(* The loop begins with the context on main and nothing heard or taken.    *)
LEMMA LoopBegins == HostAssumption /\ Loop!Init => LoopInv
<1> SUFFICES ASSUME HostAssumption, Loop!Init PROVE LoopInv
  OBVIOUS
<1>1. Steps \in Seq(Nat)
  BY DEF HostAssumption, Loop!LoopAssumption
<1>2. CallInv
  BY DEF Loop!Init, CallInv, Loop!NoCall
<1>3. TouchInv
  <2>1. /\ pointers_ = <<>> /\ Len(pointers_) = 0 /\ last_ \in Places /\ down_ = FALSE
        /\ pressed = FALSE /\ heard = [kind |-> "Up", at |-> last_, from |-> last_]
    BY DEF Loop!Init
  <2>2. heard \in Loop!Touch /\ heard.kind = "Up" /\ pointers_ \in Seq(Loop!Touch)
    BY <2>1 DEF Loop!Touch
  <2>3. LastTouch = heard
    BY <2>1 DEF LastTouch
  <2>4. ~(1 \in 1 .. Len(pointers_) - 1) /\ \A k \in 1 .. Len(pointers_) - 1 : FALSE
    BY <2>1
  <2>5. down_ <=> LastTouch.kind # "Up"
    BY <2>1, <2>2, <2>3
  <2>6. \A k \in 1 .. Len(pointers_) - 1 : Loop!Follows(pointers_[k], pointers_[k + 1])
    BY <2>4
  <2> QED
    BY <2>1, <2>2, <2>5, <2>6 DEF TouchInv
<1>4. StepInv
  <2>1. /\ step = 1 /\ frames = 0 /\ pc = "entries"
        /\ issued = [i \in Loop!StepIds |-> FALSE] /\ taken = [i \in Loop!StepIds |-> 0]
    BY DEF Loop!Init
  <2>2. \A i \in Loop!StepIds : Steps[i] \in Nat /\ taken[i] = 0 /\ issued[i] = FALSE
    BY <1>1, <2>1 DEF Loop!StepIds
  <2>3. issued \in [Loop!StepIds -> BOOLEAN] /\ taken \in [Loop!StepIds -> Nat]
    BY <2>1
  <2>4. Loop!StepsOnce
    <3> SUFFICES ASSUME NEW i \in Loop!StepIds
                 PROVE  /\ taken[i] <= 1 /\ (taken[i] = 1) = issued[i]
                        /\ taken[i] = 0 /\ (0 < Steps[i] /\ Steps[i] <= frames => taken[i] = 1)
      BY DEF Loop!StepsOnce
    <3>1. taken[i] = 0 /\ issued[i] = FALSE /\ Steps[i] \in Nat
      BY <2>2
    <3>2. taken[i] # 1
      BY <3>1
    <3>3. (taken[i] = 1) = issued[i]
      BY <3>1, <3>2, Zenon
    <3>4. taken[i] <= 1 /\ (0 < Steps[i] /\ Steps[i] <= frames => taken[i] = 1)
      BY <2>1, <3>1
    <3> QED
      BY <3>1, <3>3, <3>4
  <2> QED
    BY <2>1, <2>2, <2>3, <2>4 DEF StepInv
<1> QED
  BY <1>2, <1>3, <1>4 DEF LoopInv

(* A call that main makes: the context is given up with it.                *)
LEMMA Calling ==
  ASSUME CallInv, call = Loop!NoCall, NEW what, NEW then, what # "none",
         Loop!CallGuest(what, then), pc' = pc,
         \/ pc = "entries" /\ then = "entries"
         \/ pc \in {"resize", "touch"} /\ then = "touch"
         \/ pc = "steps" /\ then = "steps"
         \/ pc = "render" /\ then = "present"
  PROVE  CallInv'
<1>1. call' = [what |-> what, then |-> then] /\ guest' = "starting" /\ denied' = FALSE
      /\ holder' = IF holder = "main" THEN "none" ELSE holder
  BY DEF Loop!CallGuest
<1>2. guest = "none" /\ call'.what # Loop!NoCall.what /\ call'.then = then
  BY <1>1 DEF CallInv, Loop!NoCall
<1>3. call' # Loop!NoCall
  BY <1>2
<1> QED
  BY <1>1, <1>2, <1>3 DEF CallInv

(* Calls, threads and the context: one case per step.                      *)
LEMMA CallsKeepInv ==
  ASSUME CallInv, Loop!Next \/ UNCHANGED loopVars
  PROVE  CallInv'
<1>1. CASE UNCHANGED loopVars
  BY <1>1 DEF loopVars, CallInv
<1>2. CASE UNCHANGED <<call, guest, holder, denied>> /\ call = Loop!NoCall
           /\ pc' \in {"entries", "pump", "resize", "touch", "steps", "render", "present", "ended"}
  BY <1>2 DEF CallInv
<1>3. ASSUME NEW i, NEW at \in {"entries", "steps"}, pc = at, call = Loop!NoCall, Loop!RunEntry(i, at)
      PROVE  CallInv'
  <2>1. CASE Loop!CallGuest("step", at) /\ UNCHANGED pc
    BY <1>3, <2>1, Calling
  <2>2. CASE pc' = "ended" /\ UNCHANGED <<call, guest, holder, denied>>
    BY <1>2, <1>3, <2>2
  <2> QED
    BY <1>3, <2>1, <2>2 DEF Loop!RunEntry
<1>4. CASE Loop!Entries
  BY <1>2, <1>3, <1>4 DEF Loop!Entries, Loop!Main
<1>5. CASE Loop!StartOnThread
  BY <1>5 DEF Loop!StartOnThread, CallInv
<1>6. CASE Loop!StartOnMain
  BY <1>6 DEF Loop!StartOnMain, CallInv
<1>7. CASE Loop!GuestReturns
  <2>1. /\ guest' = "none" /\ call' = Loop!NoCall /\ pc' = call.then /\ denied' = denied
        /\ holder' = (IF guest = "entry" /\ holder = "entry" THEN "none" ELSE holder)
        /\ guest \in {"entry", "main"}
    BY <1>7 DEF Loop!GuestReturns, Loop!HandBack
  <2> QED
    BY <2>1 DEF CallInv
<1>8. ASSUME NEW event, Loop!Pumping(event) PROVE CallInv'
  BY <1>8 DEF Loop!Pumping, CallInv
<1>9. CASE Loop!PumpDone
  BY <1>2, <1>9 DEF Loop!PumpDone, Loop!Main
<1>10. CASE Loop!TakeResized
  <2>1. CASE Loop!CallGuest("resize", "touch") /\ UNCHANGED pc
    BY <1>10, <2>1, Calling DEF Loop!TakeResized, Loop!Main
  <2>2. CASE pc' = "touch" /\ UNCHANGED <<call, guest, holder, denied>>
    BY <1>2, <1>10, <2>2 DEF Loop!TakeResized, Loop!Main
  <2> QED
    BY <1>10, <2>1, <2>2 DEF Loop!TakeResized
<1>11. CASE Loop!HandTouch
  <2>1. pc = "touch" /\ pc' = pc /\ call = Loop!NoCall
    BY <1>11 DEF Loop!HandTouch, Loop!Main
  <2>2. CASE Loop!CallGuest("touch", "touch")
    BY <2>1, <2>2, Calling
  <2>3. CASE UNCHANGED <<call, guest, holder, denied>>
    BY <1>2, <2>1, <2>3
  <2> QED
    BY <1>11, <2>2, <2>3 DEF Loop!HandTouch
<1>12. CASE Loop!TouchesDone
  BY <1>2, <1>12 DEF Loop!TouchesDone, Loop!Main
<1>13. CASE Loop!FrameSteps
  BY <1>2, <1>3, <1>13 DEF Loop!FrameSteps, Loop!Main
<1>14. CASE Loop!Render
  BY <1>14, Calling DEF Loop!Render, Loop!Main
<1>15. CASE Loop!Present
  <2>1. /\ call = Loop!NoCall /\ UNCHANGED <<call, guest, denied>>
        /\ holder' \in {holder, "none"} /\ pc' \in {"ended", "pump"}
    BY <1>15 DEF Loop!Present, Loop!Main
  <2> QED
    BY <2>1 DEF CallInv
<1> QED
  BY <1>1, <1>4, <1>5, <1>6, <1>7, <1>8, <1>9, <1>10, <1>11, <1>12, <1>13, <1>14, <1>15
  DEF Loop!Next

(* A touch that is queued follows the one made last.                       *)
LEMMA Queueing ==
  ASSUME TouchInv, NEW kind \in {"Down", "Move", "Up"}, NEW at \in Places, NEW from \in Places,
         Loop!Queue(kind, at, from), heard' = heard,
         last_' = at, down_' = (kind # "Up"), pressed' = down_',
         kind = "Down" <=> ~down_, kind # "Down" => from = last_
  PROVE  TouchInv'
<1> DEFINE q == [kind |-> kind, at |-> at, from |-> from]
<1>1. pointers_' = Append(pointers_, q) /\ q \in Loop!Touch
  BY DEF Loop!Queue, Loop!Touch
<1>2. /\ pointers_' \in Seq(Loop!Touch) /\ Len(pointers_') = Len(pointers_) + 1
      /\ pointers_'[Len(pointers_) + 1] = q /\ Len(pointers_) \in Nat
      /\ \A k \in 1 .. Len(pointers_) : pointers_'[k] = pointers_[k]
  BY <1>1 DEF TouchInv
<1>3. Loop!Follows(LastTouch, q)
  BY DEF TouchInv, Loop!Follows
<1>4. pointers_' # <<>> /\ LastTouch' = q
  BY <1>2 DEF LastTouch
<1>5. Loop!Follows(heard, pointers_'[1])
  <2>1. CASE pointers_ = <<>>
    BY <1>2, <1>3, <2>1 DEF LastTouch
  <2>2. CASE pointers_ # <<>>
    <3>1. 1 \in 1 .. Len(pointers_)
      BY <1>2, <2>2 DEF TouchInv
    <3> QED
      BY <1>2, <2>2, <3>1 DEF TouchInv
  <2> QED
    BY <2>1, <2>2
<1>6. \A k \in 1 .. Len(pointers_') - 1 : Loop!Follows(pointers_'[k], pointers_'[k + 1])
  <2> SUFFICES ASSUME NEW k \in 1 .. Len(pointers_)
               PROVE  Loop!Follows(pointers_'[k], pointers_'[k + 1])
    BY <1>2
  <2>1. CASE k = Len(pointers_)
    <3>1. pointers_ # <<>> /\ pointers_'[k] = LastTouch /\ pointers_'[k + 1] = q
      BY <1>2, <2>1 DEF LastTouch
    <3> QED
      BY <1>3, <3>1
  <2>2. CASE k # Len(pointers_)
    <3>1. k \in 1 .. Len(pointers_) - 1 /\ k + 1 \in 1 .. Len(pointers_)
      BY <1>2, <2>2
    <3> QED
      BY <1>2, <3>1 DEF TouchInv
  <2> QED
    BY <2>1, <2>2
<1>7. q.kind = kind /\ q.at = at
  OBVIOUS
<1> HIDE DEF q
<1> QED
  BY <1>2, <1>4, <1>5, <1>6, <1>7 DEF TouchInv

(* Touches: only the window's events and the hand-over change them.        *)
LEMMA TouchesKeepInv ==
  ASSUME TouchInv, Loop!Next \/ UNCHANGED loopVars
  PROVE  TouchInv'
<1>1. CASE UNCHANGED <<down_, last_, pointers_, pressed, heard>>
  BY <1>1 DEF TouchInv, LastTouch
<1>2. ASSUME NEW at \in Places, Loop!Pumping(Loop!Pressed(at)) PROVE TouchInv'
  <2>1. ~pressed /\ pressed' = TRUE /\ down_' = TRUE /\ last_' = at /\ Loop!Queue("Down", at, at)
        /\ heard' = heard
    BY <1>2 DEF Loop!Pumping, Loop!Pressed
  <2> QED
    BY <2>1, Queueing DEF TouchInv
<1>3. ASSUME NEW at \in Places, Loop!Pumping(Loop!Released(at)) PROVE TouchInv'
  <2>1. pressed /\ pressed' = FALSE /\ heard' = heard /\ down_
    BY <1>3 DEF Loop!Pumping, Loop!Released, TouchInv
  <2>2. down_' = FALSE /\ last_' = at /\ Loop!Queue("Up", at, last_)
    BY <1>3, <2>1 DEF Loop!Pumping, Loop!Released
  <2>3. last_ \in Places
    BY DEF TouchInv
  <2> QED
    BY <2>1, <2>2, <2>3, Queueing
<1>4. ASSUME NEW at \in Places, Loop!Pumping(Loop!Moved(at)) PROVE TouchInv'
  <2>1. heard' = heard /\ down_' = down_ /\ pressed' = pressed
    BY <1>4 DEF Loop!Pumping, Loop!Moved
  <2>2. CASE down_
    <3>1. last_' = at /\ Loop!Queue("Move", at, last_)
      BY <1>4, <2>2 DEF Loop!Pumping, Loop!Moved
    <3>2. last_ \in Places /\ down_' = TRUE /\ pressed' = TRUE
      BY <2>1, <2>2 DEF TouchInv
    <3> QED
      BY <2>1, <2>2, <3>1, <3>2, Queueing
  <2>3. CASE ~down_
    BY <1>1, <1>4, <2>1, <2>3 DEF Loop!Pumping, Loop!Moved
  <2> QED
    BY <2>2, <2>3
<1>5. CASE Loop!Pumping(Loop!Resized) \/ Loop!Pumping(Loop!Closed)
  BY <1>1, <1>5 DEF Loop!Pumping, Loop!Resized, Loop!Closed, Loop!window
<1>6. CASE Loop!HandTouch
  <2>1. /\ pointers_ # <<>> /\ heard' = pointers_[1] /\ pointers_' = Tail(pointers_)
        /\ UNCHANGED <<down_, last_, pressed>>
    BY <1>6 DEF Loop!HandTouch, Loop!NextPointer, TouchInv
  <2>2. /\ pointers_' \in Seq(Loop!Touch) /\ Len(pointers_') = Len(pointers_) - 1
        /\ Len(pointers_) \in Nat \ {0}
        /\ \A k \in 1 .. Len(pointers_) - 1 : pointers_'[k] = pointers_[k + 1]
    BY <2>1 DEF TouchInv
  <2>3. heard' \in Loop!Touch
    BY <2>1, <2>2 DEF TouchInv
  <2>4. LastTouch' = LastTouch
    <3>1. CASE Len(pointers_) = 1
      BY <2>1, <2>2, <3>1 DEF LastTouch
    <3>2. CASE Len(pointers_) # 1
      <4>1. pointers_' # <<>> /\ Len(pointers_') \in 1 .. Len(pointers_) - 1
        BY <2>2, <3>2
      <4> QED
        BY <2>1, <2>2, <4>1 DEF LastTouch
    <3> QED
      BY <3>1, <3>2
  <2>5. pointers_' # <<>> => Loop!Follows(heard', pointers_'[1])
    <3> SUFFICES ASSUME pointers_' # <<>> PROVE Loop!Follows(heard', pointers_'[1])
      OBVIOUS
    <3>1. 1 \in 1 .. Len(pointers_) - 1
      BY <2>2
    <3> QED
      BY <2>1, <2>2, <3>1 DEF TouchInv
  <2>6. \A k \in 1 .. Len(pointers_') - 1 : Loop!Follows(pointers_'[k], pointers_'[k + 1])
    <3> SUFFICES ASSUME NEW k \in 1 .. Len(pointers_') - 1
                 PROVE  Loop!Follows(pointers_'[k], pointers_'[k + 1])
      OBVIOUS
    <3>1. k \in 1 .. Len(pointers_) - 1 /\ k + 1 \in 1 .. Len(pointers_) - 1
      BY <2>2
    <3> QED
      BY <2>2, <3>1 DEF TouchInv
  <2> QED
    BY <2>1, <2>2, <2>3, <2>4, <2>5, <2>6 DEF TouchInv
<1>7. CASE \/ Loop!Entries \/ Loop!StartOnThread \/ Loop!StartOnMain \/ Loop!GuestReturns
           \/ Loop!PumpDone \/ Loop!TakeResized \/ Loop!TouchesDone \/ Loop!FrameSteps
           \/ Loop!Render \/ Loop!Present
  BY <1>1, <1>7 DEF Loop!Entries, Loop!StartOnThread, Loop!StartOnMain, Loop!GuestReturns,
       Loop!PumpDone, Loop!TakeResized, Loop!TouchesDone, Loop!FrameSteps, Loop!Render,
       Loop!Present, Loop!window
<1>8. CASE UNCHANGED loopVars
  BY <1>1, <1>8 DEF loopVars
<1> QED
  BY <1>2, <1>3, <1>4, <1>5, <1>6, <1>7, <1>8 DEF Loop!Next

(* A step that touches neither frames nor steps.                           *)
LEMMA StepsStay ==
  ASSUME StepInv, UNCHANGED <<step, frames, issued, taken>>,
         \/ pc' = pc
         \/ pc' \in {"pump", "resize", "touch", "ended"} /\ (pc' = "ended" \/ pc # "ended")
         \/ pc = "render" /\ pc' = "present"
  PROVE  StepInv'
<1>1. Loop!StepsOnce'
  BY DEF StepInv, Loop!StepsOnce
<1> QED
  BY <1>1 DEF StepInv

(* Steps: what a frame's turn has come past has been taken, once.          *)
LEMMA StepsKeepInv ==
  ASSUME HostAssumption, CallInv, StepInv, Loop!Next \/ UNCHANGED loopVars
  PROVE  StepInv'
<1>0. Steps \in Seq(Nat) /\ Loop!StepIds = 1 .. Len(Steps)
      /\ \A i \in Loop!StepIds : Steps[i] \in Nat
  BY DEF HostAssumption, Loop!LoopAssumption, Loop!StepIds
<1>1. CASE UNCHANGED loopVars
  BY <1>1, StepsStay DEF loopVars
<1>2. CASE Loop!Entries
  <2>1. pc = "entries" /\ UNCHANGED <<frames, issued>>
    BY <1>2 DEF Loop!Entries, Loop!Main
  <2>2. CASE step > Len(Steps)
    BY <1>2, <2>1, <2>2, StepsStay DEF Loop!Entries
  <2>3. CASE ~(step > Len(Steps)) /\ Steps[step] # 0
    <3>1. step' = step + 1 /\ UNCHANGED <<pc, taken>>
      BY <1>2, <2>3 DEF Loop!Entries
    <3>2. Loop!StepsOnce'
      BY <2>1, <3>1 DEF StepInv, Loop!StepsOnce
    <3>3. step \in Nat /\ step' \in Nat \ {0} /\ \A i \in Loop!StepIds : i >= step' => i >= step
      BY <1>0, <3>1 DEF StepInv
    <3>4. \A i \in Loop!StepIds : i >= step' /\ Steps[i] = 0 => taken'[i] = 0
      BY <2>1, <3>1, <3>3 DEF StepInv
    <3> QED
      BY <2>1, <3>1, <3>2, <3>3, <3>4 DEF StepInv
  <2>4. CASE ~(step > Len(Steps)) /\ Steps[step] = 0
    <3>1. /\ step' = step + 1 /\ taken' = [taken EXCEPT ![step] = @ + 1]
          /\ pc' \in {"entries", "ended"}
      BY <1>2, <2>1, <2>4 DEF Loop!Entries, Loop!RunEntry
    <3>2. PICK n \in Loop!StepIds : n = step
      BY <1>0, <2>4 DEF StepInv
    <3>3. /\ taken[n] = 0 /\ taken'[n] = 1 /\ \A i \in Loop!StepIds : i # n => taken'[i] = taken[i]
          /\ taken' \in [Loop!StepIds -> Nat]
      BY <2>1, <2>4, <3>1, <3>2 DEF StepInv
    <3>4. Loop!StepsOnce'
      BY <1>0, <2>1, <2>4, <3>1, <3>2, <3>3 DEF StepInv, Loop!StepsOnce
    <3>5. \A i \in Loop!StepIds : i >= step' /\ Steps[i] = 0 => taken'[i] = 0
      BY <1>0, <2>1, <3>1, <3>2, <3>3 DEF StepInv
    <3> QED
      BY <2>1, <3>1, <3>3, <3>4, <3>5 DEF StepInv
  <2> QED
    BY <2>2, <2>3, <2>4
<1>3. CASE Loop!StartOnThread \/ Loop!StartOnMain
  BY <1>3, StepsStay DEF Loop!StartOnThread, Loop!StartOnMain
<1>4. CASE Loop!GuestReturns
  <2>1. pc' = call.then /\ guest # "none" /\ UNCHANGED <<step, frames, issued, taken>>
    BY <1>4 DEF Loop!GuestReturns
  <2>2. pc' = pc \/ (pc = "resize" /\ pc' = "touch") \/ (pc = "render" /\ pc' = "present")
    BY <2>1 DEF CallInv
  <2> QED
    BY <2>1, <2>2, StepsStay
<1>5. ASSUME NEW event, Loop!Pumping(event) PROVE StepInv'
  <2>1. UNCHANGED <<pc, step, frames, issued, taken>>
    BY <1>5 DEF Loop!Pumping
  <2> QED
    BY <2>1, StepsStay
<1>6. CASE Loop!PumpDone
  <2>1. pc = "pump" /\ pc' \in {"resize", "ended"} /\ UNCHANGED <<step, frames, issued, taken>>
    BY <1>6 DEF Loop!PumpDone, Loop!Main
  <2> QED
    BY <2>1, StepsStay
<1>7. CASE Loop!TakeResized
  <2>1. pc = "resize" /\ pc' \in {"resize", "touch"} /\ UNCHANGED <<step, frames, issued, taken>>
    BY <1>7 DEF Loop!TakeResized, Loop!Main
  <2> QED
    BY <2>1, StepsStay
<1>8. CASE Loop!HandTouch
  <2>1. pc' = pc /\ UNCHANGED <<step, frames, issued, taken>>
    BY <1>8 DEF Loop!HandTouch
  <2> QED
    BY <2>1, StepsStay
<1>9. CASE Loop!TouchesDone
  <2>1. pc = "touch" /\ pc' \in {"steps", "ended"} /\ step' = 1 /\ UNCHANGED <<frames, issued, taken>>
    BY <1>9 DEF Loop!TouchesDone, Loop!Main
  <2>2. Loop!StepsOnce'
    BY <2>1 DEF StepInv, Loop!StepsOnce
  <2>3. \A i \in Loop!StepIds : ~(i < 1)
    BY <1>0
  <2> QED
    BY <2>1, <2>2, <2>3 DEF StepInv
<1>10. CASE Loop!FrameSteps
  <2>1. pc = "steps" /\ frames' = frames
    BY <1>10 DEF Loop!FrameSteps, Loop!Main
  <2>2. CASE step > Len(Steps)
    <3>1. pc' = "render" /\ UNCHANGED <<step, issued, taken>>
      BY <1>10, <2>2 DEF Loop!FrameSteps
    <3>2. \A i \in Loop!StepIds : i < step
      BY <1>0, <2>2 DEF StepInv
    <3>3. Loop!StepsOnce'
      BY <2>1, <3>1 DEF StepInv, Loop!StepsOnce
    <3> QED
      BY <2>1, <3>1, <3>2, <3>3 DEF StepInv
  <2>3. ASSUME ~(step > Len(Steps)) PROVE StepInv'
    <3>1. PICK n \in Loop!StepIds : n = step
      BY <1>0, <2>3 DEF StepInv
    <3>2. step' = step + 1
      BY <1>10, <2>3 DEF Loop!FrameSteps
    <3>3. \A i \in Loop!StepIds : i < step' => i < n \/ i = n
      BY <1>0, <3>1, <3>2
    <3>4. CASE Loop!Due(n)
      <4>1. /\ issued' = [issued EXCEPT ![n] = TRUE] /\ taken' = [taken EXCEPT ![n] = @ + 1]
            /\ pc' \in {"steps", "ended"} /\ Steps[n] = frames + 1 /\ ~issued[n]
        BY <1>10, <2>1, <2>3, <3>1, <3>4 DEF Loop!FrameSteps, Loop!RunEntry, Loop!Due
      <4>2. taken[n] = 0
        <5>0. taken[n] <= 1 /\ taken[n] \in Nat
          <6>1. taken \in [Loop!StepIds -> Nat] /\ Loop!StepsOnce
            BY DEF StepInv
          <6> QED
            BY <6>1 DEF Loop!StepsOnce
        <5>1. Steps[n] > 0 /\ taken[n] \in Nat /\ taken[n] <= 1
          BY <4>1, <5>0 DEF StepInv
        <5>2. (taken[n] = 1) = issued[n]
          BY <2>1, <5>1 DEF StepInv, Loop!StepsOnce
        <5>3. taken[n] # 1
          BY <4>1, <5>2
        <5> QED
          BY <5>1, <5>3
      <4>3. /\ taken'[n] = 1 /\ \A i \in Loop!StepIds : i # n => taken'[i] = taken[i]
            /\ taken' \in [Loop!StepIds -> Nat]
            /\ issued'[n] = TRUE /\ \A i \in Loop!StepIds : i # n => issued'[i] = issued[i]
            /\ issued' \in [Loop!StepIds -> BOOLEAN]
        BY <4>1, <4>2 DEF StepInv
      <4>4. Loop!StepsOnce'
        <5> SUFFICES ASSUME NEW i \in Loop!StepIds
                     PROVE  /\ taken'[i] <= 1
                            /\ Steps[i] > 0 => (taken'[i] = 1) = issued'[i]
                            /\ Steps[i] > frames + 1 => taken'[i] = 0
                            /\ 0 < Steps[i] /\ Steps[i] <= frames => taken'[i] = 1
          BY <2>1 DEF Loop!StepsOnce
        <5>1. CASE i = n
          <6>1. frames \in Nat /\ Steps[i] = frames + 1 /\ taken'[i] = 1 /\ issued'[i] = TRUE
            BY <4>1, <4>3, <5>1 DEF StepInv
          <6>2. (taken'[i] = 1) = issued'[i]
            BY <6>1, Zenon
          <6>3. /\ taken'[i] <= 1
                /\ Steps[i] > frames + 1 => taken'[i] = 0
                /\ 0 < Steps[i] /\ Steps[i] <= frames => taken'[i] = 1
            BY <6>1
          <6> QED
            BY <6>2, <6>3
        <5>2. CASE i # n
          <6>1. taken'[i] = taken[i] /\ issued'[i] = issued[i]
            BY <4>3, <5>2
          <6> QED
            BY <2>1, <6>1 DEF StepInv, Loop!StepsOnce
        <5> QED
          BY <5>1, <5>2
      <4>5. \A i \in Loop!StepIds : i < step' /\ Steps[i] = frames + 1 => taken'[i] = 1
        BY <2>1, <3>1, <3>3, <4>3 DEF StepInv
      <4> QED
        BY <2>1, <3>2, <4>1, <4>3, <4>4, <4>5 DEF StepInv
    <3>5. CASE ~Loop!Due(n)
      <4>1. UNCHANGED <<pc, issued, taken>>
        BY <1>10, <2>3, <3>1, <3>5 DEF Loop!FrameSteps
      <4>2. Steps[n] = frames + 1 => taken[n] = 1
        BY <1>0, <2>1, <3>5 DEF StepInv, Loop!StepsOnce, Loop!Due
      <4>3. Loop!StepsOnce'
        BY <2>1, <4>1 DEF StepInv, Loop!StepsOnce
      <4>4. \A i \in Loop!StepIds : i < step' /\ Steps[i] = frames + 1 => taken[i] = 1
        BY <2>1, <3>1, <3>3, <4>2 DEF StepInv
      <4> QED
        BY <2>1, <3>2, <4>1, <4>3, <4>4 DEF StepInv
    <3> QED
      BY <3>4, <3>5
  <2> QED
    BY <2>2, <2>3
<1>11. CASE Loop!Render
  <2>1. pc' = pc /\ UNCHANGED <<step, frames, issued, taken>>
    BY <1>11 DEF Loop!Render
  <2> QED
    BY <2>1, StepsStay
<1>12. CASE Loop!Present
  <2>1. /\ pc = "present" /\ pc' \in {"ended", "pump"} /\ UNCHANGED <<step, issued, taken>>
        /\ frames' \in {frames, frames + 1}
    BY <1>12 DEF Loop!Present, Loop!Main
  <2>2. \A i \in Loop!StepIds : Steps[i] = frames + 1 => taken[i] = 1
    BY <2>1 DEF StepInv
  <2>3. Loop!StepsOnce'
    BY <1>0, <2>1, <2>2 DEF StepInv, Loop!StepsOnce
  <2> QED
    BY <2>1, <2>3 DEF StepInv
<1> QED
  BY <1>1, <1>2, <1>3, <1>4, <1>5, <1>6, <1>7, <1>8, <1>9, <1>10, <1>11, <1>12 DEF Loop!Next

(* The three parts of the loop's invariant together.                       *)
LEMMA LoopKeeps ==
  ASSUME HostAssumption, LoopInv, Loop!Next \/ UNCHANGED loopVars
  PROVE  LoopInv'
  BY CallsKeepInv, TouchesKeepInv, StepsKeepInv DEF LoopInv

(* The touches the guest was handed and the queue make one chain.          *)
LEMMA LoopSound == LoopInv => ContextHandedOver /\ EventsInOrder
<1> SUFFICES ASSUME LoopInv PROVE ContextHandedOver /\ EventsInOrder
  OBVIOUS
<1>1. ContextHandedOver
  BY DEF LoopInv, CallInv, ContextHandedOver, Loop!ContextHandedOver
<1>2. Loop!TouchesFollow
  <2> DEFINE all == <<heard>> \o pointers_
  <2>1. /\ pointers_ \in Seq(Loop!Touch) /\ heard \in Loop!Touch /\ Len(pointers_) \in Nat
    BY DEF LoopInv, TouchInv
  <2>2. /\ Len(all) = Len(pointers_) + 1 /\ all[1] = heard
        /\ \A k \in 1 .. Len(pointers_) : all[k + 1] = pointers_[k]
    BY <2>1
  <2>3. all[Len(all)] = LastTouch
    BY <2>1, <2>2 DEF LastTouch
  <2> HIDE DEF all
  <2>4. \A k \in 1 .. Len(all) - 1 : Loop!Follows(all[k], all[k + 1])
    <3> SUFFICES ASSUME NEW k \in 1 .. Len(all) - 1 PROVE Loop!Follows(all[k], all[k + 1])
      OBVIOUS
    <3>1. CASE k = 1
      <4>1. pointers_ # <<>> /\ 1 \in 1 .. Len(pointers_)
        BY <2>1, <2>2, <3>1
      <4> QED
        BY <2>2, <3>1, <4>1 DEF LoopInv, TouchInv
    <3>2. CASE k # 1
      <4>1. PICK m \in 1 .. Len(pointers_) - 1 : k = m + 1
        BY <2>1, <2>2, <3>2
      <4>2. m \in 1 .. Len(pointers_) /\ m + 1 \in 1 .. Len(pointers_)
        BY <2>1
      <4> QED
        BY <2>2, <4>1, <4>2 DEF LoopInv, TouchInv
    <3> QED
      BY <3>1, <3>2
  <2> QED
    BY <2>3, <2>4 DEF LoopInv, TouchInv, Loop!TouchesFollow, all
<1> QED
  BY <1>1, <1>2 DEF LoopInv, StepInv, EventsInOrder

-----------------------------------------------------------------------------
(* SocketFlags.  A socket is in at most one call, and in that call the set *)
(* and the mode may differ; in none of them, they agree -- but for a       *)
(* socket on which the title let two calls overlap.                        *)
Callers == GuestThreads \cup {"main"}

OneCall(s) ==
  /\ \A t, u \in Callers : fd[t] = s /\ fd[u] = s => t = u
  /\ \A t \in Callers : fd[t] = s =>
       /\ fcntlPc[t] = "told" => mode[s] = IF on[t] THEN "nonblocking" ELSE "blocking"
       /\ fcntlPc[t] = "closes" => mode[s] # "closed"
       /\ fcntlPc[t] = "forgot" => s \notin g_nonblock
  /\ ~Modes!InCall(s) => (s \in g_nonblock <=> mode[s] = "nonblocking")

ModesInv ==
  /\ Modes!TypeOK
  /\ \A t \in Callers : fd[t] = 0 <=> fcntlPc[t] = "idle"
  /\ \A s \in Fds \ mixed : OneCall(s)

(* At first every socket is closed and the set is empty.                   *)
LEMMA ModesBegin == HostAssumption /\ Modes!Init => ModesInv
<1> SUFFICES ASSUME HostAssumption, Modes!Init PROVE ModesInv
  OBVIOUS
<1>1. 0 \notin Fds
  BY DEF HostAssumption, Modes!FlagsAssumption, Modes!NoFd
<1> QED
  BY <1>1 DEF Modes!Init, ModesInv, Modes!TypeOK, OneCall, Modes!InCall, Modes!NoFd, Callers

(* Whatever a step does to one socket, another one is as it was.           *)
LEMMA OtherSocket ==
  ASSUME ModesInv, NEW s \in Fds, OneCall(s), mode'[s] = mode[s],
         s \in g_nonblock' <=> s \in g_nonblock, NEW t \in Callers, fd[t] # s, fd'[t] # s,
         \A u \in Callers \ {t} : fd'[u] = fd[u] /\ fcntlPc'[u] = fcntlPc[u] /\ on'[u] = on[u]
  PROVE  OneCall(s)'
<1>1. \A u \in Callers : fd'[u] = s => u # t /\ fd[u] = s
  OBVIOUS
<1>2. Modes!InCall(s)' <=> Modes!InCall(s)
  BY DEF Modes!InCall, Callers
<1> QED
  BY <1>1, <1>2 DEF OneCall

(* The steps of the calls on sockets.                                      *)
LEMMA ModesKeep ==
  ASSUME HostAssumption, ModesInv, Modes!Next \/ UNCHANGED flagVars
  PROVE  ModesInv'
<1>0. 0 \notin Fds
  BY DEF HostAssumption, Modes!FlagsAssumption, Modes!NoFd
<1>a. Modes!TypeOK
  BY DEF ModesInv
<1>1. CASE UNCHANGED flagVars
  BY <1>1 DEF flagVars, ModesInv, Modes!TypeOK, OneCall, Modes!InCall
<1>2. ASSUME NEW t \in Callers, NEW s \in Fds, Modes!Socket(t, s) PROVE ModesInv'
  <2>1. /\ mode[s] = "closed" /\ mode' = [mode EXCEPT ![s] = "blocking"]
        /\ UNCHANGED <<g_nonblock, fcntlPc, fd, on>>
        /\ mixed' = IF Modes!InCall(s) THEN mixed \cup {s} ELSE mixed
    BY <1>2 DEF Modes!Socket, Modes!Overlap
  <2>2. Modes!TypeOK'
    BY <1>a, <2>1 DEF Modes!TypeOK
  <2>3. ASSUME NEW r \in Fds \ mixed' PROVE OneCall(r)'
    <3>1. OneCall(r) /\ (Modes!InCall(r)' <=> Modes!InCall(r))
      BY <2>1, <2>3 DEF ModesInv, Modes!InCall
    <3>2. CASE r = s
      <4>1. ~Modes!InCall(s) /\ mode'[s] = "blocking" /\ s \notin g_nonblock
        BY <1>a, <2>1, <2>3, <3>1, <3>2 DEF OneCall, Modes!TypeOK
      <4>2. \A u \in Callers : fd[u] # s
        BY <4>1 DEF Modes!InCall, Callers
      <4> QED
        BY <2>1, <3>1, <3>2, <4>1, <4>2 DEF OneCall
    <3>3. CASE r # s
      <4>1. mode'[r] = mode[r]
        BY <1>a, <2>1, <3>3 DEF Modes!TypeOK
      <4> QED
        BY <2>1, <3>1, <4>1 DEF OneCall
    <3> QED
      BY <3>2, <3>3
  <2> QED
    BY <2>1, <2>2, <2>3 DEF ModesInv
<1>3. ASSUME NEW t \in Callers, NEW s \in Fds, NEW want \in BOOLEAN,
             Modes!SetNonblocking(t, s, want)
      PROVE  ModesInv'
  <2>1. /\ fcntlPc[t] = "idle" /\ UNCHANGED g_nonblock
        /\ mode' = [mode EXCEPT ![s] = IF want THEN "nonblocking" ELSE "blocking"]
        /\ fcntlPc' = [fcntlPc EXCEPT ![t] = "told"] /\ fd' = [fd EXCEPT ![t] = s]
        /\ on' = [on EXCEPT ![t] = want]
        /\ mixed' = IF Modes!InCall(s) THEN mixed \cup {s} ELSE mixed
    BY <1>3 DEF Modes!SetNonblocking, Modes!Overlap
  <2>2. Modes!TypeOK'
    BY <1>a, <2>1 DEF Modes!TypeOK, Callers
  <2>3. /\ fd[t] = 0 /\ fd'[t] = s /\ fcntlPc'[t] = "told" /\ on'[t] = want
        /\ \A u \in Callers \ {t} : fd'[u] = fd[u] /\ fcntlPc'[u] = fcntlPc[u] /\ on'[u] = on[u]
    BY <1>a, <2>1 DEF ModesInv, Modes!TypeOK, Callers
  <2>4. ASSUME NEW r \in Fds \ mixed' PROVE OneCall(r)'
    <3>1. OneCall(r)
      BY <2>1, <2>4 DEF ModesInv
    <3>2. CASE r = s
      <4>1. ~Modes!InCall(s) /\ mode'[s] = (IF want THEN "nonblocking" ELSE "blocking")
        BY <1>a, <2>1, <2>4, <3>2 DEF Modes!TypeOK
      <4>2. \A u \in Callers : fd'[u] = s <=> u = t
        BY <2>3, <4>1 DEF Modes!InCall, Callers
      <4>3. Modes!InCall(s)'
        BY <2>3 DEF Modes!InCall, Callers
      <4> QED
        BY <2>3, <3>2, <4>1, <4>2, <4>3 DEF OneCall
    <3>3. CASE r # s
      <4>1. mode'[r] = mode[r] /\ r # 0
        BY <1>0, <1>a, <2>1, <3>3 DEF Modes!TypeOK
      <4> QED
        BY <2>1, <2>3, <3>1, <3>3, <4>1, OtherSocket
    <3> QED
      BY <3>2, <3>3
  <2>5. \A u \in Callers : fd'[u] = 0 <=> fcntlPc'[u] = "idle"
    BY <1>0, <2>3 DEF ModesInv
  <2> QED
    BY <2>2, <2>4, <2>5 DEF ModesInv
<1>4. ASSUME NEW t \in Callers, NEW s \in Fds, Modes!Close(t, s) PROVE ModesInv'
  <2>1. /\ fcntlPc[t] = "idle" /\ mode[s] # "closed" /\ UNCHANGED <<mode, g_nonblock, on>>
        /\ fcntlPc' = [fcntlPc EXCEPT ![t] = "closes"] /\ fd' = [fd EXCEPT ![t] = s]
        /\ mixed' = IF Modes!InCall(s) THEN mixed \cup {s} ELSE mixed
    BY <1>4 DEF Modes!Close, Modes!Overlap
  <2>2. Modes!TypeOK'
    BY <1>a, <2>1 DEF Modes!TypeOK, Callers
  <2>3. /\ fd[t] = 0 /\ fd'[t] = s /\ fcntlPc'[t] = "closes"
        /\ \A u \in Callers \ {t} : fd'[u] = fd[u] /\ fcntlPc'[u] = fcntlPc[u] /\ on'[u] = on[u]
    BY <1>a, <2>1 DEF ModesInv, Modes!TypeOK, Callers
  <2>4. ASSUME NEW r \in Fds \ mixed' PROVE OneCall(r)'
    <3>1. OneCall(r)
      BY <2>1, <2>4 DEF ModesInv
    <3>2. CASE r = s
      <4>1. ~Modes!InCall(s)
        BY <2>1, <2>4, <3>2
      <4>2. \A u \in Callers : fd'[u] = s <=> u = t
        BY <2>3, <4>1 DEF Modes!InCall, Callers
      <4>3. Modes!InCall(s)'
        BY <2>3 DEF Modes!InCall, Callers
      <4> QED
        BY <2>1, <2>3, <3>2, <4>2, <4>3 DEF OneCall
    <3>3. CASE r # s
      <4>1. r # 0
        BY <1>0
      <4> QED
        BY <2>1, <2>3, <3>1, <3>3, <4>1, OtherSocket
    <3> QED
      BY <3>2, <3>3
  <2>5. \A u \in Callers : fd'[u] = 0 <=> fcntlPc'[u] = "idle"
    BY <1>0, <2>3 DEF ModesInv
  <2> QED
    BY <2>2, <2>4, <2>5 DEF ModesInv
<1>5. ASSUME NEW t \in Callers, Modes!Note(t) PROVE ModesInv'
  <2>1. /\ fcntlPc[t] = "told" /\ UNCHANGED <<mode, on, mixed>>
        /\ g_nonblock' = IF on[t] THEN g_nonblock \cup {fd[t]} ELSE g_nonblock \ {fd[t]}
        /\ fcntlPc' = [fcntlPc EXCEPT ![t] = "idle"] /\ fd' = [fd EXCEPT ![t] = 0]
    BY <1>5 DEF Modes!Note, Modes!Leave, Modes!NoFd
  <2>2. PICK s \in Fds : fd[t] = s
    BY <1>a, <2>1 DEF ModesInv, Modes!TypeOK, Modes!NoFd, Callers
  <2>3. Modes!TypeOK'
    BY <1>a, <2>1, <2>2 DEF Modes!TypeOK, Callers, Modes!NoFd
  <2>4. /\ fd'[t] = 0 /\ fcntlPc'[t] = "idle"
        /\ \A u \in Callers \ {t} : fd'[u] = fd[u] /\ fcntlPc'[u] = fcntlPc[u] /\ on'[u] = on[u]
    BY <1>a, <2>1 DEF Modes!TypeOK, Callers
  <2>5. ASSUME NEW r \in Fds \ mixed' PROVE OneCall(r)'
    <3>1. OneCall(r) /\ r # 0
      BY <1>0, <2>1, <2>5 DEF ModesInv
    <3>2. CASE r = s
      <4>1. \A u \in Callers : fd'[u] # s
        BY <2>2, <2>4, <3>1, <3>2 DEF OneCall
      <4>2. mode[s] = (IF on[t] THEN "nonblocking" ELSE "blocking")
        BY <2>1, <2>2, <3>1, <3>2 DEF OneCall
      <4>3. s \in g_nonblock' <=> on[t]
        BY <2>1, <2>2
      <4>4. s \in g_nonblock' <=> mode'[s] = "nonblocking"
        BY <2>1, <4>2, <4>3
      <4> QED
        BY <3>2, <4>1, <4>4 DEF OneCall
    <3>3. CASE r # s
      BY <2>1, <2>2, <2>4, <3>1, <3>3, OtherSocket
    <3> QED
      BY <3>2, <3>3
  <2>6. \A u \in Callers : fd'[u] = 0 <=> fcntlPc'[u] = "idle"
    BY <2>4 DEF ModesInv
  <2> QED
    BY <2>3, <2>5, <2>6 DEF ModesInv
<1>6. ASSUME NEW t \in Callers, Modes!Forget(t) PROVE ModesInv'
  <2>1. /\ fcntlPc[t] = "closes" /\ UNCHANGED <<mode, fd, on, mixed>>
        /\ g_nonblock' = g_nonblock \ {fd[t]} /\ fcntlPc' = [fcntlPc EXCEPT ![t] = "forgot"]
    BY <1>6 DEF Modes!Forget
  <2>2. PICK s \in Fds : fd[t] = s
    BY <1>a, <2>1 DEF ModesInv, Modes!TypeOK, Modes!NoFd, Callers
  <2>3. Modes!TypeOK'
    BY <1>a, <2>1 DEF Modes!TypeOK, Callers
  <2>4. fcntlPc'[t] = "forgot" /\ \A u \in Callers \ {t} : fcntlPc'[u] = fcntlPc[u]
    BY <1>a, <2>1 DEF Modes!TypeOK, Callers
  <2>5. ASSUME NEW r \in Fds \ mixed' PROVE OneCall(r)'
    <3>1. OneCall(r) /\ (Modes!InCall(r)' <=> Modes!InCall(r))
      BY <2>1, <2>5 DEF ModesInv, Modes!InCall
    <3>2. CASE r = s
      <4>1. \A u \in Callers : fd[u] = s <=> u = t
        BY <2>2, <3>1, <3>2 DEF OneCall
      <4>2. Modes!InCall(s)' /\ s \notin g_nonblock'
        BY <2>1, <2>2 DEF Modes!InCall, Callers
      <4> QED
        BY <2>1, <2>4, <3>2, <4>1, <4>2 DEF OneCall
    <3>3. CASE r # s
      BY <2>1, <2>2, <2>4, <3>1, <3>3, OtherSocket
    <3> QED
      BY <3>2, <3>3
  <2>6. \A u \in Callers : fd'[u] = 0 <=> fcntlPc'[u] = "idle"
    BY <2>1, <2>4 DEF ModesInv
  <2> QED
    BY <2>1, <2>3, <2>5, <2>6 DEF ModesInv
<1>7. ASSUME NEW t \in Callers, Modes!CloseSocket(t) PROVE ModesInv'
  <2>1. /\ fcntlPc[t] = "forgot" /\ UNCHANGED <<g_nonblock, on, mixed>>
        /\ mode' = [mode EXCEPT ![fd[t]] = "closed"]
        /\ fcntlPc' = [fcntlPc EXCEPT ![t] = "idle"] /\ fd' = [fd EXCEPT ![t] = 0]
    BY <1>7 DEF Modes!CloseSocket, Modes!Leave, Modes!NoFd
  <2>2. PICK s \in Fds : fd[t] = s
    BY <1>a, <2>1 DEF ModesInv, Modes!TypeOK, Modes!NoFd, Callers
  <2>3. Modes!TypeOK'
    BY <1>a, <2>1, <2>2 DEF Modes!TypeOK, Callers, Modes!NoFd
  <2>4. /\ fd'[t] = 0 /\ fcntlPc'[t] = "idle"
        /\ \A u \in Callers \ {t} : fd'[u] = fd[u] /\ fcntlPc'[u] = fcntlPc[u] /\ on'[u] = on[u]
    BY <1>a, <2>1 DEF Modes!TypeOK, Callers
  <2>5. ASSUME NEW r \in Fds \ mixed' PROVE OneCall(r)'
    <3>1. OneCall(r) /\ r # 0
      BY <1>0, <2>1, <2>5 DEF ModesInv
    <3>2. CASE r = s
      <4>1. \A u \in Callers : fd'[u] # s
        BY <2>2, <2>4, <3>1, <3>2 DEF OneCall
      <4>2. s \notin g_nonblock' /\ mode'[s] = "closed"
        BY <1>a, <2>1, <2>2, <3>1, <3>2 DEF OneCall, Modes!TypeOK
      <4> QED
        BY <3>2, <4>1, <4>2 DEF OneCall
    <3>3. CASE r # s
      <4>1. mode'[r] = mode[r]
        BY <1>a, <2>1, <2>2, <3>3 DEF Modes!TypeOK
      <4> QED
        BY <2>1, <2>2, <2>4, <3>1, <3>3, <4>1, OtherSocket
    <3> QED
      BY <3>2, <3>3
  <2>6. \A u \in Callers : fd'[u] = 0 <=> fcntlPc'[u] = "idle"
    BY <2>4 DEF ModesInv
  <2> QED
    BY <2>3, <2>5, <2>6 DEF ModesInv
<1> QED
  BY <1>1, <1>2, <1>3, <1>4, <1>5, <1>6, <1>7 DEF Modes!Next, Callers

-----------------------------------------------------------------------------
(* Redirect.  An answer to a name is the target, or the target with the    *)
(* port that was meant; nobody has reached an address before connecting.   *)
Somewhere == Net!Addresses \cup {Net!NoAddress}

NetTypes ==
  /\ meant \in [GuestThreads -> Somewhere] /\ to \in [GuestThreads -> Somewhere]
  /\ reached \in [GuestThreads -> Somewhere]
  /\ service \in [GuestThreads -> {0} \cup Ports]

Errand(t) ==
  /\ informed[t] => have
  /\ connectPc[t] # "idle" => reached[t] = Net!NoAddress
  /\ byName[t] => to[t] = meant[t] /\ meant[t].family = "inet"
  /\ service[t] \in {0, meant[t].port}
  /\ \/ to[t] = meant[t]
     \/ service[t] = 0
     \/ /\ to[t] = target /\ service[t] # TlsPort
        /\ meant[t].host # "loopback" /\ meant[t].family = "inet"

Ended(t) ==
  informed[t] /\ reached[t] # Net!NoAddress /\ (service[t] # 0 \/ to[t] = meant[t])
    => reached[t] = Net!Due(meant[t])

NetInv ==
  /\ Net!TypeOK /\ NetTypes
  /\ have => parsed
  /\ \A t \in GuestThreads : Errand(t) /\ Ended(t)

(* At first nobody has asked and nobody connects.                          *)
LEMMA NetBegins == Net!Init => NetInv
<1> SUFFICES ASSUME Net!Init PROVE NetInv
  OBVIOUS
<1>1. Net!TypeOK
  BY DEF Net!Init, Net!TypeOK
<1>2. NetTypes
  BY DEF Net!Init, NetTypes, Somewhere
<1>3. \A t \in GuestThreads : Errand(t) /\ Ended(t)
  BY DEF Net!Init, Errand, Ended
<1> QED
  BY <1>1, <1>2, <1>3 DEF Net!Init, NetInv

(* What one thread does leaves the others' errands as they were.           *)
LEMMA OtherErrand ==
  ASSUME NetInv, NEW t \in GuestThreads,
         target' = target, have => have',
         /\ meant'[t] = meant[t] /\ to'[t] = to[t] /\ reached'[t] = reached[t]
         /\ service'[t] = service[t] /\ byName'[t] = byName[t]
         /\ informed'[t] = informed[t] /\ connectPc'[t] = connectPc[t]
  PROVE  Errand(t)' /\ Ended(t)'
BY DEF NetInv, Errand, Ended, Net!Due, Net!ShouldRedirect

(* The steps of the errands.                                               *)
LEMMA NetKeeps ==
  ASSUME HostAssumption, NetInv, Net!Next \/ UNCHANGED netVars
  PROVE  NetInv'
<1>0. 0 \notin Ports
  BY DEF HostAssumption, Net!RedirectAssumption
<1>a. Net!TypeOK /\ NetTypes /\ (have => parsed) /\ \A t \in GuestThreads : Errand(t) /\ Ended(t)
  BY DEF NetInv
<1>1. CASE UNCHANGED netVars
  <2>1. Net!TypeOK' /\ NetTypes'
    BY <1>1, <1>a DEF netVars, Net!TypeOK, NetTypes, Somewhere
  <2>2. \A t \in GuestThreads : Errand(t)' /\ Ended(t)'
    BY <1>1, OtherErrand DEF netVars
  <2> QED
    BY <1>1, <1>a, <2>1, <2>2 DEF netVars, NetInv
<1>2. ASSUME NEW t \in GuestThreads, NEW a \in Net!Addresses, NEW asked \in BOOLEAN,
             NEW s \in {0, a.port}, asked => a.family = "inet", Net!Begin(t, a, asked, s)
      PROVE  NetInv'
  <2>1. a.port \in Ports /\ s \in {0} \cup Ports
    BY DEF Net!Addresses
  <2>2. /\ UNCHANGED <<parsed, target, looked, have>>
        /\ meant' = [meant EXCEPT ![t] = a] /\ to' = [to EXCEPT ![t] = a]
        /\ service' = [service EXCEPT ![t] = s] /\ byName' = [byName EXCEPT ![t] = asked]
        /\ informed' = [informed EXCEPT ![t] = have]
        /\ reached' = [reached EXCEPT ![t] = Net!NoAddress]
        /\ connectPc' = [connectPc EXCEPT ![t] = "asks"]
    BY <1>2 DEF Net!Begin
  <2>3. NetTypes'
    BY <1>a, <2>1, <2>2 DEF NetTypes, Somewhere
  <2>4. Net!TypeOK'
    BY <1>a, <2>2, <2>3 DEF NetTypes, Somewhere, Net!TypeOK
  <2>5. Errand(t)' /\ Ended(t)'
    <3>1. /\ meant'[t] = a /\ to'[t] = a /\ service'[t] = s /\ byName'[t] = asked
          /\ informed'[t] = have /\ reached'[t] = Net!NoAddress
      BY <1>a, <2>2 DEF NetTypes, Net!TypeOK
    <3> QED
      BY <1>2, <2>2, <3>1 DEF Errand, Ended
  <2>6. \A u \in GuestThreads \ {t} : Errand(u)' /\ Ended(u)'
    BY <1>a, <2>2, OtherErrand DEF NetTypes, Net!TypeOK
  <2> QED
    BY <1>a, <2>2, <2>3, <2>4, <2>5, <2>6 DEF NetInv
<1>3. ASSUME NEW t \in GuestThreads, Net!Ask(t) \/ Net!Parse(t) PROVE NetInv'
  <2>1. /\ UNCHANGED <<parsed, target, meant, service, byName, to, informed, reached>>
        /\ looked' \in BOOLEAN /\ have' \in {have, parsed} /\ connectPc[t] # "idle"
        /\ \E label \in {"told", "parses"} : connectPc' = [connectPc EXCEPT ![t] = label]
    BY <1>3, <1>a DEF Net!Ask, Net!Parse, Net!Goto, Net!errand, Net!TypeOK
  <2>2. Net!TypeOK' /\ NetTypes'
    BY <1>a, <2>1 DEF Net!TypeOK, NetTypes, Somewhere
  <2>3. (have => have') /\ (have' => parsed')
    BY <1>a, <2>1
  <2>4. Errand(t)' /\ Ended(t)'
    BY <1>a, <2>1, <2>3 DEF Errand, Ended, Net!Due, Net!ShouldRedirect
  <2>5. \A u \in GuestThreads \ {t} : Errand(u)' /\ Ended(u)'
    BY <1>a, <2>1, <2>3, OtherErrand DEF Net!TypeOK
  <2> QED
    BY <2>2, <2>3, <2>4, <2>5 DEF NetInv
<1>4. ASSUME NEW t \in GuestThreads, Net!Getaddrinfo(t) PROVE NetInv'
  <2>1. /\ UNCHANGED <<parsed, target, looked, have, meant, service, informed, reached>>
        /\ byName[t] /\ connectPc[t] # "idle"
        /\ to' = [to EXCEPT ![t] = Net!Answer(t)]
        /\ byName' = [byName EXCEPT ![t] = FALSE]
        /\ connectPc' = [connectPc EXCEPT ![t] = "asks"]
    BY <1>4 DEF Net!Getaddrinfo, Net!Goto
  <2>2. meant[t] \in Net!Addresses \/ meant[t] = Net!NoAddress
    BY <1>a DEF NetTypes, Somewhere
  <2>3. meant[t].family = "inet" /\ meant[t] \in Net!Addresses
    BY <1>a, <2>1, <2>2 DEF Errand, Net!NoAddress
  <2>4. \/ Net!Answer(t) = meant[t]
        \/ Net!Answered(t) /\ service[t] = 0 /\ Net!Answer(t) = [target EXCEPT !.port = meant[t].port]
        \/ Net!Answered(t) /\ service[t] # 0 /\ Net!Answer(t) = target
    BY DEF Net!Answer
  <2>5. Net!Answer(t) \in Net!Addresses
    <3>1. target \in [family : {"inet"}, host : {"loopback", "redirect"}, port : Ports]
      BY <1>a DEF Net!TypeOK, Net!Targets
    <3>2. target \in Net!Addresses
      BY <3>1 DEF Net!Addresses, Net!Hosts
    <3>3. [target EXCEPT !.port = meant[t].port] \in Net!Addresses
      BY <2>3, <3>1 DEF Net!Addresses, Net!Hosts
    <3> QED
      BY <2>3, <2>4, <3>2, <3>3
  <2>6. NetTypes'
    BY <1>a, <2>1, <2>5 DEF NetTypes, Somewhere
  <2>7. Net!TypeOK'
    BY <1>a, <2>1, <2>6 DEF NetTypes, Somewhere, Net!TypeOK
  <2>8. Errand(t)' /\ Ended(t)'
    <3>1. to'[t] = Net!Answer(t) /\ byName'[t] = FALSE /\ reached[t] = Net!NoAddress
      BY <1>a, <2>1 DEF NetTypes, Net!TypeOK, Errand
    <3>2. \/ to'[t] = meant[t] \/ service[t] = 0
          \/ /\ to'[t] = target /\ service[t] # TlsPort
             /\ meant[t].host # "loopback" /\ meant[t].family = "inet"
      BY <2>3, <2>4, <3>1 DEF Net!Answered
    <3>3. /\ meant'[t] = meant[t] /\ service'[t] = service[t] /\ informed'[t] = informed[t]
          /\ reached'[t] = reached[t] /\ have' = have /\ target' = target
      BY <2>1
    <3> QED
      BY <1>a, <3>1, <3>2, <3>3 DEF Errand, Ended
  <2>9. \A u \in GuestThreads \ {t} : Errand(u)' /\ Ended(u)'
    BY <1>a, <2>1, OtherErrand DEF NetTypes, Net!TypeOK
  <2> QED
    BY <1>a, <2>1, <2>6, <2>7, <2>8, <2>9 DEF NetInv
<1>5. ASSUME NEW t \in GuestThreads, Net!Connect(t) PROVE NetInv'
  <2> DEFINE end == IF have /\ Net!ShouldRedirect(to[t]) THEN target ELSE to[t]
  <2>1. /\ UNCHANGED <<parsed, target, looked, have, meant, service, byName, to, informed>>
        /\ reached' = [reached EXCEPT ![t] = end] /\ ~byName[t]
        /\ connectPc' = [connectPc EXCEPT ![t] = "idle"]
    BY <1>5 DEF Net!Connect, Net!Goto
  <2>2. end \in Somewhere
    <3>1. target \in Net!Addresses
      BY <1>a DEF Net!TypeOK, Net!Targets, Net!Addresses, Net!Hosts
    <3> QED
      BY <1>a, <3>1 DEF NetTypes, Somewhere
  <2>3. NetTypes'
    BY <1>a, <2>1, <2>2 DEF NetTypes
  <2>4. Net!TypeOK'
    BY <1>a, <2>1, <2>3 DEF NetTypes, Somewhere, Net!TypeOK
  <2>5. informed[t] /\ (service[t] # 0 \/ to[t] = meant[t]) => end = Net!Due(meant[t])
    <3> SUFFICES ASSUME informed[t], service[t] # 0 \/ to[t] = meant[t]
                 PROVE  end = Net!Due(meant[t])
      OBVIOUS
    <3>1. have /\ service[t] \in {0, meant[t].port}
      BY <1>a DEF Errand
    <3>2. CASE to[t] = meant[t]
      BY <3>1, <3>2 DEF Net!Due
    <3>3. CASE to[t] # meant[t]
      <4>1. /\ to[t] = target /\ meant[t].port # TlsPort
            /\ meant[t].host # "loopback" /\ meant[t].family = "inet"
        BY <1>a, <3>1, <3>3 DEF Errand
      <4>2. Net!ShouldRedirect(meant[t])
        BY <4>1 DEF Net!ShouldRedirect
      <4> QED
        BY <4>1, <4>2 DEF Net!Due
    <3> QED
      BY <3>2, <3>3
  <2>6. Errand(t)' /\ Ended(t)'
    <3>1. /\ reached'[t] = end /\ connectPc'[t] = "idle"
          /\ Net!Due(meant[t])' = Net!Due(meant[t])
      BY <1>a, <2>1 DEF NetTypes, Net!TypeOK, Net!Due, Net!ShouldRedirect
    <3> HIDE DEF end
    <3>2. Errand(t)'
      BY <1>a, <2>1, <3>1 DEF Errand
    <3>3. Ended(t)'
      BY <2>1, <2>5, <3>1 DEF Ended
    <3> QED
      BY <3>2, <3>3
  <2>7. \A u \in GuestThreads \ {t} : Errand(u)' /\ Ended(u)'
    BY <1>a, <2>1, OtherErrand DEF NetTypes, Net!TypeOK
  <2> QED
    BY <1>a, <2>1, <2>3, <2>4, <2>6, <2>7 DEF NetInv
<1>6. ASSUME NEW t \in GuestThreads, Net!ByAddress(t) \/ Net!ByName(t) PROVE NetInv'
  BY <1>2, <1>6 DEF Net!ByAddress, Net!ByName
<1> QED
  BY <1>1, <1>3, <1>4, <1>5, <1>6 DEF Net!Next

(* Both together: the sockets of the title behave as it expects.           *)
LEMMA ConnectionsSound == ModesInv /\ NetInv => ConnectionsDue
<1> SUFFICES ASSUME ModesInv, NetInv PROVE ConnectionsDue
  OBVIOUS
<1>1. Modes!FlagsAgree
  BY DEF ModesInv, OneCall, Modes!FlagsAgree
<1>2. Net!EndsWhereDue
  BY DEF NetInv, Ended, Net!EndsWhereDue
<1> QED
  BY <1>1, <1>2 DEF ModesInv, NetInv, ConnectionsDue
-----------------------------------------------------------------------------
(* JumpTables.  What the lifter knows of the register a switch goes        *)
(* through is what the machine has in it, as long as it was not lost and  *)
(* is built in a way the lifter recognises: an invariant of each register  *)
(* on its own.                                                             *)
BasePath(p)  == p = <<"const">>
FromElement(p) == p[1] \in {"entry", "element", "second"}

(* An entry of a table, and the sum of one and a base.                     *)
IsEntry(p, v) == p[2] \in Nat /\ p[2] + p[3] \in DOMAIN words /\ v = words[p[2] + p[3]]
IsTarget(p, v) ==
    p[2] \in Nat /\ p[2] + p[3] \in DOMAIN words /\ v = p[4] + words[p[2] + p[3]] * 2 ^ p[5]

Followed(r) ==
    /\ BasePath(path[r]) => /\ r \in DOMAIN seen /\ seen[r] = reg[r] /\ reg[r] \in Nat
                            /\ r \in DOMAIN const => const[r] = reg[r]
    /\ BasePath(path[r]) /\ sight[r] = "clear" => r \in DOMAIN const
    /\ path[r][1] = "entry" =>
          r \in DOMAIN load /\ load[r] = path[r][2] /\ IsEntry(path[r], reg[r])
    /\ path[r][1] = "target" =>
          /\ r \in DOMAIN pend /\ pend[r] = <<path[r][2], path[r][4], path[r][5]>>
          /\ IsTarget(path[r], reg[r])
    /\ path[r][1] = "indexed" /\ Switch!InFunction(path[r][2]) /\ path[r][4] \in Switch!NoElement =>
          /\ r \notin DOMAIN pend /\ r \in DOMAIN pend_reg
          /\ pend_reg[r] = <<path[r][2], path[r][3]>>
          /\ \E k \in Bytes : reg[r] = path[r][2] + k * 2 ^ path[r][3]
    /\ r \in DOMAIN load => FromElement(path[r])

RegOk(r) == sight[r] = "lost" \/ Followed(r)

SwitchInv ==
    /\ words \in Seq(Int) \ {<<>>}
    /\ DOMAIN reg = GuestThreads /\ DOMAIN path = GuestThreads /\ DOMAIN sight = GuestThreads
    /\ IF went = {} THEN \A r \in GuestThreads : RegOk(r) ELSE Switch!SwitchLands

(* What an instruction says of other registers stays known.                *)
SameAt(f, g, r) == (r \in DOMAIN g <=> r \in DOMAIN f) /\ (r \in DOMAIN f => g[r] = f[r])
KnownStays(r) ==
    /\ SameAt(const, const', r) /\ SameAt(seen, seen', r) /\ SameAt(load, load', r)
    /\ SameAt(pend, pend', r) /\ SameAt(pend_reg, pend_reg', r)

(* A register nothing was said of is as it was.                            *)
LEMMA RegStands ==
  ASSUME NEW r, RegOk(r), KnownStays(r), UNCHANGED words,
         reg'[r] = reg[r], path'[r] = path[r], sight'[r] = sight[r]
  PROVE  RegOk(r)'
<1>1. PICK p, v : p = path[r] /\ v = reg[r]
  OBVIOUS
<1>2. IsEntry(p, v)' <=> IsEntry(p, v)
  BY DEF IsEntry
<1>3. IsTarget(p, v)' <=> IsTarget(p, v)
  BY DEF IsTarget
<1>4. path'[r] = p /\ reg'[r] = v
  BY <1>1
<1> QED
  BY <1>1, <1>2, <1>3, <1>4 DEF RegOk, Followed, KnownStays, SameAt, BasePath, FromElement

(* Learning and forgetting are of one register.                            *)
LEMMA PutOne ==
  ASSUME NEW f, NEW d, NEW v
  PROVE  /\ d \in DOMAIN Switch!Put(f, d, v) /\ Switch!Put(f, d, v)[d] = v
         /\ \A r : r # d => SameAt(f, Switch!Put(f, d, v), r)
BY DEF Switch!Put, SameAt

(* And so is forgetting.                                                   *)
LEMMA TakeOne ==
  ASSUME NEW f, NEW d
  PROVE  /\ d \notin DOMAIN Switch!Without(f, d)
         /\ \A r : r # d => SameAt(f, Switch!Without(f, d), r)
BY DEF Switch!Without, Switch!Restrict, SameAt

(* What is learned of a set is its one element, if it has one.             *)
LEMMA LearnOne ==
  ASSUME NEW f, NEW d, NEW S
  PROVE  /\ \A r : r # d => SameAt(f, Switch!Learns(f, d, S), r)
         /\ d \in DOMAIN Switch!Learns(f, d, S) <=> S # {}
         /\ \A v : S = {v} => Switch!Learns(f, d, S)[d] = v
<1>1. \A v : Switch!Only({v}) = v
  BY DEF Switch!Only
<1> QED
  BY <1>1, PutOne, TakeOne DEF Switch!Learns

(* A step that says something of one register keeps the rest.              *)
LEMMA OneRegister ==
  ASSUME SwitchInv, NEW d \in GuestThreads, went = {}, NEW v, NEW p, NEW s,
         Switch!Becomes(d, v, p, s),
         \A r \in GuestThreads \ {d} : KnownStays(r),
         reg'[d] = v /\ path'[d] = p /\ sight'[d] = s /\ s # "lost" => Followed(d)'
  PROVE  SwitchInv'
<1>1. /\ reg' = [reg EXCEPT ![d] = v] /\ path' = [path EXCEPT ![d] = p]
      /\ sight' = [sight EXCEPT ![d] = s] /\ UNCHANGED <<words, targets, went>>
  BY DEF Switch!Becomes
<1>2. /\ DOMAIN reg' = GuestThreads /\ DOMAIN path' = GuestThreads /\ DOMAIN sight' = GuestThreads
      /\ reg'[d] = v /\ path'[d] = p /\ sight'[d] = s
      /\ \A r \in GuestThreads \ {d} : reg'[r] = reg[r] /\ path'[r] = path[r] /\ sight'[r] = sight[r]
  BY <1>1 DEF SwitchInv
<1>3. \A r \in GuestThreads \ {d} : RegOk(r)'
  BY <1>1, <1>2, RegStands DEF SwitchInv
<1>4. RegOk(d)'
  BY <1>2 DEF RegOk
<1> QED
  BY <1>1, <1>2, <1>3, <1>4 DEF SwitchInv

(* So does one that only the lifter comes past.                            *)
LEMMA OneReading ==
  ASSUME SwitchInv, NEW d \in GuestThreads, went = {}, NEW s, Switch!Glimpsed(d, s),
         UNCHANGED <<words, reg, path, targets, went>>,
         \A r \in GuestThreads \ {d} : KnownStays(r),
         sight[d] # "lost" /\ s # "lost" /\ sight'[d] = s => Followed(d)'
  PROVE  SwitchInv'
<1>1. PICK left : left = IF sight[d] = "lost" THEN "lost" ELSE s
  OBVIOUS
<1>2. sight' = [sight EXCEPT ![d] = left]
  BY <1>1 DEF Switch!Glimpsed
<1>3. DOMAIN sight' = GuestThreads /\ sight'[d] = left
      /\ \A r \in GuestThreads \ {d} : sight'[r] = sight[r]
  BY <1>2 DEF SwitchInv
<1>4. \A r \in GuestThreads \ {d} : RegOk(r)'
  BY <1>3, RegStands DEF SwitchInv
<1>5. RegOk(d)'
  BY <1>1, <1>3 DEF RegOk
<1> QED
  BY <1>3, <1>4, <1>5 DEF SwitchInv

(* Paths are told apart by their first part.                               *)
LEMMA PathKinds ==
  /\ Switch!Unknown[1] = "unknown" /\ ~BasePath(Switch!Unknown)
  /\ <<"const">>[1] = "const"
  /\ <<"second">>[1] = "second" /\ ~BasePath(<<"second">>)
  /\ <<"element">>[1] = "element" /\ ~BasePath(<<"element">>)
  /\ \A p : BasePath(p) => p[1] = "const"
<1>1. \A s, t : <<s>> = <<t>> => s = t
  OBVIOUS
<1>2. \A s : <<s>>[1] = s
  OBVIOUS
<1> QED
  BY <1>1, <1>2 DEF Switch!Unknown, BasePath

(* A base is set: known to be what it is, if it is one.                    *)
LEMMA ConstKeeps ==
  ASSUME SwitchInv, went = {}, NEW d \in GuestThreads, NEW v, NEW w, NEW p, NEW s,
         Switch!IsConst(d, v), Switch!Becomes(d, w, p, s),
         \/ p = <<"const">> /\ v = w /\ v \in Nat
         \/ p = Switch!Unknown
         \/ s = "lost"
  PROVE  SwitchInv'
<1>1. \A r \in GuestThreads \ {d} : KnownStays(r)
  BY PutOne, TakeOne DEF Switch!IsConst, KnownStays
<1>2. /\ d \in DOMAIN const' /\ const'[d] = v /\ d \in DOMAIN seen' /\ seen'[d] = v
      /\ d \notin DOMAIN load'
  BY PutOne, TakeOne DEF Switch!IsConst
<1>3. s # "lost" => p[1] \in {"const", "unknown"} /\ (BasePath(p) => v = w /\ v \in Nat)
  BY PathKinds
<1>4. reg'[d] = w /\ path'[d] = p /\ sight'[d] = s /\ s # "lost" => Followed(d)'
  BY <1>2, <1>3 DEF Followed
<1> QED
  BY <1>1, <1>4, OneRegister

(* Or forgotten.                                                           *)
LEMMA ForgetKeeps ==
  ASSUME SwitchInv, went = {}, NEW d \in GuestThreads, NEW w, NEW p, NEW s,
         Switch!Invalidate(d), Switch!Becomes(d, w, p, s), p = Switch!Unknown \/ s = "lost"
  PROVE  SwitchInv'
<1>1. \A r \in GuestThreads \ {d} : KnownStays(r)
  BY PutOne, TakeOne DEF Switch!Invalidate, KnownStays, SameAt
<1>2. d \notin DOMAIN load'
  BY TakeOne DEF Switch!Invalidate
<1>3. reg'[d] = w /\ path'[d] = p /\ sight'[d] = s /\ s # "lost" => Followed(d)'
  BY <1>2, PathKinds DEF Followed
<1> QED
  BY <1>1, <1>3, OneRegister

(* adr, and add with an immediate: the sum of a base the lifter does not   *)
(* have as it is now is lost.                                              *)
LEMMA AddsKeep ==
  ASSUME HostAssumption, SwitchInv, NEW d \in GuestThreads,
         (\E v \in Adrs : Switch!Adr(d, v)) \/ (\E s \in GuestThreads : Switch!AddImm(d, s, 1))
  PROVE  SwitchInv'
<1>1. CASE \E v \in Adrs : Switch!Adr(d, v)
  BY <1>1, ConstKeeps DEF Switch!Adr, Switch!Reading, HostAssumption, Switch!TablesAssumption
<1>2. ASSUME NEW s \in GuestThreads, Switch!AddImm(d, s, 1) PROVE SwitchInv'
  <2>1. PICK p, sees : /\ p = IF Switch!IsBase(s) THEN <<"const">> ELSE Switch!Unknown
                      /\ sees = IF Switch!IsBase(s) /\ sight[s] # "clear" THEN "lost" ELSE "clear"
    OBVIOUS
  <2>2. went = {} /\ Switch!Becomes(d, reg[s] + 1, p, sees)
    BY <1>2, <2>1 DEF Switch!AddImm, Switch!Reading
  <2>3. RegOk(s)
    BY <2>2 DEF SwitchInv
  <2>4. sees = "lost" \/ p = Switch!Unknown \/ (p = <<"const">> /\ Followed(s) /\ sight[s] = "clear")
    BY <2>1, <2>3 DEF RegOk
  <2>5. p = <<"const">> /\ sees # "lost" =>
          s \in DOMAIN const /\ const[s] = reg[s] /\ const[s] \in Nat
    BY <2>1, <2>4, PathKinds DEF Followed, Switch!IsBase, BasePath
  <2>6. CASE s \in DOMAIN const
    <3>1. Switch!IsConst(d, const[s] + 1)
      BY <1>2, <2>6 DEF Switch!AddImm
    <3> QED
      BY <2>2, <2>4, <2>5, <3>1, ConstKeeps
  <2>7. CASE s \notin DOMAIN const
    <3>1. Switch!Invalidate(d)
      BY <1>2, <2>7 DEF Switch!AddImm
    <3> QED
      BY <2>2, <2>4, <2>5, <2>7, <3>1, ForgetKeeps
  <2> QED
    BY <2>6, <2>7
<1> QED
  BY <1>1, <1>2

(* What is forgotten of a base leaves the last one seen.                   *)
LEMMA ForgottenKeeps ==
  ASSUME SwitchInv, went = {}, NEW d \in GuestThreads,
         UNCHANGED <<words, reg, path, targets, went>>,
         Switch!Glimpsed(d, Switch!Forgotten(d)),
         \A r \in GuestThreads \ {d} : KnownStays(r),
         UNCHANGED seen, d \notin DOMAIN const', d \notin DOMAIN load'
  PROVE  SwitchInv'
<1>1. PICK p, s : p = path[d] /\ s = Switch!Forgotten(d)
  OBVIOUS
<1>2. ASSUME sight[d] # "lost", s # "lost", sight'[d] = s PROVE Followed(d)'
  <2>1. Followed(d)
    BY <1>2 DEF SwitchInv, RegOk
  <2>2. CASE BasePath(p)
    <3>1. s = "last"
      BY <1>1, <2>2 DEF Switch!Forgotten, Switch!IsBase, BasePath
    <3>2. d \in DOMAIN seen /\ seen[d] = reg[d] /\ reg[d] \in Nat
      BY <1>1, <2>1, <2>2 DEF Followed
    <3> QED
      BY <1>1, <1>2, <2>2, <3>1, <3>2, PathKinds DEF Followed
  <2>3. CASE ~BasePath(p)
    <3>1. p[1] \notin {"entry", "target", "indexed"}
      BY <1>1, <1>2, <2>3 DEF Switch!Forgotten, Switch!IsBase, BasePath
    <3> QED
      BY <1>1, <2>3, <3>1 DEF Followed
  <2> QED
    BY <2>2, <2>3
<1> QED
  BY <1>1, <1>2, OneReading

(* An instruction that is read and not run: it forgets, takes for a table, *)
(* or takes for a base.                                                    *)
LEMMA NotTakenKeeps ==
  ASSUME SwitchInv, NEW d \in GuestThreads, Switch!NotTaken(d)
  PROVE  SwitchInv'
<1>1. went = {} /\ UNCHANGED <<words, reg, path, targets, went>>
  BY DEF Switch!NotTaken, Switch!Reading
<1>2. CASE Switch!Invalidate(d) /\ Switch!Glimpsed(d, Switch!Forgotten(d))
  <2>1. \A r \in GuestThreads \ {d} : KnownStays(r)
    BY <1>2, PutOne, TakeOne DEF Switch!Invalidate, KnownStays, SameAt
  <2>2. UNCHANGED seen /\ d \notin DOMAIN const' /\ d \notin DOMAIN load'
    BY <1>2, TakeOne DEF Switch!Invalidate
  <2> QED
    BY <1>1, <1>2, <2>1, <2>2, ForgottenKeeps
<1>3. ASSUME NEW a \in GuestThreads, NEW b \in GuestThreads, NEW shift, NEW byte,
             Switch!Adds(d, a, b, shift, byte), Switch!Glimpsed(d, Switch!Forgotten(d))
      PROVE  SwitchInv'
  <2>1. \A r \in GuestThreads \ {d} : KnownStays(r)
    BY <1>3, LearnOne, TakeOne DEF Switch!Adds, KnownStays, SameAt
  <2>2. UNCHANGED seen /\ d \notin DOMAIN const' /\ d \notin DOMAIN load'
    BY <1>3, TakeOne DEF Switch!Adds
  <2> QED
    BY <1>1, <1>3, <2>1, <2>2, ForgottenKeeps
<1>4. ASSUME NEW b \in GuestThreads, Switch!Loads(d, b),
             Switch!Glimpsed(d, IF Switch!Base(b) = {} THEN Switch!Forgotten(d) ELSE "lost")
      PROVE  SwitchInv'
  <2>1. \A r \in GuestThreads \ {d} : KnownStays(r)
    BY <1>4, LearnOne, TakeOne DEF Switch!Loads, KnownStays, SameAt
  <2>2. CASE Switch!Base(b) # {}
    <3>1. Switch!Glimpsed(d, "lost")
      BY <1>4, <2>2
    <3> QED
      BY <1>1, <2>1, <3>1, OneReading
  <2>3. CASE Switch!Base(b) = {}
    <3>1. Switch!Glimpsed(d, Switch!Forgotten(d))
      BY <1>4, <2>3
    <3>2. UNCHANGED seen /\ d \notin DOMAIN const' /\ d \notin DOMAIN load'
      BY <1>4, <2>3, TakeOne, LearnOne DEF Switch!Loads
    <3> QED
      BY <1>1, <2>1, <3>1, <3>2, ForgottenKeeps
  <2> QED
    BY <2>2, <2>3
<1>5. ASSUME NEW v, Switch!IsConst(d, v),
             Switch!Glimpsed(d, IF ~Switch!IsBase(d) THEN Switch!Forgotten(d)
                                ELSE IF v = reg[d] THEN "clear" ELSE "lost")
      PROVE  SwitchInv'
  <2>1. \A r \in GuestThreads \ {d} : KnownStays(r)
    BY <1>5, PutOne, TakeOne DEF Switch!IsConst, KnownStays
  <2>2. /\ d \in DOMAIN const' /\ const'[d] = v /\ d \in DOMAIN seen' /\ seen'[d] = v
        /\ d \notin DOMAIN load'
    BY <1>5, PutOne, TakeOne DEF Switch!IsConst
  <2>3. PICK p, s : /\ p = path[d]
                    /\ s = IF ~Switch!IsBase(d) THEN Switch!Forgotten(d)
                           ELSE IF v = reg[d] THEN "clear" ELSE "lost"
    OBVIOUS
  <2>4. ASSUME sight[d] # "lost", s # "lost", sight'[d] = s PROVE Followed(d)'
    <3>1. Followed(d)
      BY <1>1, <2>4 DEF SwitchInv, RegOk
    <3>2. CASE BasePath(p)
      <4>1. v = reg[d] /\ reg[d] \in Nat
        BY <2>3, <2>4, <3>1, <3>2 DEF Followed, Switch!IsBase, BasePath
      <4> QED
        BY <1>1, <2>2, <2>3, <3>2, <4>1, PathKinds DEF Followed
    <3>3. CASE ~BasePath(p)
      <4>1. p[1] \notin {"entry", "target", "indexed"}
        BY <2>3, <2>4, <3>3 DEF Switch!Forgotten, Switch!IsBase, BasePath
      <4> QED
        BY <1>1, <2>2, <2>3, <3>3, <4>1 DEF Followed
    <3> QED
      BY <3>2, <3>3
  <2>5. Switch!Glimpsed(d, s)
    BY <1>5, <2>3
  <2> QED
    BY <1>1, <2>1, <2>4, <2>5, OneReading
<1> QED
  BY <1>2, <1>3, <1>4, <1>5 DEF Switch!NotTaken

(* One that is run and not read since.                                     *)
LEMMA ElsewhereKeeps ==
  ASSUME SwitchInv, NEW d \in GuestThreads, NEW v, Switch!StandsElsewhere(d, v)
  PROVE  SwitchInv'
<1>1. went = {} /\ Switch!Becomes(d, v, Switch!Unknown, "lost")
  BY DEF Switch!StandsElsewhere, Switch!Reading
<1>2. \A r \in GuestThreads \ {d} : KnownStays(r)
  BY DEF Switch!StandsElsewhere, Switch!known, KnownStays, SameAt
<1> QED
  BY <1>1, <1>2, OneRegister

(* A pair: what was known of the second register stays, its path does not. *)
LEMMA PairKeeps ==
  ASSUME SwitchInv, NEW d \in GuestThreads, NEW e \in GuestThreads, NEW v, Switch!WritesPair(d, e, v)
  PROVE  SwitchInv'
<1>1. /\ went = {} /\ d # e /\ Switch!Invalidate(d) /\ UNCHANGED <<words, targets, went>>
      /\ reg' = [reg EXCEPT ![d] = v, ![e] = v]
      /\ path' = [path EXCEPT ![d] = Switch!Unknown, ![e] = <<"second">>]
      /\ sight' = [sight EXCEPT ![d] = "clear", ![e] = "clear"]
  BY DEF Switch!WritesPair, Switch!Reading
<1>2. \A r \in GuestThreads \ {d} : KnownStays(r)
  BY <1>1, PutOne, TakeOne DEF Switch!Invalidate, KnownStays, SameAt
<1>3. /\ DOMAIN reg' = GuestThreads /\ DOMAIN path' = GuestThreads /\ DOMAIN sight' = GuestThreads
      /\ path'[d] = Switch!Unknown /\ path'[e] = <<"second">>
      /\ \A r \in GuestThreads \ {d, e} :
            reg'[r] = reg[r] /\ path'[r] = path[r] /\ sight'[r] = sight[r]
  BY <1>1 DEF SwitchInv
<1>4. \A r \in GuestThreads \ {d, e} : RegOk(r)'
  BY <1>1, <1>2, <1>3, RegStands DEF SwitchInv
<1>5. RegOk(d)'
  <2>1. d \notin DOMAIN load'
    BY <1>1, TakeOne DEF Switch!Invalidate
  <2> QED
    BY <2>1, <1>3, PathKinds DEF RegOk, Followed
<1>6. RegOk(e)'
  BY <1>3, PathKinds DEF RegOk, Followed, FromElement
<1> QED
  BY <1>1, <1>3, <1>4, <1>5, <1>6 DEF SwitchInv

(* The base of a register that holds one is that one.                      *)
LEMMA BaseOf ==
  ASSUME NEW r, RegOk(r), sight[r] # "lost", Switch!IsBase(r)
  PROVE  Switch!Base(r) = {reg[r]} /\ reg[r] \in Nat /\ r \notin DOMAIN load
<1>1. BasePath(path[r]) /\ ~FromElement(path[r])
  BY PathKinds DEF Switch!IsBase, BasePath, FromElement
<1> QED
  BY <1>1 DEF RegOk, Followed, Switch!Base

(* A word of the image is loaded: an entry, when the first register was a  *)
(* base, and the lifter knows of which table.                              *)
LEMMA LoadKeeps ==
  ASSUME SwitchInv, NEW d \in GuestThreads, NEW b \in GuestThreads, NEW i \in GuestThreads,
         Switch!Load(d, b, i)
  PROVE  SwitchInv'
<1>1. PICK x, y, v : x = reg[b] /\ y = reg[i] /\ v = words[x + y]
  OBVIOUS
<1>2. PICK p : p = IF Switch!IsBase(b) THEN <<"entry", x, y>> ELSE <<"element">>
  OBVIOUS
<1>2a. PICK s : s = IF Switch!IsBase(b) THEN Switch!Sees(p, {b}) ELSE "clear"
  OBVIOUS
<1>3. /\ went = {} /\ x + y \in DOMAIN words /\ Switch!Loads(d, b) /\ Switch!Becomes(d, v, p, s)
  BY <1>1, <1>2, <1>2a DEF Switch!Load, Switch!Reading, Switch!Read
<1>4. \A r \in GuestThreads \ {d} : KnownStays(r)
  BY <1>3, LearnOne, TakeOne DEF Switch!Loads, KnownStays, SameAt
<1>5. UNCHANGED words
  BY <1>3 DEF Switch!Becomes
<1>6. CASE Switch!IsBase(b)
  <2>1. RegOk(b)
    BY <1>3 DEF SwitchInv
  <2>4. p = <<"entry", x, y>> /\ p[1] = "entry" /\ p[2] = x /\ p[3] = y /\ ~BasePath(p)
    <3>1. p = <<"entry", x, y>> /\ p[1] = "entry" /\ p[2] = x /\ p[3] = y
      BY <1>2, <1>6
    <3> QED
      BY <3>1, PathKinds
  <2>5. ASSUME reg'[d] = v, path'[d] = p, s # "lost" PROVE Followed(d)'
    <3>1. sight[b] # "lost"
      BY <1>2a, <1>6, <2>4, <2>5, PathKinds DEF Switch!Sees
    <3>2. Switch!Base(b) = {x} /\ x \in Nat
      BY <1>1, <1>6, <2>1, <3>1, BaseOf
    <3>3. d \in DOMAIN load' /\ load'[d] = x
      BY <1>3, <3>2, LearnOne DEF Switch!Loads
    <3>4. IsEntry(p, v)'
      BY <1>1, <1>3, <1>5, <2>4, <3>2 DEF IsEntry
    <3> QED
      BY <2>4, <2>5, <3>3, <3>4 DEF Followed, FromElement
  <2> QED
    BY <1>3, <1>4, <2>5, OneRegister
<1>7. CASE ~Switch!IsBase(b)
  <2>1. p = <<"element">>
    BY <1>2, <1>7
  <2>2. reg'[d] = v /\ path'[d] = p => Followed(d)'
    BY <2>1, PathKinds DEF Followed, FromElement
  <2> QED
    BY <1>3, <1>4, <2>2, OneRegister
<1> QED
  BY <1>6, <1>7

(* The parts of what an addition says and makes.                           *)
LEMMA AddParts ==
  ASSUME SwitchInv, NEW d \in GuestThreads, NEW a \in GuestThreads, NEW b \in GuestThreads,
         NEW shift, NEW byte, Switch!AddReg(d, a, b, shift, byte)
  PROVE  /\ went = {} /\ RegOk(a) /\ RegOk(b) /\ UNCHANGED words
         /\ byte => reg[b] \in Bytes
         /\ Switch!Adds(d, a, b, shift, byte)
         /\ \A r \in GuestThreads \ {d} : KnownStays(r)
         /\ d \notin DOMAIN load'
<1>1. went = {} /\ Switch!Adds(d, a, b, shift, byte) /\ (byte => reg[b] \in Bytes)
  BY DEF Switch!AddReg, Switch!Reading
<1>2. UNCHANGED words
  BY DEF Switch!AddReg, Switch!Becomes
<1>3. \A r \in GuestThreads \ {d} : KnownStays(r)
  BY <1>1, LearnOne, TakeOne DEF Switch!Adds, KnownStays, SameAt
<1>4. d \notin DOMAIN load'
  BY <1>1, TakeOne DEF Switch!Adds
<1>5. RegOk(a) /\ RegOk(b)
  BY <1>1 DEF SwitchInv
<1> QED
  BY <1>1, <1>2, <1>3, <1>4, <1>5

(* What is known of a target, once the lifter has it pending.              *)
LEMMA TargetOk ==
  ASSUME NEW d, NEW v, NEW t, NEW j, NEW x, NEW shift,
         UNCHANGED words, d \notin DOMAIN load',
         d \in DOMAIN pend', pend'[d] = <<t, x, shift>>,
         t \in Nat, t + j \in DOMAIN words, v = x + words[t + j] * 2 ^ shift,
         reg'[d] = v, path'[d] = <<"target", t, j, x, shift>>
  PROVE  Followed(d)'
<1>1. PICK p : p = <<"target", t, j, x, shift>>
  OBVIOUS
<1>2. p[1] = "target" /\ p[2] = t /\ p[3] = j /\ p[4] = x /\ p[5] = shift
  BY <1>1
<1>3. ~BasePath(p)
  BY <1>2, PathKinds
<1>4. IsTarget(p, v)'
  BY <1>2 DEF IsTarget
<1>5. path'[d] = p
  BY <1>1
<1> QED
  BY <1>2, <1>3, <1>4, <1>5 DEF Followed

(* What is built of two registers is lost when one of them is.             *)
LEMMA BuiltOf ==
  ASSUME NEW a, NEW b, NEW p, Switch!Sees(p, {a, b}) # "lost", p[1] # "unknown"
  PROVE  sight[a] # "lost" /\ sight[b] # "lost"
BY PathKinds DEF Switch!Sees

(* A base, and the entry of a table: the branch of a switch.               *)
LEMMA BaseEntryKeeps ==
  ASSUME SwitchInv, NEW d \in GuestThreads, NEW a \in GuestThreads, NEW b \in GuestThreads,
         NEW shift, NEW byte, Switch!AddReg(d, a, b, shift, byte),
         Switch!IsBase(a), path[b][1] = "entry"
  PROVE  SwitchInv'
<1>1. PICK x, y, t, j : x = reg[a] /\ y = reg[b] /\ t = path[b][2] /\ j = path[b][3]
  OBVIOUS
<1>2. PICK p, s : p = <<"target", t, j, x, shift>> /\ s = Switch!Sees(p, {a, b})
  OBVIOUS
<1>2a. Switch!Becomes(d, x + y * 2 ^ shift, p, s)
  BY <1>1, <1>2 DEF Switch!AddReg
<1>2b. SUFFICES ASSUME s # "lost", reg'[d] = x + y * 2 ^ shift, path'[d] = p
                PROVE  Followed(d)'
  BY <1>2a, AddParts, OneRegister
<1>2c. sight[a] # "lost" /\ sight[b] # "lost"
  <2>1. p[1] # "unknown"
    BY <1>2
  <2> QED
    BY <1>2, <1>2b, <2>1, BuiltOf
<1>3. Switch!Base(a) = {x} /\ a \notin DOMAIN load
  BY <1>1, <1>2c, AddParts, BaseOf
<1>4. b \in DOMAIN load /\ load[b] = t /\ t \in Nat /\ t + j \in DOMAIN words /\ y = words[t + j]
  BY <1>1, <1>2c, AddParts DEF RegOk, Followed, IsEntry
<1>5. Switch!Only({x}) = x
  BY DEF Switch!Only
<1>6. Switch!Pending(a, b, shift) = {<<t, x, shift>>}
  BY <1>3, <1>4, <1>5 DEF Switch!Pending
<1>7. d \in DOMAIN pend' /\ pend'[d] = <<t, x, shift>>
  <2>1. PICK q, S : q = <<t, x, shift>> /\ S = Switch!Pending(a, b, shift)
    OBVIOUS
  <2>2. pend' = Switch!Learns(pend, d, S)
    BY <2>1, AddParts DEF Switch!Adds
  <2>3. S = {q} /\ S # {}
    BY <1>6, <2>1
  <2> QED
    BY <2>1, <2>2, <2>3, LearnOne
<1> QED
  BY <1>2, <1>2b, <1>4, <1>7, AddParts, TargetOk

(* The same the other way round, with nothing shifted.                     *)
LEMMA EntryBaseKeeps ==
  ASSUME SwitchInv, NEW d \in GuestThreads, NEW a \in GuestThreads, NEW b \in GuestThreads,
         NEW byte, Switch!AddReg(d, a, b, 0, byte),
         ~(Switch!IsBase(a) /\ path[b][1] = "entry"),
         Switch!IsBase(b), path[a][1] = "entry"
  PROVE  SwitchInv'
<1>1. PICK x, y, t, j : x = reg[a] /\ y = reg[b] /\ t = path[a][2] /\ j = path[a][3]
  OBVIOUS
<1>2. PICK p, s : p = <<"target", t, j, y, 0>> /\ s = Switch!Sees(p, {a, b})
  OBVIOUS
<1>2a. Switch!Becomes(d, x + y * 2 ^ 0, p, s)
  BY <1>1, <1>2 DEF Switch!AddReg
<1>2b. SUFFICES ASSUME s # "lost", reg'[d] = x + y * 2 ^ 0, path'[d] = p
                PROVE  Followed(d)'
  BY <1>2a, AddParts, OneRegister
<1>2c. sight[a] # "lost" /\ sight[b] # "lost"
  <2>1. p[1] # "unknown"
    BY <1>2
  <2> QED
    BY <1>2, <1>2b, <2>1, BuiltOf
<1>3. Switch!Base(b) = {y} /\ y \in Nat
  BY <1>1, <1>2c, AddParts, BaseOf
<1>4. a \in DOMAIN load /\ load[a] = t /\ t \in Nat /\ t + j \in DOMAIN words /\ x = words[t + j]
  BY <1>1, <1>2c, AddParts DEF RegOk, Followed, IsEntry
<1>5. Switch!Only({y}) = y
  BY DEF Switch!Only
<1>6. Switch!Pending(a, b, 0) = {<<t, y, 0>>}
  BY <1>3, <1>4, <1>5 DEF Switch!Pending
<1>7. d \in DOMAIN pend' /\ pend'[d] = <<t, y, 0>>
  <2>1. PICK q, S : q = <<t, y, 0>> /\ S = Switch!Pending(a, b, 0)
    OBVIOUS
  <2>2. pend' = Switch!Learns(pend, d, S)
    BY <2>1, AddParts DEF Switch!Adds
  <2>3. S = {q} /\ S # {}
    BY <1>6, <2>1
  <2> QED
    BY <2>1, <2>2, <2>3, LearnOne
<1>8. x + y * 2 ^ 0 = y + words[t + j] * 2 ^ 0
  <2>1. words[t + j] \in Int
    BY <1>4 DEF SwitchInv
  <2> QED
    BY <1>3, <1>4, <2>1
<1> QED
  BY <1>2, <1>2b, <1>4, <1>7, <1>8, AddParts, TargetOk

(* A base and an index extended from a byte: the lifter takes it for one,  *)
(* unless it takes the index for an entry.                                 *)
LEMMA IndexedKeeps ==
  ASSUME SwitchInv, NEW d \in GuestThreads, NEW a \in GuestThreads, NEW b \in GuestThreads,
         NEW shift, Switch!AddReg(d, a, b, shift, TRUE), Switch!IsBase(a), path[b][1] # "entry",
         ~(Switch!IsBase(b) /\ path[a][1] = "entry" /\ shift = 0)
  PROVE  SwitchInv'
<1>1. PICK x, y, k : x = reg[a] /\ y = reg[b] /\ k = path[b][1]
  OBVIOUS
<1>2. PICK p : p = <<"indexed", x, shift, k>>
  OBVIOUS
<1>2a. PICK s : s = Switch!Sees(p, {a, b})
  OBVIOUS
<1>3. Switch!Becomes(d, x + y * 2 ^ shift, p, s)
  BY <1>1, <1>2, <1>2a DEF Switch!AddReg
<1>3a. SUFFICES ASSUME s # "lost", reg'[d] = x + y * 2 ^ shift, path'[d] = p
                PROVE  Followed(d)'
  BY <1>3, AddParts, OneRegister
<1>4. p[1] = "indexed" /\ p[2] = x /\ p[3] = shift /\ p[4] = k
  BY <1>2
<1>5. ~BasePath(p)
  BY <1>4, PathKinds
<1>5a. sight[a] # "lost" /\ sight[b] # "lost"
  <2>1. p[1] # "unknown"
    BY <1>4
  <2> QED
    BY <1>2a, <1>3a, <2>1, BuiltOf
<1>6. Switch!Base(a) = {x} /\ a \notin DOMAIN load
  BY <1>1, <1>5a, AddParts, BaseOf
<1>7. y \in Bytes
  BY <1>1, AddParts
<1>8. ASSUME Switch!InFunction(x), k \in Switch!NoElement
      PROVE  /\ d \notin DOMAIN pend' /\ d \in DOMAIN pend_reg' /\ pend_reg'[d] = <<x, shift>>
  <2>1. b \notin DOMAIN load
    BY <1>1, <1>5a, <1>8, AddParts DEF RegOk, Followed, FromElement, Switch!NoElement
  <2>2. Switch!Pending(a, b, shift) = {}
    BY <1>6, <2>1 DEF Switch!Pending
  <2>3. Switch!Reached(a, b, shift, TRUE) = {<<x, shift>>}
    <3>1. {v \in Switch!Base(a) : Switch!InFunction(v)} = {x}
      BY <1>6, <1>8
    <3>2. Switch!Only({x}) = x
      BY DEF Switch!Only
    <3> QED
      BY <3>1, <3>2 DEF Switch!Reached
  <2>4. PICK q, S, T : /\ q = <<x, shift>> /\ T = Switch!Pending(a, b, shift)
                       /\ S = IF Switch!Pending(a, b, shift) = {}
                              THEN Switch!Reached(a, b, shift, TRUE) ELSE {}
    OBVIOUS
  <2>5. pend' = Switch!Learns(pend, d, T) /\ pend_reg' = Switch!Learns(pend_reg, d, S)
    BY <2>4, AddParts DEF Switch!Adds
  <2>6. S = {q} /\ S # {} /\ T = {}
    BY <2>2, <2>3, <2>4
  <2>7. d \notin DOMAIN pend'
    BY <2>5, <2>6, LearnOne
  <2>8. d \in DOMAIN pend_reg' /\ pend_reg'[d] = q
    BY <2>5, <2>6, LearnOne
  <2> QED
    BY <2>4, <2>7, <2>8
<1>9. d \notin DOMAIN load'
  BY AddParts
<1>10. reg'[d] = p[2] + y * 2 ^ p[3]
  BY <1>3a, <1>4
<1> QED
  BY <1>3a, <1>4, <1>5, <1>7, <1>8, <1>9, <1>10 DEF Followed

(* add of two registers.                                                   *)
LEMMA AddRegKeeps ==
  ASSUME SwitchInv, NEW d \in GuestThreads, NEW a \in GuestThreads, NEW b \in GuestThreads,
         NEW shift, NEW byte \in BOOLEAN, Switch!AddReg(d, a, b, shift, byte)
  PROVE  SwitchInv'
<1>1. CASE Switch!IsBase(a) /\ path[b][1] = "entry"
  BY <1>1, BaseEntryKeeps
<1>2. CASE /\ ~(Switch!IsBase(a) /\ path[b][1] = "entry")
           /\ Switch!IsBase(b) /\ path[a][1] = "entry" /\ shift = 0
  BY <1>2, EntryBaseKeeps
<1>3. CASE /\ ~(Switch!IsBase(a) /\ path[b][1] = "entry")
           /\ ~(Switch!IsBase(b) /\ path[a][1] = "entry" /\ shift = 0)
           /\ Switch!IsBase(a) /\ byte
  <2>1. byte = TRUE /\ path[b][1] # "entry"
    BY <1>3
  <2> QED
    BY <1>3, <2>1, IndexedKeeps
<1>4. CASE /\ ~(Switch!IsBase(a) /\ path[b][1] = "entry")
           /\ ~(Switch!IsBase(b) /\ path[a][1] = "entry" /\ shift = 0)
           /\ ~(Switch!IsBase(a) /\ byte)
  <2>1. Switch!Becomes(d, reg[a] + reg[b] * 2 ^ shift, Switch!Unknown,
                       Switch!Sees(Switch!Unknown, {a, b}))
    BY <1>4 DEF Switch!AddReg
  <2>2. reg'[d] = reg[a] + reg[b] * 2 ^ shift /\ path'[d] = Switch!Unknown => Followed(d)'
    BY AddParts, PathKinds DEF Followed
  <2> QED
    BY <2>1, <2>2, AddParts, OneRegister
<1> QED
  BY <1>1, <1>2, <1>3, <1>4

(* The largest of the places of an image is the last.                      *)
LEMMA LastWord ==
  ASSUME NEW n \in Nat, n # 0
  PROVE  Switch!Max(1 .. n) = n
<1>1. \A x \in 1 .. n : (\A y \in 1 .. n : x >= y) => x = n
  OBVIOUS
<1>2. n \in 1 .. n /\ \A y \in 1 .. n : n >= y
  OBVIOUS
<1> QED
  BY <1>1, <1>2 DEF Switch!Max

(* The branch: the entries the lifter reads hold the one taken, and the    *)
(* addresses it takes a byte to reach hold the one computed.               *)
LEMMA BranchLands ==
  ASSUME SwitchInv, NEW d \in GuestThreads, Switch!Br(d)
  PROVE  SwitchInv'
<1>1. PICK p, v : p = path[d] /\ v = reg[d]
  OBVIOUS
<1>2. /\ went = {} /\ went' = {v} /\ UNCHANGED <<words, reg, sight>>
      /\ targets' = IF d \in DOMAIN pend THEN Switch!Entries(pend[d])
                    ELSE IF d \in DOMAIN pend_reg THEN Switch!Indexed(pend_reg[d]) ELSE {}
      /\ path' = [r \in GuestThreads |-> IF r = d THEN p ELSE <<"done">>]
  BY <1>1 DEF Switch!Br, Switch!known
<1>3. RegOk(d)
  BY <1>2 DEF SwitchInv
<1>4. ASSUME Switch!ThroughTable(p)', sight[d] # "lost" PROVE v \in targets'
  <2>1. /\ p[1] = "target" /\ p[3] \in Nat
        /\ \A k \in 0 .. p[3] : /\ p[2] + k \in DOMAIN words
                                /\ Switch!InFunction(p[4] + words[p[2] + k] * 2 ^ p[5])
    BY <1>2, <1>4 DEF Switch!ThroughTable, Switch!InFunction
  <2>2. PICK t, j, x, s : t = p[2] /\ j = p[3] /\ x = p[4] /\ s = p[5]
    OBVIOUS
  <2>3. /\ d \in DOMAIN pend /\ pend[d] = <<t, x, s>>
        /\ t \in Nat /\ t + j \in DOMAIN words /\ v = x + words[t + j] * 2 ^ s
    BY <1>1, <1>3, <1>4, <2>1, <2>2 DEF RegOk, Followed, IsTarget
  <2>4. \A k \in 0 .. j : t + k \in DOMAIN words /\ Switch!InFunction(x + words[t + k] * 2 ^ s)
    BY <2>1, <2>2
  <2>5. PICK q : q = <<t, x, s>>
    OBVIOUS
  <2>6. q[1] = t /\ q[2] = x /\ q[3] = s
    BY <2>5
  <2>7. j \in 0 .. Switch!Max(DOMAIN words)
    <3>1. DOMAIN words = 1 .. Len(words) /\ Len(words) \in Nat
      BY DEF SwitchInv
    <3>2. Len(words) # 0 /\ j <= Len(words)
      BY <2>1, <2>2, <2>3, <3>1
    <3>3. PICK n : n = Len(words)
      OBVIOUS
    <3>4. n \in Nat /\ n # 0 /\ DOMAIN words = 1 .. n
      BY <3>1, <3>2, <3>3
    <3>5. Switch!Max(DOMAIN words) = n
      BY <3>4, LastWord
    <3>6. j \in Nat /\ j <= n
      BY <2>1, <2>2, <3>2, <3>3
    <3> QED
      BY <3>5, <3>6
  <2>8. v \in Switch!Entries(q)
    BY <2>3, <2>4, <2>6, <2>7 DEF Switch!Entries, Switch!Read
  <2> QED
    BY <1>2, <2>3, <2>5, <2>8
<1>5. ASSUME Switch!Computed(p)', p[4] \in Switch!NoElement, sight[d] # "lost"
      PROVE  v \in targets'
  <2>1. p[1] = "indexed" /\ Switch!InFunction(p[2]) /\ Switch!InFunction(v)
    BY <1>2, <1>5 DEF Switch!Computed, Switch!InFunction
  <2>2. PICK x, s : x = p[2] /\ s = p[3]
    OBVIOUS
  <2>3. /\ d \notin DOMAIN pend /\ d \in DOMAIN pend_reg /\ pend_reg[d] = <<x, s>>
        /\ \E k \in Bytes : v = x + k * 2 ^ s
    BY <1>1, <1>3, <1>5, <2>1, <2>2 DEF RegOk, Followed
  <2>4. PICK q : q = <<x, s>>
    OBVIOUS
  <2>5. q[1] = x /\ q[2] = s
    BY <2>4
  <2>6. v \in Switch!Indexed(q)
    BY <2>1, <2>3, <2>5 DEF Switch!Indexed
  <2> QED
    BY <1>2, <2>3, <2>4, <2>6
<1>6. \A r \in GuestThreads : r # d => path'[r] = <<"done">>
  BY <1>2
<1>7. <<"done">>[1] = "done"
  OBVIOUS
<1>8. path'[d] = p /\ DOMAIN path' = GuestThreads
  BY <1>2
<1>9. Switch!SwitchLands'
  <2> SUFFICES ASSUME NEW r \in GuestThreads, sight'[r] # "lost",
                      \/ Switch!ThroughTable(path[r])'
                      \/ Switch!Computed(path[r])' /\ path'[r][4] \in Switch!NoElement
               PROVE  Switch!Lands' = "goto"
    BY DEF Switch!SwitchLands
  <2>1. r = d /\ path'[r] = p
    BY <1>6, <1>7, <1>8 DEF Switch!ThroughTable, Switch!Computed
  <2>2. v \in targets'
    BY <1>2, <1>4, <1>5, <2>1 DEF Switch!ThroughTable, Switch!Computed
  <2> QED
    BY <1>2, <2>2 DEF Switch!Lands
<1> QED
  BY <1>2, <1>8, <1>9 DEF SwitchInv

(* Nothing is known in the beginning, and nothing built.                   *)
LEMMA SwitchBegins ==
  ASSUME HostAssumption, Switch!Init
  PROVE  SwitchInv
<1>1. words \in Seq(Int) \ {<<>>}
  BY DEF HostAssumption, Switch!TablesAssumption, Switch!Init
<1>2. DOMAIN reg = GuestThreads /\ DOMAIN path = GuestThreads /\ DOMAIN sight = GuestThreads
      /\ went = {}
      /\ \A r \in GuestThreads : path[r] = Switch!Unknown /\ r \notin DOMAIN load
  BY DEF Switch!Init, Switch!NothingKnown
<1>3. \A r \in GuestThreads : RegOk(r)
  BY <1>2, PathKinds DEF RegOk, Followed
<1> QED
  BY <1>1, <1>2, <1>3 DEF SwitchInv

(* One instruction of every kind.                                          *)
LEMMA SwitchSteps ==
  ASSUME HostAssumption, SwitchInv, Switch!Next
  PROVE  SwitchInv'
<1>1. PICK d \in GuestThreads :
        \/ Switch!Br(d) \/ Switch!NotTaken(d)
        \/ \E v \in Adrs : Switch!Adr(d, v) \/ Switch!StandsElsewhere(d, v)
        \/ \E v \in Loose : Switch!Other(d, v) \/ \E e \in GuestThreads : Switch!WritesPair(d, e, v)
        \/ \E s \in GuestThreads : \/ Switch!AddImm(d, s, 1)
                                   \/ \E b \in GuestThreads : Switch!Load(d, b, s)
        \/ \E a, b \in GuestThreads, shift \in TableShifts, byte \in BOOLEAN :
              Switch!AddReg(d, a, b, shift, byte)
  BY DEF Switch!Next
<1>2. CASE Switch!Br(d)
  BY <1>2, BranchLands
<1>3. CASE Switch!NotTaken(d)
  BY <1>3, NotTakenKeeps
<1>4. CASE (\E v \in Adrs : Switch!Adr(d, v)) \/ (\E s \in GuestThreads : Switch!AddImm(d, s, 1))
  BY <1>4, AddsKeep
<1>5. ASSUME NEW v \in Loose, Switch!Other(d, v) PROVE SwitchInv'
  BY <1>5, ForgetKeeps DEF Switch!Other, Switch!Reading
<1>6. ASSUME NEW v \in Loose, NEW e \in GuestThreads, Switch!WritesPair(d, e, v) PROVE SwitchInv'
  BY <1>6, PairKeeps
<1>7. ASSUME NEW s \in GuestThreads, NEW b \in GuestThreads, Switch!Load(d, b, s) PROVE SwitchInv'
  BY <1>7, LoadKeeps
<1>8. ASSUME NEW a \in GuestThreads, NEW b \in GuestThreads, NEW shift, NEW byte \in BOOLEAN,
             Switch!AddReg(d, a, b, shift, byte)
      PROVE  SwitchInv'
  BY <1>8, AddRegKeeps
<1>9. ASSUME NEW v \in Adrs, Switch!StandsElsewhere(d, v) PROVE SwitchInv'
  BY <1>9, ElsewhereKeeps
<1> QED
  BY <1>1, <1>2, <1>3, <1>4, <1>5, <1>6, <1>7, <1>8, <1>9

(* A step of the lifter and the machine, or of anything else.              *)
LEMMA SwitchKeeps ==
  ASSUME HostAssumption, SwitchInv, Switch!Next \/ UNCHANGED switchVars
  PROVE  SwitchInv'
<1>1. CASE UNCHANGED switchVars
  <2>1. /\ UNCHANGED <<words, reg, path, sight, went, targets>>
        /\ \A r \in GuestThreads : KnownStays(r)
    BY <1>1 DEF switchVars, KnownStays, SameAt
  <2>2. CASE went = {}
    <3>1. \A r \in GuestThreads : RegOk(r)'
      BY <2>1, <2>2, RegStands DEF SwitchInv
    <3> QED
      BY <2>1, <2>2, <3>1 DEF SwitchInv
  <2>3. CASE went # {}
    <3>1. Switch!SwitchLands'
      BY <2>1, <2>3 DEF SwitchInv, Switch!SwitchLands, Switch!Lands, Switch!ThroughTable,
                        Switch!Computed, Switch!InFunction
    <3> QED
      BY <2>1, <2>3, <3>1 DEF SwitchInv
  <2> QED
    BY <2>2, <2>3
<1> QED
  BY <1>1, SwitchSteps

(* What it comes to.                                                       *)
LEMMA SwitchSound == SwitchInv => SwitchLands
BY DEF SwitchInv, SwitchLands, Switch!SwitchLands

-----------------------------------------------------------------------------
(* Preferences.  What the title is promised is in the map, once it is      *)
(* loaded, or can still be read from the file; what it is promised after a *)
(* restart can be read from the file, unless a save is under way: then the *)
(* file has the lines of the keys that are no longer waiting.              *)
Reads(k) == IF k \in Prefs!Readable THEN prefsFile[k] ELSE Prefs!Nothing
Promised(p, v) == p \in {Prefs!Unsaid, v}

PrefTypes ==
    /\ g_prefs \in [Prefs!Keys -> Prefs!Stored \cup {Prefs!Nothing}] /\ g_prefs_loaded \in BOOLEAN
    /\ saving \subseteq Prefs!Keys /\ prefsFile \in [DOMAIN prefsFile -> Prefs!Stored]
    /\ DOMAIN prefsFile \subseteq Prefs!Keys
    /\ locked \in BOOLEAN /\ (~locked => saving = {})
    /\ found \in [GuestThreads -> Prefs!Keys \cup {Prefs!None}] /\ stale \in [GuestThreads -> BOOLEAN]
    /\ due \in [Prefs!Keys -> Values \cup {Prefs!Nothing, Prefs!Unsaid}]
    /\ kept \in [Prefs!Keys -> Values \cup {Prefs!Nothing, Prefs!Unsaid}]
    /\ calls \in 0 .. MaxCalls /\ crashes \in 0 .. MaxCrashes
DueInv ==
    IF g_prefs_loaded
    THEN \A k \in Prefs!Keys : Promised(due[k], g_prefs[k])
    ELSE /\ g_prefs = Prefs!Empty /\ ~locked /\ \A t \in GuestThreads : found[t] = Prefs!None
         /\ \A k \in Prefs!Keys : Promised(due[k], Reads(k))
KeptInv ==
    IF locked
    THEN /\ \A k \in Prefs!Keys : kept[k] = Prefs!Unsaid
         /\ DOMAIN prefsFile = Prefs!Present \ saving /\ saving \subseteq Prefs!Present
         /\ \A k \in DOMAIN prefsFile : prefsFile[k] = g_prefs[k]
    ELSE \A k \in Prefs!Keys : Promised(kept[k], Reads(k))
PrefInv == PrefTypes /\ DueInv /\ KeptInv /\ Promised(answer[2], answer[1])

(* Nothing is stored in the beginning.                                     *)
LEMMA PrefsBegin ==
  ASSUME HostAssumption, Prefs!Init
  PROVE  PrefInv
<1>1. MaxCalls \in Nat /\ MaxCrashes \in Nat
  BY DEF HostAssumption, Prefs!PreferencesAssumption
<1>2. /\ \A k \in Prefs!Keys : g_prefs[k] = Prefs!Nothing /\ due[k] = Prefs!Nothing
                               /\ kept[k] = Prefs!Nothing
      /\ g_prefs = Prefs!Empty /\ due = Prefs!Empty /\ kept = Prefs!Empty
      /\ DOMAIN prefsFile = {} /\ g_prefs_loaded = FALSE /\ locked = FALSE /\ saving = {}
  BY DEF Prefs!Init, Prefs!Empty, Prefs!NoLines
<1>3. PrefTypes
  <2>1. prefsFile = [k \in DOMAIN prefsFile |-> prefsFile[k]]
    BY DEF Prefs!Init, Prefs!NoLines
  <2>2. prefsFile \in [DOMAIN prefsFile -> Prefs!Stored] /\ DOMAIN prefsFile \subseteq Prefs!Keys
    BY <1>2, <2>1
  <2>3. /\ g_prefs \in [Prefs!Keys -> Prefs!Stored \cup {Prefs!Nothing}]
        /\ due \in [Prefs!Keys -> Values \cup {Prefs!Nothing, Prefs!Unsaid}]
        /\ kept \in [Prefs!Keys -> Values \cup {Prefs!Nothing, Prefs!Unsaid}]
    BY <1>2 DEF Prefs!Empty
  <2>4. /\ found \in [GuestThreads -> Prefs!Keys \cup {Prefs!None}]
        /\ stale \in [GuestThreads -> BOOLEAN]
    BY DEF Prefs!Init
  <2>5. calls \in 0 .. MaxCalls /\ crashes \in 0 .. MaxCrashes
    BY <1>1 DEF Prefs!Init
  <2> QED
    BY <1>2, <2>2, <2>3, <2>4, <2>5 DEF PrefTypes
<1>4. \A k \in Prefs!Keys : Reads(k) = Prefs!Nothing
  BY <1>2 DEF Reads, Prefs!Readable
<1>5. DueInv /\ KeptInv
  BY <1>2, <1>4 DEF DueInv, KeptInv, Promised, Prefs!Init
<1>6. Promised(answer[2], answer[1])
  BY DEF Promised, Prefs!Init
<1> QED
  BY <1>3, <1>5, <1>6 DEF PrefInv

(* What is loaded is what was promised, and has its types.                 *)
LEMMA LoadedIsDue ==
  ASSUME PrefInv
  PROVE  /\ Prefs!LoadPrefs \in [Prefs!Keys -> Prefs!Stored \cup {Prefs!Nothing}]
         /\ \A k \in Prefs!Keys : Promised(due[k], Prefs!LoadPrefs[k])
         /\ g_prefs_loaded => Prefs!LoadPrefs = g_prefs
         /\ ~g_prefs_loaded => \A t \in GuestThreads : found[t] = Prefs!None
<1>1. CASE g_prefs_loaded
  BY <1>1 DEF PrefInv, PrefTypes, DueInv, Prefs!LoadPrefs
<1>2. CASE ~g_prefs_loaded
  <2>1. \A k \in Prefs!Keys : g_prefs[k] = Prefs!Nothing
    BY <1>2 DEF PrefInv, DueInv, Prefs!Empty
  <2>2. Prefs!LoadPrefs = [k \in Prefs!Keys |-> IF k \in Prefs!Readable THEN prefsFile[k]
                                                ELSE g_prefs[k]]
    BY <1>2 DEF Prefs!LoadPrefs, Prefs!FromFile
  <2>3. \A k \in Prefs!Keys : Prefs!LoadPrefs[k] = Reads(k)
    BY <2>1, <2>2 DEF Reads
  <2>4. Prefs!LoadPrefs \in [Prefs!Keys -> Prefs!Stored \cup {Prefs!Nothing}]
    <3>1. \A k \in Prefs!Readable : prefsFile[k] \in Prefs!Stored
      BY DEF Prefs!Readable, PrefInv, PrefTypes
    <3> QED
      BY <2>1, <2>2, <3>1
  <2> QED
    BY <1>2, <2>3, <2>4 DEF PrefInv, DueInv
<1> QED
  BY <1>1, <1>2

(* While the file stays, what can be read of it does.                      *)
LEMMA ReadsStands ==
  ASSUME UNCHANGED prefsFile
  PROVE  \A k : Reads(k)' = Reads(k)
BY DEF Reads, Prefs!Readable, Prefs!Before

(* A store changes what is promised of its key, and the map with it.       *)
LEMMA StoreKeeps ==
  ASSUME HostAssumption, PrefInv, NEW t \in GuestThreads, NEW k \in Prefs!Keys, NEW v \in Values,
         Prefs!SetPreference(t, k, v)
  PROVE  PrefInv'
<1> DEFINE loaded == Prefs!LoadPrefs
<1>1. /\ ~locked /\ calls < MaxCalls /\ calls' = calls + 1
      /\ g_prefs' = [loaded EXCEPT ![k] = v] /\ g_prefs_loaded' = TRUE
      /\ due' = [due EXCEPT ![k] = v]
      /\ stale' = [u \in GuestThreads |-> stale[u] \/ found[u] = k]
      /\ UNCHANGED <<prefsFile, saving, locked, found, answer, kept, crashes>>
  BY DEF Prefs!SetPreference
<1>2. MaxCalls \in Nat
  BY DEF HostAssumption, Prefs!PreferencesAssumption
<1>3. v \in Prefs!Stored
  BY DEF Prefs!Stored
<1> HIDE DEF loaded
<1>4. /\ loaded \in [Prefs!Keys -> Prefs!Stored \cup {Prefs!Nothing}]
      /\ \A l \in Prefs!Keys : Promised(due[l], loaded[l])
  BY LoadedIsDue DEF loaded
<1>5. PrefTypes'
  BY <1>1, <1>2, <1>3, <1>4 DEF PrefInv, PrefTypes
<1>6. DueInv'
  <2>1. \A l \in Prefs!Keys : Promised(due'[l], g_prefs'[l])
    BY <1>1, <1>4 DEF Promised, PrefInv, PrefTypes
  <2> QED
    BY <1>1, <2>1 DEF DueInv, Promised
<1>7. KeptInv'
  BY <1>1, ReadsStands DEF PrefInv, KeptInv, Promised
<1>8. Promised(answer[2], answer[1])'
  BY <1>1 DEF PrefInv, Promised
<1> QED
  BY <1>5, <1>6, <1>7, <1>8 DEF PrefInv

(* A look-up loads the map; what it finds is what was promised.            *)
LEMMA FindKeeps ==
  ASSUME PrefInv, NEW t \in GuestThreads, NEW k \in Prefs!Keys, Prefs!Find(t, k)
  PROVE  PrefInv'
<1> DEFINE loaded == Prefs!LoadPrefs
<1>1. /\ ~locked /\ g_prefs' = loaded /\ g_prefs_loaded' = TRUE
      /\ IF loaded[k] = Prefs!Nothing
         THEN answer' = <<Prefs!Nothing, due[k]>> /\ UNCHANGED <<found, stale>>
         ELSE /\ found' = [found EXCEPT ![t] = k]
              /\ stale' = [stale EXCEPT ![t] = FALSE]
              /\ UNCHANGED answer
      /\ UNCHANGED <<prefsFile, saving, locked, due, kept, calls, crashes>>
  BY DEF Prefs!Find
<1> HIDE DEF loaded
<1>2. /\ loaded \in [Prefs!Keys -> Prefs!Stored \cup {Prefs!Nothing}]
      /\ \A l \in Prefs!Keys : Promised(due[l], loaded[l])
  BY LoadedIsDue DEF loaded
<1>3. PrefTypes'
  BY <1>1, <1>2 DEF PrefInv, PrefTypes
<1>4. DueInv'
  BY <1>1, <1>2 DEF DueInv, Promised
<1>5. KeptInv'
  BY <1>1, ReadsStands DEF PrefInv, KeptInv, Promised
<1>6. Promised(answer[2], answer[1])'
  <2>1. CASE loaded[k] = Prefs!Nothing
    <3>1. PICK x, y : x = Prefs!Nothing /\ y = due[k]
      OBVIOUS
    <3>2. answer' = <<x, y>> /\ Promised(y, x)
      BY <1>1, <1>2, <2>1, <3>1
    <3> QED
      BY <3>2 DEF Promised
  <2>2. CASE loaded[k] # Prefs!Nothing
    BY <1>1, <2>2 DEF PrefInv, Promised
  <2> QED
    BY <2>1, <2>2
<1> QED
  BY <1>3, <1>4, <1>5, <1>6 DEF PrefInv

(* The value is read where the look-up left it.                            *)
LEMMA UseKeeps ==
  ASSUME PrefInv, NEW t \in GuestThreads, Prefs!Use(t)
  PROVE  PrefInv'
<1>1. PICK v : /\ v \in IF stale[t] THEN Prefs!Stored ELSE {g_prefs[found[t]]}
               /\ answer' = <<v, IF stale[t] THEN Prefs!Unsaid ELSE due[found[t]]>>
  BY DEF Prefs!Use
<1>2. /\ found[t] # Prefs!None /\ found' = [found EXCEPT ![t] = Prefs!None]
      /\ UNCHANGED <<g_prefs, g_prefs_loaded, prefsFile, saving, locked, stale, due, kept,
                     calls, crashes>>
  BY DEF Prefs!Use
<1>3. g_prefs_loaded /\ found[t] \in Prefs!Keys
  BY <1>2 DEF PrefInv, PrefTypes, DueInv
<1>4. PrefTypes'
  BY <1>2 DEF PrefInv, PrefTypes
<1>5. DueInv'
  BY <1>2, <1>3 DEF PrefInv, DueInv, Promised
<1>6. KeptInv'
  BY <1>2, ReadsStands DEF PrefInv, KeptInv, Promised, Prefs!Present
<1>7. Promised(answer[2], answer[1])'
  <2>1. PICK y : y = IF stale[t] THEN Prefs!Unsaid ELSE due[found[t]]
    OBVIOUS
  <2>2. answer' = <<v, y>>
    BY <1>1, <2>1
  <2>3. Promised(y, v)
    BY <1>1, <1>3, <2>1 DEF PrefInv, DueInv, Promised
  <2> QED
    BY <2>2, <2>3 DEF Promised
<1> QED
  BY <1>4, <1>5, <1>6, <1>7 DEF PrefInv

(* A save begins: nothing is promised of a restart until it is done.       *)
LEMMA SyncKeeps ==
  ASSUME HostAssumption, PrefInv, NEW t \in GuestThreads, Prefs!SyncPreferences(t)
  PROVE  PrefInv'
<1>1. /\ ~locked /\ calls < MaxCalls /\ calls' = calls + 1 /\ g_prefs_loaded
      /\ locked' = TRUE /\ saving' = Prefs!Present /\ prefsFile' = Prefs!NoLines
      /\ kept' = [k \in Prefs!Keys |-> Prefs!Unsaid]
      /\ UNCHANGED <<g_prefs, g_prefs_loaded, found, stale, answer, due, crashes>>
  BY DEF Prefs!SyncPreferences
<1>2. MaxCalls \in Nat
  BY DEF HostAssumption, Prefs!PreferencesAssumption
<1>3. /\ DOMAIN prefsFile' = {} /\ prefsFile' \in [DOMAIN prefsFile' -> Prefs!Stored]
      /\ Prefs!Present \subseteq Prefs!Keys /\ Prefs!Present' = Prefs!Present
  BY <1>1 DEF Prefs!NoLines, Prefs!Present
<1>4. PrefTypes'
  BY <1>1, <1>2, <1>3 DEF PrefInv, PrefTypes
<1>5. DueInv'
  BY <1>1 DEF PrefInv, DueInv, Promised
<1>6. KeptInv'
  BY <1>1, <1>3 DEF KeptInv
<1>7. Promised(answer[2], answer[1])'
  BY <1>1 DEF PrefInv, Promised
<1> QED
  BY <1>4, <1>5, <1>6, <1>7 DEF PrefInv

(* Line by line, each key that waited has one.                             *)
LEMMA SaveLineKeeps ==
  ASSUME PrefInv, Prefs!SaveLine
  PROVE  PrefInv'
<1>1. PICK k \in saving : Prefs!Line(k, g_prefs[k]) /\ saving' = saving \ {k}
  BY DEF Prefs!SaveLine
<1>2. /\ locked /\ UNCHANGED <<g_prefs, g_prefs_loaded, locked, found, stale, answer, due, kept,
                               calls, crashes>>
  BY DEF Prefs!SaveLine
<1>3. prefsFile' = [l \in DOMAIN prefsFile \cup {k} |-> IF l = k THEN g_prefs[k] ELSE prefsFile[l]]
  BY <1>1 DEF Prefs!Line
<1>4. k \in Prefs!Keys /\ g_prefs[k] \in Prefs!Stored /\ k \in Prefs!Present
  BY <1>2 DEF PrefInv, PrefTypes, KeptInv, Prefs!Present
<1>5. Prefs!Present' = Prefs!Present
  BY <1>2 DEF Prefs!Present
<1>6. PrefTypes'
  BY <1>1, <1>2, <1>3, <1>4 DEF PrefInv, PrefTypes
<1>7. DueInv'
  BY <1>2 DEF PrefInv, DueInv, Promised
<1>8. KeptInv'
  BY <1>1, <1>2, <1>3, <1>4, <1>5 DEF PrefInv, KeptInv
<1>9. Promised(answer[2], answer[1])'
  BY <1>2 DEF PrefInv, Promised
<1> QED
  BY <1>6, <1>7, <1>8, <1>9 DEF PrefInv

(* When all have, what survives can be read back.                          *)
LEMMA SavedKeeps ==
  ASSUME PrefInv, Prefs!Saved
  PROVE  PrefInv'
<1>1. /\ locked /\ saving = {} /\ locked' = FALSE
      /\ kept' = [k \in Prefs!Keys |-> IF Prefs!Survives(k) THEN due[k] ELSE Prefs!Unsaid]
      /\ UNCHANGED <<g_prefs, g_prefs_loaded, prefsFile, saving, found, stale, answer, due,
                     calls, crashes>>
  BY DEF Prefs!Saved
<1>2. /\ DOMAIN prefsFile = Prefs!Present /\ \A k \in Prefs!Present : prefsFile[k] = g_prefs[k]
      /\ g_prefs_loaded
  BY <1>1 DEF PrefInv, KeptInv, DueInv
<1>3. PrefTypes'
  BY <1>1 DEF PrefInv, PrefTypes
<1>4. DueInv'
  BY <1>1, <1>2 DEF PrefInv, DueInv, Promised
<1>5. ASSUME NEW k \in Prefs!Keys PROVE Promised(kept'[k], Reads(k))
  <2>1. CASE Prefs!Survives(k)
    <3>1. Reads(k) = g_prefs[k]
      BY <1>2, <2>1 DEF Reads, Prefs!Readable, Prefs!Survives, Prefs!Present
    <3> QED
      BY <1>1, <1>2, <2>1, <3>1 DEF PrefInv, DueInv, Promised
  <2>2. CASE ~Prefs!Survives(k)
    BY <1>1, <2>2 DEF Promised
  <2> QED
    BY <2>1, <2>2
<1>6. KeptInv'
  BY <1>1, <1>5, ReadsStands DEF KeptInv, Promised
<1>7. Promised(answer[2], answer[1])'
  BY <1>1 DEF PrefInv, Promised
<1> QED
  BY <1>3, <1>4, <1>6, <1>7 DEF PrefInv

(* After a crash what was kept is due, and can be read.                    *)
LEMMA CrashKeepsPrefs ==
  ASSUME HostAssumption, PrefInv, Prefs!Crash
  PROVE  PrefInv'
<1>1. /\ crashes < MaxCrashes /\ crashes' = crashes + 1
      /\ g_prefs' = Prefs!Empty /\ g_prefs_loaded' = FALSE
      /\ saving' = {} /\ locked' = FALSE
      /\ found' = [t \in GuestThreads |-> Prefs!None] /\ stale' = [t \in GuestThreads |-> FALSE]
      /\ due' = kept /\ UNCHANGED <<answer, kept, calls>>
  BY DEF Prefs!Crash
<1>2. UNCHANGED prefsFile \/ (locked /\ \E k \in saving : Prefs!Line(k, Prefs!Damaged))
  BY DEF Prefs!Crash
<1>3. MaxCrashes \in Nat
  BY DEF HostAssumption, Prefs!PreferencesAssumption
<1>4. prefsFile' \in [DOMAIN prefsFile' -> Prefs!Stored] /\ DOMAIN prefsFile' \subseteq Prefs!Keys
  <2>1. CASE UNCHANGED prefsFile
    BY <2>1 DEF PrefInv, PrefTypes
  <2>2. ASSUME NEW k \in saving, Prefs!Line(k, Prefs!Damaged)
        PROVE  prefsFile' \in [DOMAIN prefsFile' -> Prefs!Stored] /\ DOMAIN prefsFile' \subseteq Prefs!Keys
    <3>1. Prefs!Damaged \in Prefs!Stored
      BY DEF Prefs!Stored
    <3> QED
      BY <2>2, <3>1 DEF PrefInv, PrefTypes, Prefs!Line
  <2> QED
    BY <1>2, <2>1, <2>2
<1>5. Prefs!Empty \in [Prefs!Keys -> Prefs!Stored \cup {Prefs!Nothing}]
  BY DEF Prefs!Empty
<1>6. PrefTypes'
  <2>1. /\ crashes' \in 0 .. MaxCrashes /\ calls' \in 0 .. MaxCalls
        /\ kept' \in [Prefs!Keys -> Values \cup {Prefs!Nothing, Prefs!Unsaid}]
        /\ due' \in [Prefs!Keys -> Values \cup {Prefs!Nothing, Prefs!Unsaid}]
    BY <1>1, <1>3 DEF PrefInv, PrefTypes
  <2> QED
    BY <1>1, <1>4, <1>5, <2>1 DEF PrefTypes
<1>7. \A k \in Prefs!Keys : Promised(kept[k], Reads(k)')
  <2>1. CASE locked
    BY <2>1 DEF PrefInv, KeptInv, Promised
  <2>2. CASE ~locked
    BY <1>2, <2>2, ReadsStands DEF PrefInv, KeptInv
  <2> QED
    BY <2>1, <2>2
<1>8. DueInv'
  <2>1. g_prefs' = Prefs!Empty' /\ \A t \in GuestThreads : found'[t] = Prefs!None
    BY <1>1 DEF Prefs!Empty
  <2> QED
    BY <1>1, <1>7, <2>1 DEF DueInv, Promised
<1>9. KeptInv'
  BY <1>1, <1>7 DEF KeptInv, Promised
<1>10. Promised(answer[2], answer[1])'
  BY <1>1 DEF PrefInv, Promised
<1> QED
  BY <1>6, <1>8, <1>9, <1>10 DEF PrefInv

(* A step of the store, or of anything else.                               *)
LEMMA PrefsKeep ==
  ASSUME HostAssumption, PrefInv, Prefs!Next \/ UNCHANGED prefVars
  PROVE  PrefInv'
<1>1. CASE Prefs!Next
  <2>1. ASSUME NEW t \in GuestThreads, NEW k \in Prefs!Keys,
               (\E v \in Values : Prefs!SetPreference(t, k, v)) \/ Prefs!Find(t, k)
        PROVE  PrefInv'
    BY <2>1, StoreKeeps, FindKeeps
  <2>2. ASSUME NEW t \in GuestThreads, Prefs!Use(t) \/ Prefs!SyncPreferences(t)
        PROVE  PrefInv'
    BY <2>2, UseKeeps, SyncKeeps
  <2> QED
    BY <1>1, <2>1, <2>2, SaveLineKeeps, SavedKeeps, CrashKeepsPrefs DEF Prefs!Next
<1>2. CASE UNCHANGED prefVars
  <2>1. UNCHANGED <<g_prefs, g_prefs_loaded, prefsFile, saving, locked, found, stale, answer,
                    due, kept, calls, crashes>>
    BY <1>2 DEF prefVars
  <2>2. PrefTypes' /\ DueInv'
    BY <2>1, ReadsStands DEF PrefInv, PrefTypes, DueInv, Promised
  <2>3. KeptInv'
    BY <2>1, ReadsStands DEF PrefInv, KeptInv, Promised, Prefs!Present
  <2>4. Promised(answer[2], answer[1])'
    BY <2>1 DEF PrefInv, Promised
  <2> QED
    BY <2>2, <2>3, <2>4 DEF PrefInv
<1> QED
  BY <1>1, <1>2

(* What it comes to.                                                       *)
LEMMA PrefsSound == PrefInv => ReadsBack
BY DEF PrefInv, PrefTypes, Promised, ReadsBack, Prefs!ReadsBack, Prefs!TypeOK

-----------------------------------------------------------------------------
(* Arm64Flags.  The result and the flags of the last instruction are those *)
(* of one sum, of its first operand, its second or what is taken for it,   *)
(* and the carry that came in: which is all the properties need.           *)
Summand(op, b)     == IF op \in {"subs", "sbcs"} THEN Flags!Not(b) ELSE b
CarryIn(op, cin)   == IF op = "adds" THEN 0 ELSE IF op = "subs" THEN 1 ELSE cin
IsSum(f, r, a, s, c) ==
    /\ f.c \in {0, 1} /\ f.c * Flags!M + r = a + s + c
    /\ f.n = Flags!Top(r) /\ f.z = Flags!Bit(r = 0) /\ f.v = Flags!Overflow(a, s, r)

FlagsInv ==
    /\ nzcv.c \in {0, 1}
    /\ lastFlags.op \in Flags!Ops /\ lastFlags.a \in Flags!Word /\ lastFlags.b \in Flags!Word
    /\ lastFlags.cin \in {0, 1} /\ lastFlags.r \in Flags!Word
    /\ IF lastFlags.op = "ands" THEN nzcv.c = 0 /\ nzcv.v = 0
       ELSE IsSum(nzcv, lastFlags.r, lastFlags.a, Summand(lastFlags.op, lastFlags.b),
                  CarryIn(lastFlags.op, lastFlags.cin))

(* Division by the sign bit, and by the size of a word, as far as it goes. *)
LEMMA TopOf ==
  ASSUME SignBit \in Nat \ {0}, NEW x \in Flags!Word
  PROVE  Flags!Top(x) = IF x < SignBit THEN 0 ELSE 1
<1>1. PICK h : h = SignBit
  OBVIOUS
<1>2. h \in Nat \ {0} /\ x \in 0 .. 2 * h - 1
  BY <1>1 DEF Flags!Word, Flags!M
<1>3. x \div h = IF x < h THEN 0 ELSE 1
  BY <1>2
<1> QED
  BY <1>1, <1>3 DEF Flags!Top

(* A sum of two words and a carry is a word and a carry.                   *)
LEMMA Wraps ==
  ASSUME SignBit \in Nat \ {0}, NEW w \in Nat, w < 2 * Flags!M
  PROVE  /\ w % Flags!M = IF w < Flags!M THEN w ELSE w - Flags!M
         /\ w \div Flags!M = IF w < Flags!M THEN 0 ELSE 1
<1>1. PICK m : m = Flags!M
  OBVIOUS
<1>2. m \in Nat \ {0} /\ w \in 0 .. 2 * m - 1
  BY <1>1 DEF Flags!M
<1>3. w \div m = IF w < m THEN 0 ELSE 1
  BY <1>2
<1>4. w % m = IF w < m THEN w ELSE w - m
  BY <1>2
<1> QED
  BY <1>1, <1>3, <1>4

(* Both additions are the sum and its carry: the wrapped one's is seen in  *)
(* the result, also when the carry that comes in wraps it all round.       *)
LEMMA AddIsSum ==
  ASSUME SignBit \in Nat \ {0}, NEW form, NEW a \in Flags!Word, NEW s \in Flags!Word,
         NEW c \in {0, 1}
  PROVE  /\ Flags!Add(form, a, s, c).r \in Flags!Word
         /\ IsSum(Flags!Add(form, a, s, c).f, Flags!Add(form, a, s, c).r, a, s, c)
<1>1. PICK m, w, r : m = Flags!M /\ w = a + s + c /\ r = IF w < m THEN w ELSE w - m
  OBVIOUS
<1>2. /\ m \in Nat /\ m >= 2 /\ a \in 0 .. m - 1 /\ s \in 0 .. m - 1 /\ w \in Nat /\ w < 2 * m
      /\ r \in 0 .. m - 1
  BY <1>1 DEF Flags!Word, Flags!M
<1>3. w % m = r /\ w \div m = IF w < m THEN 0 ELSE 1
  BY <1>1, <1>2, Wraps
<1>4. Flags!Carry64(a, r, c) = IF w < m THEN 0 ELSE 1
  BY <1>1, <1>2 DEF Flags!Carry64, Flags!Bit
<1>5. PICK d, t, z, v : /\ d = (IF w < m THEN 0 ELSE 1) /\ t = Flags!Top(r)
                        /\ z = Flags!Bit(r = 0) /\ v = Flags!Overflow(a, s, r)
  OBVIOUS
<1>6. PICK f : f = [n |-> t, z |-> z, c |-> d, v |-> v]
  OBVIOUS
<1>7. Flags!Add(form, a, s, c) = [r |-> r, f |-> f]
  <2>1. Flags!Add64(a, s, c) = [r |-> r, f |-> f]
    BY <1>1, <1>3, <1>4, <1>5, <1>6 DEF Flags!Add64
  <2>2. Flags!Add32(a, s, c) = [r |-> r, f |-> f]
    BY <1>1, <1>3, <1>5, <1>6 DEF Flags!Add32
  <2> QED
    BY <2>1, <2>2 DEF Flags!Add
<1>8. f.c = d /\ f.n = t /\ f.z = z /\ f.v = v
  BY <1>6
<1>9. d \in {0, 1} /\ d * m + r = a + s + c
  BY <1>1, <1>2, <1>5
<1>10. IsSum(f, r, a, s, c)
  BY <1>1, <1>5, <1>8, <1>9 DEF IsSum
<1> QED
  BY <1>1, <1>2, <1>7, <1>10 DEF Flags!Word

(* In the beginning nothing was computed.                                  *)
LEMMA FlagsBegin ==
  ASSUME HostAssumption, Flags!Init
  PROVE  FlagsInv
<1>1. SignBit \in Nat \ {0}
  BY DEF HostAssumption, Flags!FlagsAssumption
<1>2. 0 \in Flags!Word
  BY <1>1 DEF Flags!Word, Flags!M
<1>3. nzcv.c = 0 /\ nzcv.v = 0
  BY DEF Flags!Init
<1>4. /\ lastFlags.op = "ands" /\ lastFlags.a = 0 /\ lastFlags.b = 0 /\ lastFlags.cin = 0
      /\ lastFlags.r = 0
  BY DEF Flags!Init
<1>5. lastFlags.op \in Flags!Ops
  BY <1>4 DEF Flags!Ops
<1> QED
  BY <1>2, <1>3, <1>4, <1>5 DEF FlagsInv

(* What an instruction is taken to add is words and a carry.               *)
LEMMA SummandsAreWords ==
  ASSUME SignBit \in Nat \ {0}, NEW op \in Flags!Ops, NEW b \in Flags!Word, NEW cin \in {0, 1}
  PROVE  Summand(op, b) \in Flags!Word /\ CarryIn(op, cin) \in {0, 1}
<1>1. Flags!Not(b) \in Flags!Word
  BY DEF Flags!Not, Flags!Word, Flags!M
<1> QED
  BY <1>1 DEF Summand, CarryIn

(* The effect of each, but for the logical ones, is that sum.              *)
LEMMA EffectIsAdd ==
  ASSUME NEW op \in Flags!Ops, op # "ands", NEW form, NEW a, NEW b, NEW cin
  PROVE  Flags!Effect(op, form, a, b, cin) = Flags!Add(form, a, Summand(op, b), CarryIn(op, cin))
BY DEF Flags!Effect, Flags!Ops, Summand, CarryIn

(* An instruction.                                                         *)
LEMMA ExecuteKeeps ==
  ASSUME HostAssumption, FlagsInv, NEW op \in Flags!Ops, NEW form, NEW b \in Flags!Word,
         Flags!Execute(op, form, lastFlags.r, b)
  PROVE  FlagsInv'
<1>1. PICK a, cin, e, f, l : /\ a = lastFlags.r /\ cin = nzcv.c
                             /\ e = Flags!Effect(op, form, a, b, cin)
                             /\ f = e.f
                             /\ l = [op |-> op, form |-> form, a |-> a, b |-> b, cin |-> cin,
                                     r |-> e.r]
  OBVIOUS
<1>2. nzcv' = f /\ lastFlags' = l
  BY <1>1 DEF Flags!Execute
<1>3. a \in Flags!Word /\ cin \in {0, 1}
  BY <1>1 DEF FlagsInv
<1>4. l.op = op /\ l.a = a /\ l.b = b /\ l.cin = cin /\ l.r = e.r
  BY <1>1
<1>5. SignBit \in Nat \ {0} /\ And(a, b) \in Flags!Word
  BY <1>3 DEF HostAssumption, Flags!FlagsAssumption
<1>6. CASE op = "ands"
  <2>1. PICK r, t, z : r = And(a, b) /\ t = Flags!Top(r) /\ z = Flags!Bit(r = 0)
    OBVIOUS
  <2>2. e = [r |-> r, f |-> [n |-> t, z |-> z, c |-> 0, v |-> 0]]
    BY <1>1, <1>6, <2>1 DEF Flags!Effect, Flags!Logical
  <2>3. f.c = 0 /\ f.v = 0 /\ e.r = r
    BY <1>1, <2>2
  <2>4. r \in Flags!Word
    BY <1>5, <2>1
  <2> QED
    BY <1>2, <1>3, <1>4, <1>6, <2>3, <2>4 DEF FlagsInv, Flags!Word, Flags!M
<1>7. CASE op # "ands"
  <2>1. PICK s, c : s = Summand(op, b) /\ c = CarryIn(op, cin)
    OBVIOUS
  <2>2. s \in Flags!Word /\ c \in {0, 1}
    BY <1>3, <1>5, <2>1, SummandsAreWords
  <2>3. e = Flags!Add(form, a, s, c)
    BY <1>1, <1>7, <2>1, EffectIsAdd
  <2>4. e.r \in Flags!Word /\ IsSum(f, e.r, a, s, c)
    BY <1>1, <1>3, <1>5, <2>2, <2>3, AddIsSum
  <2>5. PICK y : y = e.r
    OBVIOUS
  <2>6. (nzcv.c)' \in {0, 1} /\ IsSum(nzcv, y, a, s, c)'
    BY <1>2, <2>4, <2>5 DEF IsSum, Flags!M, Flags!Top, Flags!Overflow, Flags!Bit
  <2> QED
    BY <1>2, <1>3, <1>4, <1>7, <2>1, <2>4, <2>5, <2>6
    DEF FlagsInv, Flags!Word, Flags!M, Summand, CarryIn, Flags!Not, IsSum
<1> QED
  BY <1>6, <1>7

(* A step of the arithmetic, or of anything else.                          *)
LEMMA FlagsKeep ==
  ASSUME HostAssumption, FlagsInv, Flags!Next \/ UNCHANGED flagRegs
  PROVE  FlagsInv'
<1>1. CASE Flags!Next
  BY <1>1, ExecuteKeeps DEF Flags!Next
<1>2. CASE UNCHANGED flagRegs
  BY <1>2 DEF flagRegs, FlagsInv, IsSum, Summand, CarryIn, Flags!Word, Flags!M, Flags!Not,
              Flags!Top, Flags!Overflow, Flags!Bit
<1> QED
  BY <1>1, <1>2

(* The carry of a chain.                                                   *)
LEMMA CarriesAreExact ==
  ASSUME HostAssumption, FlagsInv
  PROVE  Flags!CarryIsExact
<1>1. PICK op, a, b, cin, r, c, m : /\ op = lastFlags.op /\ a = lastFlags.a /\ b = lastFlags.b
                                    /\ cin = lastFlags.cin /\ r = lastFlags.r /\ c = nzcv.c
                                    /\ m = Flags!M
  OBVIOUS
<1>2. /\ m \in Nat /\ op \in Flags!Ops /\ a \in 0 .. m - 1 /\ b \in 0 .. m - 1
      /\ r \in 0 .. m - 1 /\ cin \in {0, 1} /\ c \in {0, 1}
  BY <1>1 DEF FlagsInv, HostAssumption, Flags!FlagsAssumption, Flags!Word, Flags!M
<1>3. IF op = "ands" THEN c = 0
      ELSE c * m + r = a + (IF op \in {"subs", "sbcs"} THEN m - 1 - b ELSE b)
                         + (IF op = "adds" THEN 0 ELSE IF op = "subs" THEN 1 ELSE cin)
  BY <1>1 DEF FlagsInv, IsSum, Summand, CarryIn, Flags!Not
<1>4. CASE op \in {"adds", "adcs"}
  BY <1>1, <1>2, <1>3, <1>4 DEF Flags!CarryIsExact
<1>5. CASE op \in {"subs", "sbcs"}
  BY <1>1, <1>2, <1>3, <1>5 DEF Flags!CarryIsExact
<1>6. CASE op = "ands"
  BY <1>1, <1>2, <1>3, <1>6 DEF Flags!CarryIsExact
<1> QED
  BY <1>2, <1>4, <1>5, <1>6 DEF Flags!Ops

(* The signed reading of a word, and of a word's complement.               *)
LEMMA SignedOf ==
  ASSUME SignBit \in Nat \ {0}, NEW x \in Flags!Word
  PROVE  /\ Flags!Signed(x) = IF x < SignBit THEN x ELSE x - 2 * SignBit
         /\ Flags!Signed(Flags!Not(x)) = -1 - Flags!Signed(x)
<1>1. Flags!Not(x) \in Flags!Word /\ Flags!Not(x) = 2 * SignBit - 1 - x
  BY DEF Flags!Not, Flags!Word, Flags!M
<1>2. \A y \in Flags!Word : Flags!Signed(y) = IF y < SignBit THEN y ELSE y - 2 * SignBit
  BY TopOf DEF Flags!Signed, Flags!M
<1>3. x \in 0 .. 2 * SignBit - 1
  BY DEF Flags!Word, Flags!M
<1> QED
  BY <1>1, <1>2, <1>3

(* A sum overflows exactly when its operands agree in sign and it does not.*)
LEMMA OverflowOf ==
  ASSUME SignBit \in Nat \ {0}, NEW f, NEW r \in Flags!Word, NEW a \in Flags!Word,
         NEW s \in Flags!Word, NEW c \in {0, 1}, IsSum(f, r, a, s, c)
  PROVE  f.v = 0 <=> Flags!Signed(r) = Flags!Signed(a) + Flags!Signed(s) + c
<1>1. PICK h, d : h = SignBit /\ d = f.c
  OBVIOUS
<1>2. /\ h \in Nat \ {0} /\ a \in 0 .. 2 * h - 1 /\ s \in 0 .. 2 * h - 1 /\ r \in 0 .. 2 * h - 1
      /\ d \in {0, 1} /\ d * (2 * h) + r = a + s + c
  BY <1>1 DEF IsSum, Flags!Word, Flags!M
<1>3. f.v = 0 <=> ~((a < h <=> s < h) /\ ~(a < h <=> r < h))
  BY <1>1, TopOf DEF IsSum, Flags!Overflow, Flags!Bit
<1>4. /\ Flags!Signed(r) = IF r < h THEN r ELSE r - 2 * h
      /\ Flags!Signed(a) = IF a < h THEN a ELSE a - 2 * h
      /\ Flags!Signed(s) = IF s < h THEN s ELSE s - 2 * h
  BY <1>1, SignedOf
<1> QED
  BY <1>2, <1>3, <1>4

(* The overflow flag of every instruction.                                 *)
LEMMA OverflowsAreExact ==
  ASSUME HostAssumption, FlagsInv
  PROVE  Flags!OverflowIsExact
<1>1. PICK op, a, b, cin, r, v : /\ op = lastFlags.op /\ a = lastFlags.a /\ b = lastFlags.b
                                 /\ cin = lastFlags.cin /\ r = lastFlags.r /\ v = nzcv.v
  OBVIOUS
<1>2. PICK sa, sb, sr : /\ sa = Flags!Signed(a) /\ sb = Flags!Signed(b) /\ sr = Flags!Signed(r)
  OBVIOUS
<1>3. /\ op \in Flags!Ops /\ a \in Flags!Word /\ b \in Flags!Word /\ r \in Flags!Word
      /\ cin \in {0, 1} /\ SignBit \in Nat \ {0}
  BY <1>1 DEF FlagsInv, HostAssumption, Flags!FlagsAssumption
<1>4. sa \in Int /\ sb \in Int
  BY <1>2, <1>3, SignedOf DEF Flags!Word, Flags!M
<1>5. PICK exact : exact = CASE op = "adds" -> sa + sb
                             [] op = "adcs" -> sa + sb + cin
                             [] op = "subs" -> sa - sb
                             [] op = "sbcs" -> sa - sb - (1 - cin)
                             [] OTHER -> sr
  OBVIOUS
<1>6. v = 0 <=> sr = exact
  <2>1. CASE op = "ands"
    BY <1>1, <1>5, <2>1 DEF FlagsInv
  <2>2. CASE op # "ands"
    <3>1. PICK s, c : s = Summand(op, b) /\ c = CarryIn(op, cin)
      OBVIOUS
    <3>2. s \in Flags!Word /\ c \in {0, 1} /\ IsSum(nzcv, r, a, s, c)
      BY <1>1, <1>3, <2>2, <3>1, SummandsAreWords DEF FlagsInv
    <3>3. v = 0 <=> sr = sa + Flags!Signed(s) + c
      BY <1>1, <1>2, <1>3, <3>2, OverflowOf
    <3>4. Flags!Signed(s) = IF op \in {"subs", "sbcs"} THEN -1 - sb ELSE sb
      BY <1>2, <1>3, <3>1, SignedOf DEF Summand
    <3>5. c = IF op = "adds" THEN 0 ELSE IF op = "subs" THEN 1 ELSE cin
      BY <3>1 DEF CarryIn
    <3>6. sa + Flags!Signed(s) + c = exact
      BY <1>3, <1>4, <1>5, <2>2, <3>4, <3>5 DEF Flags!Ops
    <3> QED
      BY <3>3, <3>6
  <2> QED
    BY <2>1, <2>2
<1> QED
  BY <1>1, <1>2, <1>5, <1>6 DEF Flags!OverflowIsExact

(* The conditions by their numbers.                                        *)
LEMMA ConditionsAre ==
  ASSUME NEW f
  PROVE  /\ Flags!ARC_COND(f, 0) <=> f.z = 1
         /\ Flags!ARC_COND(f, 1) <=> f.z # 1
         /\ Flags!ARC_COND(f, 2) <=> f.c = 1
         /\ Flags!ARC_COND(f, 3) <=> f.c # 1
         /\ Flags!ARC_COND(f, 8) <=> f.c = 1 /\ f.z = 0
         /\ Flags!ARC_COND(f, 9) <=> ~(f.c = 1 /\ f.z = 0)
         /\ Flags!ARC_COND(f, 10) <=> f.n = f.v
         /\ Flags!ARC_COND(f, 11) <=> f.n # f.v
         /\ Flags!ARC_COND(f, 12) <=> f.z = 0 /\ f.n = f.v
         /\ Flags!ARC_COND(f, 13) <=> ~(f.z = 0 /\ f.n = f.v)
         /\ Flags!ARC_COND(f, 14) /\ Flags!ARC_COND(f, 15)
<1>1. /\ Flags!Cond(f, 0) <=> f.z = 1
      /\ Flags!Cond(f, 1) <=> f.z = 1
      /\ Flags!Cond(f, 2) <=> f.c = 1
      /\ Flags!Cond(f, 3) <=> f.c = 1
  BY DEF Flags!Cond
<1>2. /\ Flags!Cond(f, 8) <=> f.c = 1 /\ f.z = 0
      /\ Flags!Cond(f, 9) <=> f.c = 1 /\ f.z = 0
      /\ Flags!Cond(f, 10) <=> f.n = f.v
      /\ Flags!Cond(f, 11) <=> f.n = f.v
  BY DEF Flags!Cond
<1>3. /\ Flags!Cond(f, 12) <=> f.z = 0 /\ f.n = f.v
      /\ Flags!Cond(f, 13) <=> f.z = 0 /\ f.n = f.v
      /\ Flags!Cond(f, 14) /\ Flags!Cond(f, 15)
  BY DEF Flags!Cond
<1> QED
  BY <1>1, <1>2, <1>3 DEF Flags!ARC_COND

(* A comparison: on both readings.                                         *)
LEMMA ComparisonsDecide ==
  ASSUME HostAssumption, FlagsInv
  PROVE  Flags!ComparisonDecides
<1>1. PICK a, b, r, f, sa, sb : /\ a = lastFlags.a /\ b = lastFlags.b /\ r = lastFlags.r /\ f = nzcv
                                /\ sa = Flags!Signed(a) /\ sb = Flags!Signed(b)
  OBVIOUS
<1> SUFFICES ASSUME Flags!Subtracts
             PROVE  /\ Flags!ARC_COND(f, 0) = (a = b)   /\ Flags!ARC_COND(f, 1) = (a # b)
                    /\ Flags!ARC_COND(f, 2) = (a >= b)  /\ Flags!ARC_COND(f, 3) = (a < b)
                    /\ Flags!ARC_COND(f, 8) = (a > b)   /\ Flags!ARC_COND(f, 9) = (a <= b)
                    /\ Flags!ARC_COND(f, 10) = (sa >= sb) /\ Flags!ARC_COND(f, 11) = (sa < sb)
                    /\ Flags!ARC_COND(f, 12) = (sa > sb)  /\ Flags!ARC_COND(f, 13) = (sa <= sb)
                    /\ Flags!ARC_COND(f, 14) /\ Flags!ARC_COND(f, 15)
  BY <1>1 DEF Flags!ComparisonDecides, Flags!Holds
<1>2. PICK h, s : h = SignBit /\ s = Flags!Not(b)
  OBVIOUS
<1>3. /\ a \in Flags!Word /\ b \in Flags!Word /\ r \in Flags!Word /\ h \in Nat \ {0}
      /\ SignBit \in Nat \ {0}
  BY <1>1, <1>2 DEF FlagsInv, HostAssumption, Flags!FlagsAssumption
<1>4. IsSum(f, r, a, s, 1)
  BY <1>1, <1>2 DEF FlagsInv, Flags!Subtracts, Summand, CarryIn
<1>5. s \in Flags!Word /\ s = 2 * h - 1 - b
  BY <1>2, <1>3 DEF Flags!Not, Flags!Word, Flags!M
<1>6. a \in 0 .. 2 * h - 1 /\ b \in 0 .. 2 * h - 1 /\ r \in 0 .. 2 * h - 1
  BY <1>2, <1>3 DEF Flags!Word, Flags!M
<1>7. PICK d, n, z, v : d = f.c /\ n = f.n /\ z = f.z /\ v = f.v
  OBVIOUS
<1>8. d \in {0, 1} /\ d * (2 * h) + r = a + s + 1 /\ (z = 1 <=> r = 0) /\ (z = 0 <=> r # 0)
  BY <1>2, <1>4, <1>7 DEF IsSum, Flags!Bit, Flags!M
<1>9. n = IF r < h THEN 0 ELSE 1
  BY <1>2, <1>3, <1>4, <1>7, TopOf DEF IsSum
<1>10. v = IF (a < h <=> s < h) /\ ~(a < h <=> r < h) THEN 1 ELSE 0
  BY <1>2, <1>3, <1>4, <1>5, <1>7, TopOf DEF IsSum, Flags!Overflow, Flags!Bit
<1>11. sa = (IF a < h THEN a ELSE a - 2 * h) /\ sb = (IF b < h THEN b ELSE b - 2 * h)
  BY <1>1, <1>2, <1>3, SignedOf
<1>12. d = 1 <=> a >= b
  BY <1>3, <1>5, <1>6, <1>8
<1>13. r = 0 <=> a = b
  BY <1>3, <1>5, <1>6, <1>8
<1>14. n = v <=> sa >= sb
  BY <1>3, <1>5, <1>6, <1>8, <1>9, <1>10, <1>11
<1>15. sa = sb <=> a = b
  BY <1>3, <1>6, <1>11
<1>16. sa \in Int /\ sb \in Int /\ a \in Int /\ b \in Int
  BY <1>3, <1>6, <1>11
<1>17. /\ z = 1 <=> a = b
       /\ z # 1 <=> a # b
       /\ d = 1 <=> a >= b
       /\ d # 1 <=> a < b
  BY <1>8, <1>12, <1>13, <1>16
<1>18. /\ (d = 1 /\ z = 0) <=> a > b
       /\ ~(d = 1 /\ z = 0) <=> a <= b
  BY <1>8, <1>12, <1>13, <1>16
<1>19. /\ n = v <=> sa >= sb
       /\ n # v <=> sa < sb
       /\ (z = 0 /\ n = v) <=> sa > sb
       /\ ~(z = 0 /\ n = v) <=> sa <= sb
  BY <1>8, <1>13, <1>14, <1>15, <1>16
<1>20. /\ Flags!ARC_COND(f, 0) <=> a = b
       /\ Flags!ARC_COND(f, 1) <=> a # b
       /\ Flags!ARC_COND(f, 2) <=> a >= b
       /\ Flags!ARC_COND(f, 3) <=> a < b
       /\ Flags!ARC_COND(f, 8) <=> a > b
       /\ Flags!ARC_COND(f, 9) <=> a <= b
       /\ Flags!ARC_COND(f, 10) <=> sa >= sb
       /\ Flags!ARC_COND(f, 11) <=> sa < sb
       /\ Flags!ARC_COND(f, 12) <=> sa > sb
       /\ Flags!ARC_COND(f, 13) <=> sa <= sb
       /\ Flags!ARC_COND(f, 14) /\ Flags!ARC_COND(f, 15)
  BY <1>7, <1>17, <1>18, <1>19, ConditionsAre
<1>21. \A k : Flags!ARC_COND(f, k) \in BOOLEAN
  BY DEF Flags!ARC_COND, Flags!Cond
<1> QED
  BY <1>20, <1>21

(* What it comes to.                                                       *)
LEMMA FlagsSound == HostAssumption /\ FlagsInv => FlagsExact
BY CarriesAreExact, OverflowsAreExact, ComparisonsDecide DEF FlagsExact

-----------------------------------------------------------------------------
(* Lifter.  A range of words, in one section or of none of them.           *)
RangeOk(r) ==
  /\ r[1] \in Nat /\ r[2] \in Nat /\ r[1] < r[2] /\ r = <<r[1], r[2]>>
  /\ Lift!bytes_at(r) \/ \A s \in Lift!Sections : Lift!Words(r) \cap Lift!Words(s) = {}

(* No function is there twice.                                             *)
StartOnce(ranges) == \A r, q \in ranges : r[1] = q[1] => r = q

(* What describes a function of the image at hand, and the words that      *)
(* nothing describes.                                                      *)
Known == Lift!Described(images[index])
Bare  == Lift!Addresses \ UNION {Lift!Words(r) : r \in Known}

(* The run that begins at a is longer than what is recovered.              *)
LongRun(a) == \A x \in a .. a + RecoverMax : x \in Bare

IsList(s) == \E S : s \in Seq(S)

(* Where the lifter stands, and that its tables are sequences.             *)
LiftTypes ==
  /\ images \in Programs /\ index \in 1 .. Len(images) /\ lifting \in {"lift", "stubs", "written"}
  /\ IsList(shards) /\ IsList(per_image) /\ referenced \subseteq Nat /\ recovered \in Nat
  /\ Len(per_image) = IF lifting = "written" THEN Len(images) ELSE index - 1
  /\ lifting = "written" => index = Len(images)

(* What is known of keeps to its section, and grows from what is described.*)
RangesOk ==
  /\ \A r \in extents : RangeOk(r)
  /\ pending \subseteq extents /\ Known \subseteq extents
  /\ recovered = 0 => extents = Known

(* Whatever has its bytes in a section is defined or pending, and not both.*)
StartsOk ==
  /\ StartOnce(pending)
  /\ \A r \in pending : r[1] \notin defined
  /\ \A r \in extents : Lift!bytes_at(r) => r[1] \in defined \/ r \in pending
  /\ \A d \in defined : \E r \in extents : r[1] = d

(* As many are done as are defined.                                        *)
Counted ==
  /\ unlifted \subseteq defined
  /\ Lift!IsFiniteSet(defined) /\ Lift!Cardinality(defined) = done

(* Once the runs nobody covers were looked for.                            *)
Swept ==
  /\ recovered > 0 => \A r \in pending : Lift!bytes_at(r)
  /\ recovered > 0 /\ images[index].limit = 0 =>
       \A a \in Bare : \/ a - 1 \in Bare \/ LongRun(a)
                       \/ a \in defined \/ \E r \in pending : r[1] = a

(* The functions written so far, those of the image at hand and of the     *)
(* ones before it.                                                         *)
WrittenHere ==
  /\ \A m \in DOMAIN shards : shards[m][1] = index =>
       /\ shards[m][2][1] \in defined \ unlifted
       /\ Lift!fn_names(images[index], shards[m][2]) \subseteq referenced \cup defined
  /\ \A d \in defined \ unlifted : \E m \in DOMAIN shards : shards[m][1] = index /\ shards[m][2][1] = d

WrittenFor(i) ==
  /\ per_image[i].stubs \subseteq per_image[i].fns
  /\ \A m \in DOMAIN shards : shards[m][1] = i =>
       /\ shards[m][2][1] \in per_image[i].fns \ per_image[i].stubs
       /\ Lift!fn_names(images[i], shards[m][2]) \subseteq per_image[i].fns
  /\ \A a \in per_image[i].fns \ per_image[i].stubs :
       \E m \in DOMAIN shards : shards[m][1] = i /\ shards[m][2][1] = a

Written ==
  /\ \A m \in DOMAIN shards : shards[m][1] \in 1 .. index
  /\ \A m, n \in DOMAIN shards :
       shards[m][1] = shards[n][1] /\ shards[m][2][1] = shards[n][2][1] => m = n
  /\ WrittenHere
  /\ \A i \in 1 .. Len(per_image) : WrittenFor(i)

(* The lifter as it has to be.                                             *)
LiftInv ==
  /\ LiftTypes /\ RangesOk /\ StartsOk /\ Counted /\ Swept /\ Written
  /\ Lift!KeepsToItsRange /\ Lift!NothingLeft

-----------------------------------------------------------------------------
(* Min of a nonempty set of naturals is its least member.                  *)
LEMMA LiftMin ==
  ASSUME NEW S \in SUBSET Nat, S # {}
  PROVE  Lift!Min(S) \in S /\ \A y \in S : Lift!Min(S) <= y
<1>1. \E i \in S : \A j \in S : i <= j
  BY Least
<1> QED
  BY <1>1 DEF Lift!Min

(* The constants of the sections, as plain facts.                          *)
LEMMA SectionsAre ==
  /\ TextSection[1] \in Nat \ {0} /\ TextSection[2] \in Nat /\ TextSection[1] < TextSection[2]
  /\ PltSection[1] \in Nat \ {0} /\ PltSection[2] \in Nat /\ PltSection[1] <= PltSection[2]
  /\ TextSection[2] <= PltSection[1] /\ PltSection[2] <= ImageSpan /\ RecoverMax \in Nat \ {0}
BY HostAssumption DEF HostAssumption, Lift!LifterAssumption

(* Sections do not meet, so what meets one of them and lies in some lies   *)
(* in that one.                                                            *)
LEMMA InItsSection ==
  ASSUME NEW r, RangeOk(r), NEW s \in Lift!Sections, NEW t \in Lift!Words(s), t \in Lift!Words(r)
  PROVE  Lift!bytes_at(r) /\ s[1] <= r[1] /\ r[2] <= s[2]
<1>1. t \in Int /\ s[1] <= t /\ t < s[2] /\ r[1] <= t /\ t < r[2]
  BY SectionsAre DEF Lift!Words, Lift!Sections, RangeOk
<1>2. PICK z \in Lift!Sections : z[1] <= r[1] /\ r[2] <= z[2]
  BY DEF RangeOk, Lift!bytes_at
<1>3. z[1] \in Nat /\ z[2] \in Nat /\ s[1] \in Nat /\ s[2] \in Nat
  BY SectionsAre DEF Lift!Sections
<1>4. z[1] <= t /\ t < z[2]
  BY <1>1, <1>2, <1>3 DEF RangeOk
<1>5. z = s
  BY <1>1, <1>4, SectionsAre DEF Lift!Sections
<1> QED
  BY <1>2, <1>5 DEF Lift!bytes_at

(* What describes a function describes it well, and it once.               *)
LEMMA DescribedWell ==
  ASSUME NEW im, Lift!WellDescribed(im)
  PROVE  /\ \A r \in Lift!Described(im) : RangeOk(r)
         /\ StartOnce(Lift!Described(im))
<1> DEFINE sources == <<Lift!functions_from_eh_frame(im), Lift!functions_from_plt,
                        Lift!functions_from_symbols(im)>>
           starts(S) == {r[1] : r \in S}
           winner(a) == sources[Lift!Min({k \in DOMAIN sources : a \in starts(sources[k])})]
           ends(a) == {r[2] : r \in {q \in winner(a) : q[1] = a}}
<1>1. \A k \in DOMAIN sources : \A r \in sources[k] : RangeOk(r)
  <2>1. \A r \in Lift!functions_from_eh_frame(im) : RangeOk(r)
    BY DEF Lift!functions_from_eh_frame, Lift!WellDescribed, RangeOk
  <2>2. \A r \in Lift!functions_from_plt : RangeOk(r)
    <3>1. SUFFICES ASSUME NEW a \in Lift!Words(PltSection) PROVE RangeOk(<<a, a + 1>>)
      BY DEF Lift!functions_from_plt
    <3>2. a \in Nat /\ PltSection[1] <= a /\ a + 1 <= PltSection[2]
      BY <3>1, SectionsAre DEF Lift!Words
    <3> QED
      BY <3>2, SectionsAre DEF RangeOk, Lift!bytes_at, Lift!Sections
  <2>3. \A r \in Lift!functions_from_symbols(im) : RangeOk(r)
    <3>1. SUFFICES ASSUME NEW r \in Lift!functions_from_symbols(im) PROVE RangeOk(r)
      OBVIOUS
    <3>2. PICK y \in im.symbols : y.size # 0 /\ r = <<y.start, y.start + y.size>>
      BY <3>1 DEF Lift!functions_from_symbols
    <3>3. y.start \in Nat /\ y.size \in Nat
      BY DEF Lift!WellDescribed
    <3>4. Lift!bytes_at(r) \/ \A s \in Lift!Sections : Lift!Words(r) \cap Lift!Words(s) = {}
      BY <3>1 DEF Lift!WellDescribed
    <3> QED
      BY <3>2, <3>3, <3>4 DEF RangeOk
  <2> QED
    BY <2>1, <2>2, <2>3
<1>2. ASSUME NEW a \in starts(UNION Lift!Range(sources)) PROVE Lift!Min(ends(a)) \in ends(a)
  <2>1. PICK k \in DOMAIN sources : a \in starts(sources[k])
    BY <1>2 DEF Lift!Range
  <2>2. {j \in DOMAIN sources : a \in starts(sources[j])} # {}
    BY <2>1
  <2>3. {j \in DOMAIN sources : a \in starts(sources[j])} \in SUBSET Nat
    OBVIOUS
  <2>4. PICK j \in DOMAIN sources : j = Lift!Min({i \in DOMAIN sources : a \in starts(sources[i])})
                                     /\ a \in starts(sources[j])
    BY <2>2, <2>3, LiftMin
  <2>5. winner(a) = sources[j]
    BY <2>4
  <2>6. ends(a) \in SUBSET Nat
    BY <2>5, <1>1 DEF RangeOk
  <2>7. ends(a) # {}
    BY <2>4, <2>5
  <2> QED
    BY <2>6, <2>7, LiftMin
<1>3. Lift!Described(im) = {<<a, Lift!Min(ends(a))>> : a \in starts(UNION Lift!Range(sources))}
  BY DEF Lift!Described, Lift!dedupe_starts
<1>4. ASSUME NEW r \in Lift!Described(im) PROVE RangeOk(r)
  <2>1. PICK a \in starts(UNION Lift!Range(sources)) : r = <<a, Lift!Min(ends(a))>>
    BY <1>3
  <2>2. PICK q \in winner(a) : q[1] = a /\ q[2] = Lift!Min(ends(a))
    BY <1>2
  <2>3. PICK k \in DOMAIN sources : a \in starts(sources[k])
    BY <2>1 DEF Lift!Range
  <2>4. Lift!Min({i \in DOMAIN sources : a \in starts(sources[i])}) \in DOMAIN sources
    <3>1. {j \in DOMAIN sources : a \in starts(sources[j])} # {}
      BY <2>3
    <3>2. {j \in DOMAIN sources : a \in starts(sources[j])} \in SUBSET Nat
      OBVIOUS
    <3> QED
      BY <3>1, <3>2, LiftMin
  <2>5. RangeOk(q)
    BY <1>1, <2>2, <2>4
  <2>6. q = r
    BY <2>1, <2>2, <2>5 DEF RangeOk
  <2> QED
    BY <2>5, <2>6
<1>5. ASSUME NEW r \in Lift!Described(im), NEW q \in Lift!Described(im), r[1] = q[1] PROVE r = q
  <2>1. PICK a \in starts(UNION Lift!Range(sources)) : r = <<a, Lift!Min(ends(a))>>
    BY <1>3
  <2>2. PICK b \in starts(UNION Lift!Range(sources)) : q = <<b, Lift!Min(ends(b))>>
    BY <1>3
  <2>3. a = b
    BY <1>5, <2>1, <2>2
  <2> QED
    BY <2>1, <2>2, <2>3
<1> QED
  BY <1>4, <1>5 DEF StartOnce

(* The first of some ranges that begin apart is one of them.               *)
LEMMA FirstIsOne ==
  ASSUME NEW ranges, ranges # {}, StartOnce(ranges),
         \A r \in ranges : r[1] \in Nat /\ r[2] \in Nat
  PROVE  Lift!First(ranges) \in ranges
<1>1. {r[1] : r \in ranges} \in SUBSET Nat /\ {r[1] : r \in ranges} # {}
  OBVIOUS
<1>2. PICK n \in {r[1] : r \in ranges} : \A m \in {r[1] : r \in ranges} : n <= m
  BY <1>1, Least
<1>2a. PICK r \in ranges : r[1] = n
  BY <1>2
<1>2b. \A q \in ranges : r[1] <= q[1]
  BY <1>2, <1>2a
<1>3. \A q \in ranges : r[1] < q[1] \/ (r[1] = q[1] /\ r[2] <= q[2])
  BY <1>2b DEF StartOnce
<1> QED
  BY <1>3 DEF Lift!First

(* A function that is recovered ends behind its start, in its section, at  *)
(* or before whatever else is looked for, and where a range it is in ends  *)
(* or before the next begins.                                              *)
LEMMA EndsWell ==
  ASSUME NEW s \in Lift!Sections, NEW t \in Lift!Words(s), NEW sought \in SUBSET Nat,
         \A r \in extents : RangeOk(r), NEW e, e = Lift!EndOf(t, s, sought)
  PROVE  /\ e \in Nat /\ t < e /\ e <= s[2]
         /\ \A x \in sought : x > t => e <= x
         /\ \/ \E h \in extents : t \in Lift!Words(h) /\ e <= h[2]
            \/ \A r \in extents : r[1] > t => e <= r[1]
         /\ ~ Lift!Covered(t) => \A r \in extents : r[1] > t => e <= r[1]
<1> DEFINE ends == IF Lift!Holder(t) # {} THEN {r[2] : r \in Lift!Holder(t)}
                   ELSE {s[2]} \cup {r[1] : r \in {q \in extents : q[1] > t}}
           all  == ends \cup {x \in sought : x > t}
<1>1. s[1] \in Nat /\ s[2] \in Nat /\ t \in Nat /\ s[1] <= t /\ t < s[2]
  BY SectionsAre DEF Lift!Sections, Lift!Words
<1>2. \A h \in Lift!Holder(t) : h \in extents /\ h[1] <= t /\ t < h[2]
  BY DEF Lift!Holder
<1>3. \A h \in Lift!Holder(t) : t \in Lift!Words(h) /\ h[2] \in Nat /\ h[2] <= s[2]
  BY <1>1, <1>2, InItsSection DEF RangeOk, Lift!Words
<1>4. \A x \in ends : x \in Nat /\ t < x
  BY <1>1, <1>2, <1>3 DEF RangeOk
<1>5. ends # {} /\ all \in SUBSET Nat /\ all # {}
  BY <1>4
<1>6. e = Lift!Min(all)
  BY DEF Lift!EndOf
<1>7. e \in all /\ \A y \in all : e <= y
  <2>1. PICK S : S = all
    OBVIOUS
  <2>2. S \in SUBSET Nat /\ S # {} /\ e = Lift!Min(S)
    BY <2>1, <1>5, <1>6
  <2>3. e \in S /\ \A y \in S : e <= y
    BY <2>2, LiftMin
  <2> QED
    BY <2>1, <2>3
<1>8. e \in Nat /\ t < e
  BY <1>4, <1>7
<1>9. e <= s[2]
  <2>1. CASE Lift!Holder(t) = {}
    BY <2>1, <1>7
  <2>2. CASE Lift!Holder(t) # {}
    <3>1. PICK h \in Lift!Holder(t) : TRUE
      BY <2>2
    <3> QED
      BY <2>2, <3>1, <1>1, <1>3, <1>7, <1>8
  <2> QED
    BY <2>1, <2>2
<1>10. \A x \in sought : x > t => e <= x
  BY <1>7
<1>11. CASE Lift!Holder(t) = {}
  BY <1>11, <1>7, <1>8, <1>9, <1>10
<1>12. CASE Lift!Holder(t) # {}
  <2>1. PICK h \in Lift!Holder(t) : TRUE
    BY <1>12
  <2>2. e <= h[2] /\ h \in extents /\ t \in Lift!Words(h)
    BY <1>12, <2>1, <1>2, <1>3, <1>7
  <2> QED
    BY <2>2, <1>8, <1>9, <1>10 DEF Lift!Covered
<1> QED
  BY <1>11, <1>12

(* What is recovered: at each of the places looked for that lie in a       *)
(* section, a function, unless it is too long.                             *)
LEMMA RecoversWell ==
  ASSUME NEW sought \in SUBSET Nat, \A r \in extents : RangeOk(r), NEW got,
         got = Lift!recover_extents(sought)
  PROVE  /\ StartOnce(got) /\ Lift!IsFiniteSet(got)
         /\ \A r \in got :
              /\ RangeOk(r) /\ Lift!bytes_at(r) /\ r[1] \in sought
              /\ \E s \in Lift!Sections : r[1] \in Lift!Words(s) /\ r[2] = Lift!EndOf(r[1], s, sought)
         /\ \A s \in Lift!Sections : \A t \in sought \cap Lift!Words(s) :
              \/ \E r \in got : r[1] = t
              \/ Lift!EndOf(t, s, sought) > t + RecoverMax
<1> DEFINE all == UNION {{<<t, Lift!EndOf(t, s, sought)>> : t \in sought \cap Lift!Words(s)} : s \in Lift!Sections}
<1>1. got = {r \in all : r[2] <= r[1] + RecoverMax}
  BY DEF Lift!recover_extents
<1>2. ASSUME NEW r \in got
      PROVE  \E s \in Lift!Sections : /\ r[1] \in sought \cap Lift!Words(s)
                                     /\ r = <<r[1], Lift!EndOf(r[1], s, sought)>>
  BY <1>1
<1>3. ASSUME NEW r \in got PROVE RangeOk(r) /\ Lift!bytes_at(r) /\ r[2] <= PltSection[2] + TextSection[2]
  <2>1. PICK s \in Lift!Sections : /\ r[1] \in sought \cap Lift!Words(s)
                                  /\ r = <<r[1], Lift!EndOf(r[1], s, sought)>>
    BY <1>2
  <2>2. PICK e : e = Lift!EndOf(r[1], s, sought)
    OBVIOUS
  <2>3. e \in Nat /\ r[1] < e /\ e <= s[2]
    BY <2>1, <2>2, EndsWell
  <2>4. r[2] = e /\ s[1] <= r[1] /\ r[1] \in Nat
    BY <2>1, <2>2, SectionsAre DEF Lift!Words, Lift!Sections
  <2> QED
    BY <2>1, <2>2, <2>3, <2>4, SectionsAre DEF RangeOk, Lift!bytes_at, Lift!Sections
<1>4. StartOnce(got)
  <2>1. SUFFICES ASSUME NEW r \in got, NEW q \in got, r[1] = q[1] PROVE r = q
    BY DEF StartOnce
  <2>2. PICK s \in Lift!Sections : /\ r[1] \in sought \cap Lift!Words(s)
                                  /\ r = <<r[1], Lift!EndOf(r[1], s, sought)>>
    BY <1>2
  <2>3. PICK z \in Lift!Sections : /\ q[1] \in sought \cap Lift!Words(z)
                                  /\ q = <<q[1], Lift!EndOf(q[1], z, sought)>>
    BY <1>2
  <2>4. s = z
    BY <2>1, <2>2, <2>3, SectionsAre DEF Lift!Sections, Lift!Words
  <2> QED
    BY <2>1, <2>2, <2>3, <2>4
<1>5. IsFiniteSet(got)
  <2>1. PICK top \in Nat : top = PltSection[2] + TextSection[2]
    BY SectionsAre
  <2>2. got \subseteq (0 .. top) \X (0 .. top)
    <3>1. SUFFICES ASSUME NEW r \in got PROVE r \in (0 .. top) \X (0 .. top)
      OBVIOUS
    <3>2. r[1] \in 0 .. top /\ r[2] \in 0 .. top /\ r = <<r[1], r[2]>>
      BY <3>1, <2>1, <1>3 DEF RangeOk
    <3> QED
      BY <3>2
  <2>3. IsFiniteSet((0 .. top) \X (0 .. top))
    <3>1. IsFiniteSet(0 .. top)
      BY FS_Interval
    <3> QED
      BY <3>1, FS_Product
  <2> QED
    BY <2>2, <2>3, FS_Subset
<1>6. Lift!IsFiniteSet(got)
  BY <1>5 DEF IsFiniteSet, Lift!IsFiniteSet
<1>7. ASSUME NEW s \in Lift!Sections, NEW t \in sought \cap Lift!Words(s)
      PROVE  (\E r \in got : r[1] = t) \/ Lift!EndOf(t, s, sought) > t + RecoverMax
  <2>1. PICK e : e = Lift!EndOf(t, s, sought)
    OBVIOUS
  <2>2. e \in Nat /\ t \in Nat /\ RecoverMax \in Nat
    BY <2>1, EndsWell, SectionsAre
  <2>3. CASE e <= t + RecoverMax
    <3>1. <<t, e>> \in all
      BY <2>1
    <3>2. <<t, e>> \in got
      BY <3>1, <2>3, <1>1
    <3> QED
      BY <3>2
  <2> QED
    BY <2>1, <2>2, <2>3
<1> QED
  BY <1>2, <1>3, <1>4, <1>6, <1>7

(* A list with one more at its end.                                        *)
LEMMA OneMore ==
  ASSUME NEW l, IsList(l), NEW e, NEW m, m = Append(l, e)
  PROVE  /\ IsList(m) /\ Len(l) \in Nat /\ DOMAIN l = 1 .. Len(l)
         /\ Len(m) = Len(l) + 1 /\ DOMAIN m = 1 .. Len(l) + 1
         /\ m[Len(l) + 1] = e /\ \A k \in 1 .. Len(l) : m[k] = l[k]
<1>1. PICK S : l \in Seq(S)
  BY DEF IsList
<1>2. l \in Seq(S \cup {e})
  BY <1>1
<1>3. m \in Seq(S \cup {e})
  BY <1>2
<1> QED
  BY <1>2, <1>3 DEF IsList

(* The image at hand, and every other, is well described.                  *)
LEMMA ImagesWell ==
  ASSUME LiftTypes
  PROVE  /\ Len(images) \in Nat /\ DOMAIN images = 1 .. Len(images) /\ Len(images) <= Len(ImageBases)
         /\ \A i \in 1 .. Len(images) : Lift!WellDescribed(images[i])
         /\ index \in Nat /\ Lift!WellDescribed(images[index])
<1>1. /\ images \in Seq(Lift!Range(images)) /\ Len(images) \in 1 .. Len(ImageBases)
      /\ \A im \in Lift!Range(images) : Lift!WellDescribed(im)
  BY HostAssumption DEF LiftTypes, HostAssumption, Lift!LifterAssumption
<1>2. \A i \in 1 .. Len(images) : images[i] \in Lift!Range(images)
  BY <1>1
<1> QED
  BY <1>1, <1>2 DEF LiftTypes

(* What a function in a section names are places in code.                  *)
LEMMA NamesAreNaturals ==
  ASSUME NEW im, Lift!WellDescribed(im), NEW r, RangeOk(r), Lift!bytes_at(r)
  PROVE  Lift!fn_names(im, r) \in SUBSET Nat
<1>1. Lift!Words(r) \subseteq Lift!Addresses
  BY SectionsAre DEF Lift!Words, Lift!Addresses, Lift!bytes_at, Lift!Sections, RangeOk
<1>2. \A a \in Lift!Words(r) : im.code[a].to \in Nat
  BY <1>1 DEF Lift!WellDescribed
<1> QED
  BY <1>2 DEF Lift!fn_names, Lift!Calls, Lift!Jumps, Lift!Going

(* A step of the search: one function is lifted.                           *)
LEMMA LiftNextKeeps ==
  ASSUME LiftInv, Lift!LiftNext
  PROVE  LiftInv'
<1>1. /\ lifting = "lift" /\ pending # {} /\ pending' = pending \ {Lift!First(pending)}
      /\ UNCHANGED <<images, index, lifting, extents, recovered, per_image>>
  BY DEF Lift!LiftNext
<1>2. PICK r \in pending : r = Lift!First(pending)
  BY <1>1, FirstIsOne DEF LiftInv, RangesOk, StartsOk, RangeOk
<1>3. RangeOk(r) /\ r \in extents /\ r[1] \notin defined /\ pending' = pending \ {r}
  BY <1>1, <1>2 DEF LiftInv, RangesOk, StartsOk
<1>4. Known' = Known /\ Bare' = Bare
  BY <1>1 DEF Known, Bare
<1>5. \/ /\ Lift!bytes_at(r) /\ Lift!Lifts(images[index], r)
         /\ done' = done + 1 /\ defined' = defined \cup {r[1]}
         /\ referenced' = (referenced \cup Lift!fn_names(images[index], r)) \ {r[1]}
         /\ shards' = Append(shards, <<index, r>>) /\ unlifted' = unlifted
      \/ /\ Lift!bytes_at(r) /\ done' = done + 1 /\ defined' = defined \cup {r[1]}
         /\ referenced' = referenced \cup Lift!fn_names(images[index], r)
         /\ unlifted' = unlifted \cup {r[1]} /\ shards' = shards
      \/ /\ ~ Lift!bytes_at(r)
         /\ UNCHANGED <<done, defined, referenced, unlifted, shards>>
  BY <1>2 DEF Lift!LiftNext, Lift!image
<1>6. Lift!bytes_at(r) => Lift!fn_names(images[index], r) \in SUBSET Nat
  BY <1>3, ImagesWell, NamesAreNaturals DEF LiftInv
<1>7. IsList(shards)'
  <2>1. PICK m : m = Append(shards, <<index, r>>)
    OBVIOUS
  <2>2. IsList(m) /\ IsList(shards)
    BY <2>1, OneMore DEF LiftInv, LiftTypes
  <2> QED
    BY <1>5, <2>1, <2>2 DEF IsList
<1>8. LiftTypes'
  <2>1. referenced' \subseteq Nat
    BY <1>5, <1>6 DEF LiftInv, LiftTypes
  <2>2. IsList(per_image)'
    BY <1>1 DEF LiftInv, LiftTypes, IsList
  <2> QED
    BY <1>1, <1>7, <2>1, <2>2 DEF LiftInv, LiftTypes
<1>9. RangesOk'
  BY <1>1, <1>3, <1>4 DEF LiftInv, RangesOk
<1>10. StartsOk'
  <2>1. StartOnce(pending)' /\ \A q \in pending' : q[1] # r[1] /\ q[1] \notin defined
    BY <1>2, <1>3 DEF LiftInv, StartsOk, StartOnce
  <2>2. (defined' = defined /\ ~ Lift!bytes_at(r)) \/ defined' = defined \cup {r[1]}
    BY <1>5
  <2>3. \A q \in extents : Lift!bytes_at(q) => q[1] \in defined' \/ q \in pending'
    BY <1>3, <2>2 DEF LiftInv, StartsOk
  <2>4. \A d \in defined' : \E q \in extents : q[1] = d
    BY <1>3, <2>2 DEF LiftInv, StartsOk
  <2> QED
    BY <1>1, <2>1, <2>2, <2>3, <2>4 DEF StartsOk
<1>11. Counted'
  <2>1. IsFiniteSet(defined) /\ Cardinality(defined) = done
    BY DEF LiftInv, Counted, IsFiniteSet, Lift!IsFiniteSet, Cardinality, Lift!Cardinality
  <2>2. IsFiniteSet(defined \cup {r[1]}) /\ Cardinality(defined \cup {r[1]}) = done + 1
    BY <2>1, <1>3, FS_AddElement
  <2>3. IsFiniteSet(defined') /\ Cardinality(defined') = done'
    BY <1>5, <2>1, <2>2
  <2>4. Lift!IsFiniteSet(defined') /\ Lift!Cardinality(defined') = done'
    BY <2>3 DEF IsFiniteSet, Lift!IsFiniteSet, Cardinality, Lift!Cardinality
  <2>5. unlifted' \subseteq defined'
    BY <1>5 DEF LiftInv, Counted
  <2> QED
    BY <2>4, <2>5 DEF Counted
<1>12. Swept'
  <2>1. recovered > 0 => \A q \in pending : Lift!bytes_at(q)
    BY DEF LiftInv, Swept
  <2>2. recovered > 0 => defined' = defined \cup {r[1]}
    BY <2>1, <1>2, <1>5
  <2>3. ASSUME recovered > 0, images[index].limit = 0, NEW a \in Bare
        PROVE  a - 1 \in Bare \/ LongRun(a) \/ a \in defined' \/ \E q \in pending' : q[1] = a
    <3>1. a - 1 \in Bare \/ LongRun(a) \/ a \in defined \/ \E q \in pending : q[1] = a
      BY <2>3 DEF LiftInv, Swept
    <3> QED
      BY <3>1, <2>2, <2>3, <1>3
  <2>4. \A a : LongRun(a)' <=> LongRun(a)
    BY <1>4 DEF LongRun
  <2> QED
    BY <1>1, <1>3, <1>4, <2>1, <2>3, <2>4 DEF Swept
<1>13. Written'
  <2>1. /\ IsList(shards) /\ index \in Nat /\ Len(per_image) = index - 1
    BY <1>1, ImagesWell DEF LiftInv, LiftTypes
  <2>2. CASE shards' = Append(shards, <<index, r>>) /\ unlifted' = unlifted
             /\ defined' = defined \cup {r[1]}
             /\ referenced' = (referenced \cup Lift!fn_names(images[index], r)) \ {r[1]}
    <3>1. PICK k \in Nat : k = Len(shards) + 1 /\ DOMAIN shards = 1 .. k - 1
      BY <2>1, OneMore
    <3>2. /\ DOMAIN shards' = 1 .. k /\ shards'[k] = <<index, r>>
          /\ \A m \in 1 .. k - 1 : shards'[m] = shards[m]
      <4>1. PICK l : l = Append(shards, <<index, r>>)
        OBVIOUS
      <4>2. DOMAIN l = 1 .. k /\ l[k] = <<index, r>> /\ \A m \in 1 .. k - 1 : l[m] = shards[m]
        BY <4>1, <3>1, <2>1, OneMore
      <4> QED
        BY <4>1, <4>2, <2>2
    <3>3. \A m \in 1 .. k - 1 : shards[m][1] = index => shards[m][2][1] \in defined \ unlifted
      BY <3>1 DEF LiftInv, Written, WrittenHere
    <3>4. \A m \in DOMAIN shards' : shards'[m][1] \in 1 .. index
      BY <3>1, <3>2, <2>1 DEF LiftInv, Written, LiftTypes
    <3>5. ASSUME NEW m \in DOMAIN shards', NEW n \in DOMAIN shards',
                 shards'[m][1] = shards'[n][1], shards'[m][2][1] = shards'[n][2][1]
          PROVE  m = n
      <4>1. CASE m # k /\ n # k
        <5>1. m \in DOMAIN shards /\ n \in DOMAIN shards /\ shards'[m] = shards[m] /\ shards'[n] = shards[n]
          BY <4>1, <3>1, <3>2
        <5> QED
          BY <5>1, <3>5 DEF LiftInv, Written
      <4>2. CASE m = k /\ n # k
        BY <4>2, <3>1, <3>2, <3>3, <3>5, <1>3
      <4>3. CASE m # k /\ n = k
        BY <4>3, <3>1, <3>2, <3>3, <3>5, <1>3
      <4> QED
        BY <4>1, <4>2, <4>3
    <3>6. WrittenHere'
      <4>1. ASSUME NEW m \in DOMAIN shards', shards'[m][1] = index
            PROVE  /\ shards'[m][2][1] \in defined' \ unlifted'
                   /\ Lift!fn_names(images[index], shards'[m][2]) \subseteq referenced' \cup defined'
        <5>1. CASE m = k
          <6>1. r[1] \notin unlifted
            BY <1>3 DEF LiftInv, Counted
          <6> QED
            BY <5>1, <6>1, <3>2, <2>2
        <5>2. CASE m # k
          <6>1. m \in DOMAIN shards /\ shards'[m] = shards[m]
            BY <5>2, <3>1, <3>2
          <6>2. /\ shards[m][2][1] \in defined \ unlifted
                /\ Lift!fn_names(images[index], shards[m][2]) \subseteq referenced \cup defined
            BY <6>1, <4>1 DEF LiftInv, Written, WrittenHere
          <6> QED
            BY <6>1, <6>2, <2>2
        <5> QED
          BY <5>1, <5>2
      <4>2. ASSUME NEW d \in defined' \ unlifted'
            PROVE  \E m \in DOMAIN shards' : shards'[m][1] = index /\ shards'[m][2][1] = d
        <5>1. CASE d = r[1]
          BY <5>1, <3>1, <3>2
        <5>2. CASE d # r[1]
          <6>1. PICK m \in DOMAIN shards : shards[m][1] = index /\ shards[m][2][1] = d
            BY <5>2, <4>2, <2>2 DEF LiftInv, Written, WrittenHere
          <6> QED
            BY <6>1, <3>1, <3>2
        <5> QED
          BY <5>1, <5>2
      <4> QED
        BY <4>1, <4>2, <1>1 DEF WrittenHere
    <3>7. ASSUME NEW i \in 1 .. Len(per_image) PROVE WrittenFor(i)'
      <4>1. WrittenFor(i) /\ i # index
        BY <2>1 DEF LiftInv, Written
      <4>2. \A m \in DOMAIN shards' : shards'[m][1] = i => m \in DOMAIN shards /\ shards'[m] = shards[m]
        BY <4>1, <3>1, <3>2
      <4>3. \A m \in DOMAIN shards : m \in DOMAIN shards' /\ shards'[m] = shards[m]
        BY <3>1, <3>2
      <4> QED
        BY <4>1, <4>2, <4>3, <1>1 DEF WrittenFor
    <3> QED
      BY <3>4, <3>5, <3>6, <3>7, <1>1 DEF Written
  <2>3. CASE shards' = shards /\ defined' \ unlifted' = defined \ unlifted
             /\ referenced \cup defined \subseteq referenced' \cup defined'
    <3>1. WrittenHere'
      BY <2>3, <1>1 DEF LiftInv, Written, WrittenHere
    <3>2. ASSUME NEW i \in 1 .. Len(per_image) PROVE WrittenFor(i)'
      BY <2>3, <1>1 DEF LiftInv, Written, WrittenFor
    <3> QED
      BY <2>3, <3>1, <3>2, <1>1 DEF LiftInv, Written
  <2> QED
    BY <2>2, <2>3, <1>3, <1>5
<1>14. Lift!KeepsToItsRange' /\ Lift!NothingLeft'
  BY <1>1 DEF LiftInv, Lift!KeepsToItsRange, Lift!NothingLeft, Lift!image
<1> QED
  BY <1>8, <1>9, <1>10, <1>11, <1>12, <1>13, <1>14 DEF LiftInv

(* What is looked for at the end of a pass.                                *)
Sought == (referenced \ defined) \cup (IF recovered = 0 THEN Lift!uncovered_starts ELSE {})

LEMMA SoughtIsNew ==
  ASSUME LiftInv
  PROVE  /\ Sought \in SUBSET Nat /\ Sought \cap defined = {}
         /\ referenced \ defined \subseteq Sought
<1>1. \A a \in Lift!uncovered_starts : a \in Nat /\ ~ Lift!Covered(a)
  BY SectionsAre DEF Lift!uncovered_starts, Lift!Words, Lift!Sections
<1>2. \A d \in defined : Lift!Covered(d)
  <2>1. SUFFICES ASSUME NEW d \in defined PROVE Lift!Covered(d)
    OBVIOUS
  <2>2. PICK r \in extents : r[1] = d
    BY DEF LiftInv, StartsOk
  <2>3. RangeOk(r)
    BY DEF LiftInv, RangesOk
  <2> QED
    BY <2>2, <2>3 DEF RangeOk, Lift!Covered, Lift!Words
<1> QED
  BY <1>1, <1>2 DEF Sought, LiftInv, LiftTypes

(* A run nobody covers is recovered, if it is not too long, or else was    *)
(* looked for before.                                                      *)
LEMMA SweepsNow ==
  ASSUME LiftInv, pending = {}, images[index].limit = 0, NEW a \in Bare,
         NEW got, got = Lift!recover_extents(Sought)
  PROVE  a - 1 \in Bare \/ LongRun(a) \/ a \in defined \/ \E r \in got : r[1] = a
<1>1. CASE recovered # 0
  <2>1. recovered > 0
    BY <1>1 DEF LiftInv, LiftTypes
  <2> QED
    BY <2>1 DEF LiftInv, Swept
<1>2. CASE recovered = 0
  <2>1. SUFFICES ASSUME a - 1 \notin Bare, ~ \E r \in got : r[1] = a PROVE LongRun(a)
    OBVIOUS
  <2>2. extents = Known /\ \A r \in extents : RangeOk(r)
    BY <1>2 DEF LiftInv, RangesOk
  <2>3. ~ Lift!Covered(a)
    BY <2>2 DEF Bare, Lift!Covered
  <2>4. PICK s \in Lift!Sections : a \in Lift!Words(s)
    BY DEF Bare, Lift!Addresses, Lift!Sections
  <2>5. s[1] \in Nat /\ s[2] \in Nat /\ a \in Nat /\ s[1] <= a /\ a < s[2]
    BY <2>4, SectionsAre DEF Lift!Sections, Lift!Words
  <2>6. a = s[1] \/ Lift!Covered(a - 1)
    <3>1. CASE a # s[1]
      <4>1. a - 1 \in Lift!Words(s)
        BY <3>1, <2>5 DEF Lift!Words
      <4>2. a - 1 \in Lift!Addresses
        BY <4>1 DEF Lift!Addresses, Lift!Sections
      <4> QED
        BY <4>2, <2>1, <2>2 DEF Bare, Lift!Covered
    <3> QED
      BY <3>1
  <2>7. a \in Sought
    BY <1>2, <2>3, <2>4, <2>6 DEF Sought, Lift!uncovered_starts
  <2>8. PICK e : e = Lift!EndOf(a, s, Sought)
    OBVIOUS
  <2>9. Sought \in SUBSET Nat
    BY SoughtIsNew
  <2>10. e > a + RecoverMax
    BY <2>1, <2>2, <2>4, <2>7, <2>8, <2>9, RecoversWell
  <2>11. e \in Nat /\ e <= s[2] /\ \A r \in extents : r[1] > a => e <= r[1]
    BY <2>2, <2>3, <2>4, <2>8, <2>9, EndsWell
  <2>12. ASSUME NEW x \in a .. a + RecoverMax PROVE x \in Bare
    <3>1. x \in Int /\ a <= x /\ x < e
      BY <2>5, <2>10, <2>11, <2>12, SectionsAre
    <3>2. x \in Lift!Addresses
      <4>1. x \in Lift!Words(s)
        BY <3>1, <2>5, <2>11 DEF Lift!Words
      <4> QED
        BY <4>1 DEF Lift!Addresses, Lift!Sections
    <3>3. ASSUME NEW r \in Known PROVE x \notin Lift!Words(r)
      <4>1. RangeOk(r) /\ a \notin Lift!Words(r) /\ (r[1] > a => e <= r[1])
        BY <2>2, <2>3, <2>11 DEF Lift!Covered
      <4> QED
        BY <4>1, <3>1, <2>5, <2>11 DEF RangeOk, Lift!Words
    <3> QED
      BY <3>2, <3>3 DEF Bare
  <2> QED
    BY <2>12 DEF LongRun
<1> QED
  BY <1>1, <1>2

(* A step of the search: what was found missing is recovered.              *)
LEMMA RecoverKeeps ==
  ASSUME LiftInv, Lift!Recover
  PROVE  LiftInv'
<1>1. PICK got : got = Lift!recover_extents(Sought)
  OBVIOUS
<1>2. /\ lifting = "lift" /\ pending = {} /\ pending' = got /\ extents' = extents \cup got
      /\ recovered' = recovered + Lift!Cardinality(got)
      /\ lifting' = IF got = {} THEN "stubs" ELSE lifting
      /\ UNCHANGED <<images, index, defined, unlifted, referenced, done, shards, per_image>>
  BY <1>1 DEF Lift!Recover, Sought
<1>3. Sought \in SUBSET Nat /\ Sought \cap defined = {} /\ \A r \in extents : RangeOk(r)
  BY SoughtIsNew DEF LiftInv, RangesOk
<1>4. /\ StartOnce(got) /\ Lift!IsFiniteSet(got)
      /\ \A r \in got :
           /\ RangeOk(r) /\ Lift!bytes_at(r) /\ r[1] \in Sought
           /\ \E s \in Lift!Sections : r[1] \in Lift!Words(s) /\ r[2] = Lift!EndOf(r[1], s, Sought)
      /\ \A s \in Lift!Sections : \A t \in Sought \cap Lift!Words(s) :
           (\E r \in got : r[1] = t) \/ Lift!EndOf(t, s, Sought) > t + RecoverMax
  BY <1>1, <1>3, RecoversWell
<1>5. Known' = Known /\ Bare' = Bare /\ \A a : LongRun(a)' <=> LongRun(a)
  BY <1>2 DEF Known, Bare, LongRun
<1>6. Lift!Cardinality(got) \in Nat /\ (Lift!Cardinality(got) = 0 => got = {})
  <2>1. IsFiniteSet(got)
    BY <1>4 DEF IsFiniteSet, Lift!IsFiniteSet
  <2>2. Cardinality(got) \in Nat /\ (Cardinality(got) = 0 => got = {})
    BY <2>1, FS_CardinalityType, FS_EmptySet
  <2> QED
    BY <2>2 DEF Cardinality, Lift!Cardinality
<1>7. LiftTypes'
  <2>1. recovered' \in Nat
    BY <1>2, <1>6 DEF LiftInv, LiftTypes
  <2>2. IsList(shards)' /\ IsList(per_image)'
    BY <1>2 DEF LiftInv, LiftTypes, IsList
  <2> QED
    BY <1>2, <2>1, <2>2 DEF LiftInv, LiftTypes
<1>8. RangesOk'
  <2>1. recovered' = 0 => recovered = 0 /\ got = {}
    BY <1>2, <1>6 DEF LiftInv, LiftTypes
  <2> QED
    BY <1>2, <1>4, <1>5, <2>1 DEF LiftInv, RangesOk
<1>9. \A r \in extents : Lift!bytes_at(r) => r[1] \in defined
  BY <1>2 DEF LiftInv, StartsOk
<1>10. StartsOk'
  <2>1. \A r \in got : r[1] \notin defined
    BY <1>3, <1>4
  <2> QED
    BY <1>2, <1>4, <1>9, <2>1 DEF LiftInv, StartsOk, StartOnce
<1>11. Counted' /\ Written'
  BY <1>2 DEF LiftInv, Counted, Written, WrittenHere, WrittenFor
<1>12. images[index].limit = 0 =>
         \A a \in Bare : a - 1 \in Bare \/ LongRun(a) \/ a \in defined \/ \E r \in got : r[1] = a
  BY <1>1, <1>2, SweepsNow
<1>13. Swept'
  BY <1>2, <1>4, <1>5, <1>12 DEF Swept
<1>14. Lift!KeepsToItsRange'
  <2>1. SUFFICES ASSUME NEW r \in (extents \cup got) \ Known
        PROVE  \/ \E q \in Known : r[1] \in Lift!Words(q) /\ r[2] <= q[2]
               \/ \A q \in Known : q[1] \notin Lift!Words(r)
    BY <1>2 DEF Lift!KeepsToItsRange, Lift!image, Known
  <2>2. \A h \in extents \ Known :
          \/ \E q \in Known : h[1] \in Lift!Words(q) /\ h[2] <= q[2]
          \/ \A q \in Known : q[1] \notin Lift!Words(h)
    BY DEF LiftInv, Lift!KeepsToItsRange, Lift!image, Known
  <2>3. CASE r \in extents
    BY <2>1, <2>2, <2>3
  <2>4. CASE r \in got
    <3>1. PICK s \in Lift!Sections : r[1] \in Lift!Words(s) /\ r[2] = Lift!EndOf(r[1], s, Sought)
      BY <2>4, <1>4
    <3>2. RangeOk(r) /\ r[1] \in Sought /\ r[1] \notin defined
      BY <2>4, <1>3, <1>4
    <3>3. PICK t, e : t = r[1] /\ e = r[2]
      OBVIOUS
    <3>4. \/ \E h \in extents : t \in Lift!Words(h) /\ e <= h[2]
          \/ \A q \in extents : q[1] > t => e <= q[1]
      BY <3>1, <3>3, <1>3, EndsWell
    <3>5. Known \subseteq extents /\ t \in Nat /\ e \in Nat /\ t < e
      BY <3>2, <3>3 DEF RangeOk, LiftInv, RangesOk
    <3>6. CASE \A q \in extents : q[1] > t => e <= q[1]
      <4>1. SUFFICES ASSUME NEW q \in Known, q[1] \in Lift!Words(r) PROVE FALSE
        OBVIOUS
      <4>2. RangeOk(q) /\ q \in extents
        BY <3>5, <1>3
      <4>3. q[1] = t
        BY <4>1, <4>2, <3>3, <3>5, <3>6 DEF RangeOk, Lift!Words
      <4>4. t \in Lift!Words(q)
        BY <4>2, <4>3 DEF RangeOk, Lift!Words
      <4>5. Lift!bytes_at(q)
        BY <4>2, <4>4, <3>1, <3>3, InItsSection
      <4> QED
        BY <4>2, <4>3, <4>5, <3>2, <3>3, <1>9
    <3>7. ASSUME NEW h \in extents, t \in Lift!Words(h), e <= h[2]
          PROVE  \/ \E q \in Known : r[1] \in Lift!Words(q) /\ r[2] <= q[2]
                 \/ \A q \in Known : q[1] \notin Lift!Words(r)
      <4>1. RangeOk(h)
        BY <1>3
      <4>2. CASE h \in Known
        BY <4>2, <3>3, <3>7
      <4>3. ASSUME NEW q \in Known, h[1] \in Lift!Words(q), h[2] <= q[2]
            PROVE  r[1] \in Lift!Words(q) /\ r[2] <= q[2]
        <5>1. RangeOk(q)
          BY <3>5, <1>3
        <5> QED
          BY <5>1, <4>1, <4>3, <3>3, <3>5, <3>7 DEF RangeOk, Lift!Words
      <4>4. Lift!Words(r) \subseteq Lift!Words(h)
        BY <4>1, <3>3, <3>5, <3>7 DEF RangeOk, Lift!Words
      <4> QED
        BY <4>2, <4>3, <4>4, <2>2
    <3> QED
      BY <3>4, <3>6, <3>7
  <2> QED
    BY <2>1, <2>3, <2>4
<1>15. Lift!NothingLeft'
  <2>1. SUFFICES ASSUME got = {}, images[index].limit = 0
        PROVE  /\ \A t \in (referenced \ defined) \cap Lift!Addresses : Lift!TooFar(t, referenced \ defined)
               /\ \A a \in Bare \ defined : a - 1 \in Bare \/ LongRun(a)
               /\ \A r \in Known : Lift!bytes_at(r) => r[1] \in defined
    BY <1>2 DEF Lift!NothingLeft, Lift!image, Known, Bare, LongRun
  <2>2. ASSUME NEW t \in (referenced \ defined) \cap Lift!Addresses
        PROVE  Lift!TooFar(t, referenced \ defined)
    <3>1. SUFFICES ASSUME NEW s \in Lift!Sections, t \in Lift!Words(s),
                          NEW x \in t + 1 .. t + RecoverMax
                   PROVE  x \in Lift!Words(s) /\ x \notin referenced \ defined
      BY DEF Lift!TooFar
    <3>2. PICK e : e = Lift!EndOf(t, s, Sought)
      OBVIOUS
    <3>3. referenced \ defined \subseteq Sought
      BY SoughtIsNew
    <3>4. e > t + RecoverMax
      BY <3>1, <3>2, <3>3, <2>1, <2>2, <1>4
    <3>5. e \in Nat /\ e <= s[2] /\ \A y \in Sought : y > t => e <= y
      BY <3>1, <3>2, <1>3, EndsWell
    <3>6. t \in Nat /\ s[1] \in Nat /\ s[2] \in Nat /\ s[1] <= t
      BY <3>1, SectionsAre DEF Lift!Words, Lift!Sections
    <3>7. x \in Int /\ t < x /\ x < e
      BY <3>1, <3>4, <3>5, <3>6, SectionsAre
    <3>8. x \in Lift!Words(s)
      BY <3>5, <3>6, <3>7 DEF Lift!Words
    <3>9. x \notin Sought
      BY <3>5, <3>7
    <3> QED
      BY <3>3, <3>8, <3>9
  <2>3. \A a \in Bare \ defined : a - 1 \in Bare \/ LongRun(a)
    BY <2>1, <1>12
  <2>4. \A r \in Known : Lift!bytes_at(r) => r[1] \in defined
    BY <1>9 DEF LiftInv, RangesOk
  <2> QED
    BY <2>2, <2>3, <2>4
<1> QED
  BY <1>7, <1>8, <1>10, <1>11, <1>13, <1>14, <1>15 DEF LiftInv

(* A step of the search: as many as were asked for are lifted.             *)
LEMMA StopAtLimitKeeps ==
  ASSUME LiftInv, Lift!StopAtLimit
  PROVE  LiftInv'
<1>1. /\ lifting' = "stubs" /\ lifting = "lift" /\ images[index].limit # 0
      /\ UNCHANGED <<images, index, pending, defined, unlifted, referenced, extents, recovered,
                     done, shards, per_image>>
  BY DEF Lift!StopAtLimit, Lift!AtLimit, Lift!image, Lift!passVars
<1>2. Known' = Known /\ Bare' = Bare
  BY <1>1 DEF Known, Bare
<1>3. LiftTypes' /\ RangesOk' /\ StartsOk' /\ Counted'
  BY <1>1, <1>2 DEF LiftInv, LiftTypes, IsList, RangesOk, StartsOk, StartOnce, Counted
<1>4. Swept' /\ Written'
  BY <1>1, <1>2 DEF LiftInv, Swept, LongRun, Written, WrittenHere, WrittenFor
<1>5. Lift!KeepsToItsRange' /\ Lift!NothingLeft'
  BY <1>1 DEF LiftInv, Lift!KeepsToItsRange, Lift!NothingLeft, Lift!image
<1> QED
  BY <1>3, <1>4, <1>5 DEF LiftInv

(* What was written of the image at hand is whole.                         *)
LEMMA StubsComplete ==
  ASSUME LiftInv, NEW stubs, stubs = unlifted \cup (referenced \ defined)
  PROVE  /\ stubs \subseteq defined \cup stubs
         /\ \A m \in DOMAIN shards : shards[m][1] = index =>
              /\ shards[m][2][1] \in (defined \cup stubs) \ stubs
              /\ Lift!fn_names(images[index], shards[m][2]) \subseteq defined \cup stubs
         /\ \A a \in (defined \cup stubs) \ stubs :
              \E m \in DOMAIN shards : shards[m][1] = index /\ shards[m][2][1] = a
BY DEF LiftInv, Counted, Written, WrittenHere

(* The last step for an image: its stubs and its table are written, and    *)
(* the next begins.                                                        *)
LEMMA WriteStubsKeeps ==
  ASSUME LiftInv, Lift!WriteStubs
  PROVE  LiftInv'
<1>1. PICK stubs : stubs = unlifted \cup (referenced \ defined)
  OBVIOUS
<1>2. PICK row : row = [fns |-> defined \cup stubs, stubs |-> stubs]
  OBVIOUS
<1>3. lifting = "stubs" /\ per_image' = Append(per_image, row) /\ UNCHANGED <<images, shards>>
  BY <1>1, <1>2 DEF Lift!WriteStubs
<1>4. /\ index \in Nat /\ Len(per_image) = index - 1 /\ IsList(per_image) /\ IsList(shards)
      /\ Len(images) \in Nat /\ index \in 1 .. Len(images)
  BY <1>3, ImagesWell DEF LiftInv, LiftTypes
<1>5. /\ IsList(per_image') /\ Len(per_image') = index /\ per_image'[index] = row
      /\ \A i \in 1 .. index - 1 : per_image'[i] = per_image[i]
  <2>1. PICK l : l = Append(per_image, row)
    OBVIOUS
  <2>2. PICK k \in Nat : k = Len(per_image) /\ index = k + 1
    BY <1>4
  <2>3. IsList(l) /\ Len(l) = k + 1 /\ l[k + 1] = row /\ \A i \in 1 .. k : l[i] = per_image[i]
    <3>1. IsList(per_image)
      BY <1>4
    <3>2. IsList(l)
      BY <2>1, <3>1, OneMore
    <3>3. Len(l) = k + 1
      BY <2>1, <2>2, <3>1, OneMore
    <3>4. l[k + 1] = row
      BY <2>1, <2>2, <3>1, OneMore
    <3>5. \A i \in 1 .. k : l[i] = per_image[i]
      BY <2>1, <2>2, <3>1, OneMore
    <3> QED
      BY <3>2, <3>3, <3>4, <3>5
  <2>4. per_image' = l /\ index - 1 = k
    BY <2>1, <2>2, <1>3
  <2> QED
    BY <2>2, <2>3, <2>4
<1>6. ASSUME NEW i \in 1 .. Len(per_image') PROVE WrittenFor(i)'
  <2>1. CASE i = index
    <3>1. per_image'[i].fns = defined \cup stubs /\ per_image'[i].stubs = stubs
      BY <2>1, <1>2, <1>5
    <3>2. /\ stubs \subseteq defined \cup stubs
          /\ \A m \in DOMAIN shards : shards[m][1] = i =>
               /\ shards[m][2][1] \in (defined \cup stubs) \ stubs
               /\ Lift!fn_names(images[i], shards[m][2]) \subseteq defined \cup stubs
          /\ \A a \in (defined \cup stubs) \ stubs :
               \E m \in DOMAIN shards : shards[m][1] = i /\ shards[m][2][1] = a
      BY <2>1, <1>1, StubsComplete
    <3> QED
      BY <3>1, <3>2, <1>3 DEF WrittenFor
  <2>2. CASE i # index
    <3>1. i \in 1 .. Len(per_image) /\ per_image'[i] = per_image[i]
      BY <2>2, <1>4, <1>5
    <3> QED
      BY <3>1, <1>3 DEF LiftInv, Written, WrittenFor
  <2> QED
    BY <2>1, <2>2
<1>7. IsList(shards)' /\ IsList(per_image)'
  BY <1>3, <1>4, <1>5 DEF IsList
<1>8. CASE index < Len(images)
  <2>1. PICK im, D : im = images[index + 1] /\ D = Lift!Described(im)
    OBVIOUS
  <2>2. /\ index' = index + 1 /\ pending' = D /\ extents' = D
        /\ lifting' = IF D = {} THEN "stubs" ELSE "lift"
        /\ defined' = {} /\ unlifted' = {} /\ referenced' = {} /\ recovered' = 0 /\ done' = 0
    BY <2>1, <1>8 DEF Lift!WriteStubs, Lift!StartImage
  <2>3. (\A r \in D : RangeOk(r)) /\ StartOnce(D)
    <3>1. Lift!WellDescribed(im)
      BY <2>1, <1>4, <1>8, ImagesWell DEF LiftInv
    <3> QED
      BY <3>1, <2>1, DescribedWell
  <2>4. Known' = D
    BY <2>1, <2>2, <1>3 DEF Known
  <2>5. LiftTypes'
    BY <2>2, <1>3, <1>4, <1>5, <1>7, <1>8 DEF LiftInv, LiftTypes
  <2>6. RangesOk' /\ StartsOk'
    BY <2>2, <2>3, <2>4 DEF RangesOk, StartsOk, StartOnce
  <2>7. Counted'
    <3>1. Lift!IsFiniteSet({}) /\ Lift!Cardinality({}) = 0
      BY FS_EmptySet DEF IsFiniteSet, Lift!IsFiniteSet, Cardinality, Lift!Cardinality
    <3> QED
      BY <3>1, <2>2 DEF Counted
  <2>8. Swept'
    BY <2>2 DEF Swept
  <2>9. Written'
    <3>1. \A m \in DOMAIN shards : shards[m][1] \in 1 .. index
      BY DEF LiftInv, Written
    <3>2. WrittenHere'
      BY <3>1, <2>2, <1>3, <1>4 DEF WrittenHere
    <3>3. \A m \in DOMAIN shards : shards[m][1] \in 1 .. index'
      BY <3>1, <2>2, <1>4
    <3> QED
      BY <3>2, <3>3, <1>3, <1>6 DEF LiftInv, Written
  <2>10. Lift!KeepsToItsRange' /\ Lift!NothingLeft'
    <3>1. Lift!Described(Lift!image)' = D
      BY <2>4 DEF Known, Lift!image
    <3> QED
      BY <3>1, <2>2 DEF Lift!KeepsToItsRange, Lift!NothingLeft
  <2> QED
    BY <2>5, <2>6, <2>7, <2>8, <2>9, <2>10 DEF LiftInv
<1>9. CASE ~ (index < Len(images))
  <2>1. /\ lifting' = "written"
        /\ UNCHANGED <<index, pending, defined, unlifted, referenced, extents, recovered, done>>
    BY <1>9 DEF Lift!WriteStubs, Lift!passVars
  <2>2. index = Len(images)
    BY <1>4, <1>9
  <2>3. Known' = Known /\ Bare' = Bare
    BY <2>1, <1>3 DEF Known, Bare
  <2>4. LiftTypes'
    BY <2>1, <2>2, <1>3, <1>5, <1>7 DEF LiftInv, LiftTypes
  <2>5. RangesOk' /\ StartsOk' /\ Counted'
    BY <2>1, <2>3 DEF LiftInv, RangesOk, StartsOk, StartOnce, Counted
  <2>6. Swept'
    BY <2>1, <2>3, <1>3 DEF LiftInv, Swept, LongRun
  <2>7. Written'
    <3>1. WrittenHere'
      BY <2>1, <1>3 DEF LiftInv, Written, WrittenHere
    <3> QED
      BY <3>1, <2>1, <1>3, <1>6 DEF LiftInv, Written
  <2>8. Lift!KeepsToItsRange' /\ Lift!NothingLeft'
    BY <2>1, <1>3 DEF LiftInv, Lift!KeepsToItsRange, Lift!NothingLeft, Lift!image
  <2> QED
    BY <2>4, <2>5, <2>6, <2>7, <2>8 DEF LiftInv
<1> QED
  BY <1>8, <1>9

(* In the beginning nothing is lifted.                                     *)
LEMMA LiftBegin == MCInit => LiftInv
<1>1. SUFFICES ASSUME MCInit PROVE LiftInv
  OBVIOUS
<1>2. images \in Programs /\ Lift!Init
  <2>1. Programs # {}
    BY HostAssumption DEF HostAssumption, Lift!LifterAssumption
  <2> QED
    BY <1>1, <2>1 DEF MCInit
<1>3. /\ index = 1 /\ shards = <<>> /\ per_image = <<>> /\ pending = Known /\ extents = Known
      /\ lifting = IF Known = {} THEN "stubs" ELSE "lift"
      /\ defined = {} /\ unlifted = {} /\ referenced = {} /\ recovered = 0 /\ done = 0
  BY <1>2 DEF Lift!Init, Known
<1>4. IsList(<<>>)
  <2>1. <<>> \in Seq({})
    OBVIOUS
  <2> QED
    BY <2>1 DEF IsList
<1>5. LiftTypes
  <2>1. Len(images) \in 1 .. Len(ImageBases) /\ ImageBases \in Seq(Nat)
    BY <1>2, HostAssumption DEF HostAssumption, Lift!LifterAssumption
  <2> QED
    BY <2>1, <1>2, <1>3, <1>4 DEF LiftTypes
<1>6. (\A r \in Known : RangeOk(r)) /\ StartOnce(Known)
  BY <1>5, ImagesWell, DescribedWell DEF Known
<1>7. RangesOk /\ StartsOk
  BY <1>3, <1>6 DEF RangesOk, StartsOk, StartOnce
<1>8. Counted
  <2>1. Lift!IsFiniteSet({}) /\ Lift!Cardinality({}) = 0
    BY FS_EmptySet DEF IsFiniteSet, Lift!IsFiniteSet, Cardinality, Lift!Cardinality
  <2> QED
    BY <2>1, <1>3 DEF Counted
<1>9. Swept /\ Written
  BY <1>3 DEF Swept, Written, WrittenHere
<1>10. Lift!KeepsToItsRange /\ Lift!NothingLeft
  BY <1>3 DEF Known, Lift!image, Lift!KeepsToItsRange, Lift!NothingLeft
<1> QED
  BY <1>5, <1>7, <1>8, <1>9, <1>10 DEF LiftInv

(* Every step keeps the lifter's invariant.                                *)
LEMMA LiftKeep ==
  ASSUME LiftInv, MCNext \/ UNCHANGED <<focus, vars, linkVars, loopVars, serviceVars, toolVars>>
  PROVE  LiftInv'
<1>1. CASE UNCHANGED liftVars
  <2>1. /\ LiftTypes' /\ RangesOk' /\ StartsOk' /\ Counted'
    BY <1>1 DEF liftVars, LiftInv, LiftTypes, IsList, RangesOk, Known, StartsOk, StartOnce, Counted
  <2>2. Swept' /\ Written'
    BY <1>1 DEF liftVars, LiftInv, Swept, Bare, Known, LongRun, Written, WrittenHere, WrittenFor
  <2>3. Lift!KeepsToItsRange' /\ Lift!NothingLeft'
    BY <1>1 DEF liftVars, LiftInv, Lift!KeepsToItsRange, Lift!NothingLeft, Lift!image
  <2> QED
    BY <2>1, <2>2, <2>3 DEF LiftInv
<1>2. CASE Lift!Next
  BY <1>2, LiftNextKeeps, RecoverKeeps, StopAtLimitKeeps, WriteStubsKeeps DEF Lift!Next
<1>3. UNCHANGED liftVars \/ Lift!Next
  BY DEF MCNext, Boots, Serves, Lifts, Computes, toolVars
<1> QED
  BY <1>1, <1>2, <1>3

(* What the invariant says of a program that is written.                   *)
LEMMA LiftSound ==
  ASSUME LiftInv
  PROVE  LiftsWhole
<1>1. /\ index \in DOMAIN images /\ Len(images) \in Nat /\ DOMAIN images = 1 .. Len(images)
      /\ Len(images) <= Len(ImageBases)
  BY ImagesWell DEF LiftInv, LiftTypes
<1>2. Lift!TypeOK
  BY <1>1 DEF LiftInv, LiftTypes, RangesOk, RangeOk, Counted, Lift!TypeOK
<1>3. Lift!LinksWhole
  <2>1. SUFFICES ASSUME lifting = "written"
        PROVE  /\ \A m, n \in DOMAIN shards :
                    shards[m][1] = shards[n][1] /\ shards[m][2][1] = shards[n][2][1] => m = n
               /\ \A i \in DOMAIN images :
                    LET of == {p[2] : p \in {q \in Lift!Range(shards) : q[1] = i}}
                    IN  /\ \A r \in of : /\ r[1] \notin per_image[i].stubs
                                         /\ Lift!fn_names(images[i], r) \subseteq per_image[i].fns
                        /\ per_image[i].fns = {r[1] : r \in of} \cup per_image[i].stubs
    BY DEF Lift!LinksWhole
  <2>2. ASSUME NEW i \in DOMAIN images,
               NEW of, of = {p[2] : p \in {q \in Lift!Range(shards) : q[1] = i}}
        PROVE  /\ \A r \in of : /\ r[1] \notin per_image[i].stubs
                                /\ Lift!fn_names(images[i], r) \subseteq per_image[i].fns
               /\ per_image[i].fns = {r[1] : r \in of} \cup per_image[i].stubs
    <3>1. WrittenFor(i)
      BY <2>1, <1>1 DEF LiftInv, LiftTypes, Written
    <3>2. \A r : r \in of <=> \E m \in DOMAIN shards : shards[m][1] = i /\ r = shards[m][2]
      BY <2>2 DEF Lift!Range
    <3>3. \A r \in of : /\ r[1] \in per_image[i].fns \ per_image[i].stubs
                        /\ Lift!fn_names(images[i], r) \subseteq per_image[i].fns
      BY <3>1, <3>2 DEF WrittenFor
    <3>4. \A a \in per_image[i].fns \ per_image[i].stubs : \E r \in of : r[1] = a
      BY <3>1, <3>2 DEF WrittenFor
    <3>5. per_image[i].stubs \subseteq per_image[i].fns
      BY <3>1 DEF WrittenFor
    <3> QED
      BY <3>3, <3>4, <3>5
  <2> QED
    BY <2>2 DEF LiftInv, Written
<1>4. Lift!Advances
  BY DEF LiftInv, Swept, StartsOk, Lift!Advances
<1>5. Lift!DispatchLands
  <2>1. SUFFICES ASSUME lifting = "written", NEW i \in DOMAIN images, ImageBases[i] # 0,
                        NEW a \in 0 .. ImageSpan - 1
        PROVE  Lift!Dispatched(ImageBases[i] + a) = IF a \in per_image[i].fns THEN <<i, a>> ELSE Lift!Miss
    BY DEF Lift!DispatchLands
  <2>2. /\ DOMAIN per_image = 1 .. Len(images) /\ ImageBases \in Seq(Nat)
        /\ \A k, j \in DOMAIN ImageBases : k < j /\ ImageBases[k] # 0 /\ ImageBases[j] # 0 =>
             ImageBases[k] + ImageSpan <= ImageBases[j] \/ ImageBases[j] + ImageSpan <= ImageBases[k]
        /\ ImageSpan \in Nat
    <3>1. Len(per_image) = Len(images) /\ IsList(per_image)
      BY <2>1 DEF LiftInv, LiftTypes
    <3>2. DOMAIN per_image = 1 .. Len(per_image)
      BY <3>1, OneMore
    <3>3. ImageSpan \in Nat
      BY HostAssumption DEF HostAssumption, Lift!LifterAssumption
    <3> QED
      BY <3>1, <3>2, <3>3, HostAssumption DEF HostAssumption, Lift!LifterAssumption
  <2>3. PICK to_ : to_ = ImageBases[i] + a
    OBVIOUS
  <2>4. i \in DOMAIN ImageBases /\ ImageBases[i] \in Nat
    BY <1>1, <2>1, <2>2
  <2>5. \A j \in DOMAIN per_image :
          ImageBases[j] # 0 /\ to_ \in ImageBases[j] .. ImageBases[j] + ImageSpan - 1 <=> j = i
    <3>1. SUFFICES ASSUME NEW j \in DOMAIN per_image
          PROVE ImageBases[j] # 0 /\ to_ \in ImageBases[j] .. ImageBases[j] + ImageSpan - 1 <=> j = i
      OBVIOUS
    <3>2. j \in DOMAIN ImageBases /\ ImageBases[j] \in Nat /\ j \in Nat /\ i \in Nat
      BY <1>1, <2>1, <2>2
    <3>3. to_ >= ImageBases[i] /\ to_ < ImageBases[i] + ImageSpan
      BY <2>1, <2>2, <2>3, <2>4
    <3>4. CASE j = i
      BY <3>4, <3>3, <2>1, <2>2, <2>3, <2>4
    <3>5. CASE j # i
      <4>1. ImageBases[j] # 0 =>
              ImageBases[i] + ImageSpan <= ImageBases[j] \/ ImageBases[j] + ImageSpan <= ImageBases[i]
        BY <3>5, <3>2, <2>1, <2>2, <2>4
      <4>2. PICK b, c, n : b = ImageBases[i] /\ c = ImageBases[j] /\ n = ImageSpan
        OBVIOUS
      <4>3. /\ b \in Nat /\ c \in Nat /\ n \in Nat /\ to_ >= b /\ to_ < b + n
            /\ c # 0 => b + n <= c \/ c + n <= b
        BY <4>1, <4>2, <3>2, <3>3, <2>2, <2>4
      <4>4. ~ (c # 0 /\ to_ \in c .. c + n - 1)
        BY <4>3
      <4> QED
        BY <4>2, <4>4, <3>5
    <3> QED
      BY <3>4, <3>5
  <2>6. {j \in DOMAIN per_image :
           ImageBases[j] # 0 /\ to_ \in ImageBases[j] .. ImageBases[j] + ImageSpan - 1} = {i}
    BY <2>5, <2>1, <2>2, <1>1
  <2>7. Lift!Min({i}) = i
    <3>1. {i} \in SUBSET Nat /\ {i} # {}
      BY <2>1, <1>1
    <3> QED
      BY <3>1, LiftMin
  <2>8. to_ - ImageBases[i] = a
    BY <2>1, <2>2, <2>3, <2>4
  <2> QED
    BY <2>3, <2>6, <2>7, <2>8 DEF Lift!Dispatched, Lift!Lookup
<1> QED
  BY <1>2, <1>3, <1>4, <1>5 DEF LiftInv, LiftsWhole, Lift!LiftsWhole
-----------------------------------------------------------------------------
(* The host: every part as it has to be.                                   *)
HostInv ==
    /\ LinkInv /\ LoopInv /\ ModesInv /\ NetInv /\ PrefInv /\ SwitchInv /\ FlagsInv
    /\ LiftInv

(* So it is in every world a run begins in.                                *)
LEMMA HostBegins == MCInit => HostInv
<1> SUFFICES ASSUME MCInit PROVE HostInv
  OBVIOUS
<1>1. Link!Start /\ Loop!Init /\ Modes!Init /\ Net!Init /\ Switch!Init
      /\ Prefs!Init /\ Flags!Init
  BY DEF MCInit
<1> QED
  BY <1>1, HostAssumption, LinkBegins, LoopBegins, ModesBegin, NetBegins, SwitchBegins,
     PrefsBegin, FlagsBegin, LiftBegin DEF HostInv

(* A step is one part's, and leaves the others alone.                      *)
LEMMA HostKeeps ==
  HostInv /\ [MCNext]_<<focus, vars, linkVars, loopVars, serviceVars, toolVars>> => HostInv'
<1> SUFFICES ASSUME HostInv,
                    MCNext \/ UNCHANGED <<focus, vars, linkVars, loopVars, serviceVars, toolVars>>
             PROVE  HostInv'
  OBVIOUS
<1>1. /\ Link!Next \/ UNCHANGED linkVars
      /\ Loop!Next \/ UNCHANGED loopVars
      /\ Modes!Next \/ UNCHANGED flagVars
      /\ Net!Next \/ UNCHANGED netVars
      /\ Switch!Next \/ UNCHANGED switchVars
      /\ Prefs!Next \/ UNCHANGED prefVars
      /\ Flags!Next \/ UNCHANGED flagRegs
  BY DEF MCNext, Boots, Serves, Lifts, Computes, serviceVars, toolVars, arithVars
<1>2. LiftInv'
  BY LiftKeep DEF HostInv
<1> QED
  BY <1>1, <1>2, HostAssumption, LinkKeeps, LoopKeeps, ModesKeep, NetKeeps, SwitchKeeps,
     PrefsKeep, FlagsKeep DEF HostInv

(* Whatever part of the host runs, every part stays as it has to be.       *)
THEOREM HostInvariance == MCSpec => []HostInv
BY HostBegins, HostKeeps, PTL DEF MCSpec

(* Linking, alone and in the host, whatever the images export, import and  *)
(* ship: every import is bound to something the runtime knows, the         *)
(* engine's where they should be, whatever dlsym hands out later.          *)
THEOREM ImportsAreKnown ==
  /\ Link!Spec => []EveryImportKnown
  /\ MCSpec => []EveryImportKnown
<1>1. Link!Init => LinkInv
  BY LinkBegins DEF Link!Init
<1>2. LinkInv /\ [Link!Next]_(Link!vars) => LinkInv'
  BY HostAssumption, LinkKeeps DEF Link!vars, linkVars
<1>3. Link!Spec => []EveryImportKnown
  BY <1>1, <1>2, LinkSound, PTL DEF Link!Spec
<1>4. MCSpec => []EveryImportKnown
  BY HostInvariance, LinkSound, PTL DEF HostInv
<1> QED
  BY <1>3, <1>4

(* The frame loop alone keeps its part of it.                              *)
LEMMA LoopInvariance == Loop!Spec => []LoopInv
<1>1. Loop!Init => LoopInv
  BY HostAssumption, LoopBegins
<1>2. LoopInv /\ [Loop!Next]_(Loop!vars) => LoopInv'
  BY HostAssumption, LoopKeeps DEF Loop!vars, Loop!window, Loop!counts, loopVars
<1> QED
  BY <1>1, <1>2, PTL DEF Loop!Spec

(* FrameLoop, alone and in the host, for every script and every number of  *)
(* frames: the GL context is handed over and back around every call of the *)
(* guest.                                                                  *)
THEOREM ContextIsHandedOver ==
  /\ Loop!Spec => []ContextHandedOver
  /\ MCSpec => []ContextHandedOver
<1>1. Loop!Spec => []ContextHandedOver
  BY LoopInvariance, LoopSound, PTL
<1>2. MCSpec => []ContextHandedOver
  BY HostInvariance, LoopSound, PTL DEF HostInv
<1> QED
  BY <1>1, <1>2

(* FrameLoop: what the guest hears of touches is one finger's, and every   *)
(* step is taken once, at its frame.                                       *)
THEOREM EventsComeInOrder ==
  /\ Loop!Spec => []EventsInOrder
  /\ MCSpec => []EventsInOrder
<1>1. Loop!Spec => []EventsInOrder
  BY LoopInvariance, LoopSound, PTL
<1>2. MCSpec => []EventsInOrder
  BY HostInvariance, LoopSound, PTL DEF HostInv
<1> QED
  BY <1>1, <1>2

(* SocketFlags and Redirect, for every set of sockets and ports and every  *)
(* number of connections: F_GETFL answers with the mode the socket is in,  *)
(* and a connection ends where the redirect sends what the title meant.    *)
THEOREM ConnectionsEndWhereDue ==
  /\ Modes!Spec /\ Net!Spec => []ConnectionsDue
  /\ MCSpec => []ConnectionsDue
<1>1. Modes!Init => ModesInv
  BY HostAssumption, ModesBegin
<1>2. ModesInv /\ [Modes!Next]_(Modes!vars) => ModesInv'
  BY HostAssumption, ModesKeep DEF Modes!vars, flagVars
<1>3. NetInv /\ [Net!Next]_(Net!vars) => NetInv'
  BY HostAssumption, NetKeeps DEF Net!vars, netVars
<1>4. Modes!Spec /\ Net!Spec => []ConnectionsDue
  BY <1>1, <1>2, <1>3, NetBegins, ConnectionsSound, PTL DEF Modes!Spec, Net!Spec
<1>5. MCSpec => []ConnectionsDue
  BY HostInvariance, ConnectionsSound, PTL DEF HostInv
<1> QED
  BY <1>4, <1>5

(* JumpTables, alone and in the host, for every image, every function and  *)
(* instructions of every kind, run as they stand, read only or run only: a *)
(* switch through a table, and one computed from an index that was not     *)
(* loaded, lands on a label of its own function, unless what it is built   *)
(* from was lost: a base to another base or to a loaded value that was     *)
(* read after it and not run, an entry or a sum to anything (jump_tables). *)
THEOREM SwitchesLand ==
  /\ Switch!Spec => []SwitchLands
  /\ MCSpec => []SwitchLands
<1>1. Switch!Init => SwitchInv
  BY HostAssumption, SwitchBegins
<1>2. SwitchInv /\ [Switch!Next]_(Switch!vars) => SwitchInv'
  BY HostAssumption, SwitchKeeps DEF Switch!vars, Switch!known, switchVars
<1>3. Switch!Spec => []SwitchLands
  BY <1>1, <1>2, SwitchSound, PTL DEF Switch!Spec
<1>4. MCSpec => []SwitchLands
  BY HostInvariance, SwitchSound, PTL DEF HostInv
<1> QED
  BY <1>3, <1>4

(* Preferences, alone and in the host, for every set of keys and values    *)
(* and every number of threads and restarts: a title reads back what it    *)
(* stored last, and after a restart what it had when it synchronized.      *)
THEOREM StoredIsReadBack ==
  /\ Prefs!Spec => []ReadsBack
  /\ MCSpec => []ReadsBack
<1>1. Prefs!Init => PrefInv
  BY HostAssumption, PrefsBegin
<1>2. PrefInv /\ [Prefs!Next]_(Prefs!vars) => PrefInv'
  BY HostAssumption, PrefsKeep DEF Prefs!vars, prefVars
<1>3. Prefs!Spec => []ReadsBack
  BY <1>1, <1>2, PrefsSound, PTL DEF Prefs!Spec
<1>4. MCSpec => []ReadsBack
  BY HostInvariance, PrefsSound, PTL DEF HostInv
<1> QED
  BY <1>3, <1>4

(* Arm64Flags, alone and in the host, for every width of a word and every  *)
(* sequence of instructions: the conditions after a comparison are the     *)
(* relations they are named for, carries chain and overflow is exact.      *)
THEOREM FlagsAreExact ==
  /\ Flags!Spec => []FlagsExact
  /\ MCSpec => []FlagsExact
<1>1. Flags!Init => FlagsInv
  BY HostAssumption, FlagsBegin
<1>2. FlagsInv /\ [Flags!Next]_(Flags!vars) => FlagsInv'
  BY HostAssumption, FlagsKeep DEF Flags!vars, flagRegs
<1>3. FlagsInv => FlagsExact
  BY HostAssumption, FlagsSound
<1>4. Flags!Spec => []FlagsExact
  BY <1>1, <1>2, <1>3, PTL DEF Flags!Spec
<1>5. MCSpec => []FlagsExact
  BY <1>3, HostInvariance, PTL DEF HostInv
<1> QED
  BY <1>4, <1>5

(* Lifter, for every program of well described images and every layout of  *)
(* the sections: a written program defines each function once and every    *)
(* one it names, no run of words that nothing describes is passed over     *)
(* unless it is too long, no recovered function runs past the described    *)
(* one its start is in, and the dispatcher finds the function of every     *)
(* guest address that has one and of no other.                             *)
THEOREM ProgramsLiftWhole == MCSpec => []LiftsWhole
BY HostInvariance, LiftSound, PTL DEF HostInv
=============================================================================
