--------------------------- MODULE JniHandlesProofs ---------------------------
(***************************************************************************)
(* Proofs about the handles of the JNI environment, for every size of the  *)
(* arena, every text and any number of threads.                            *)
(***************************************************************************)
EXTENDS MCHost, Sequences, TLAPS

(* JniHandles.  Blocks are given out in turn, so where a handle lies says  *)
(* when it was made, as long as it is recent; and every handle the guest   *)
(* holds or a call has made was made at a time of its own.                 *)
Says == Texts \cup {""}
Leaf == [handle : Jni!Handles, born : Nat, means : Says, elements : {<<>>}]
Grip == [handle : Jni!Handles, born : Nat, means : Says, elements : Seq(Leaf)]
Job  == [fill : {"text", "copy", "array", "none"}, text : Says, of : Seq(Grip)]

HandleTypes ==
  /\ g_arena_used \in 0 .. Blocks /\ allocs \in 0 .. MaxAllocs /\ overrun \in BOOLEAN
  /\ allocs # 0 => g_arena_used # 0
  /\ block \in [Jni!Handles -> [text : Says, array : BOOLEAN, items : Seq(Jni!Handles)]]
  /\ filling \in [GuestThreads -> BOOLEAN] /\ todo \in [GuestThreads -> Seq(Job)]
  /\ made \in [GuestThreads -> Seq(Grip)] /\ held \in [GuestThreads -> Seq(Grip)]

(* A call as far as it has got: how many handles it still makes, that the  *)
(* array is the third of them, and that a copy's source is still held.     *)
Filled(t) == IF filling[t] THEN 1 ELSE 0

CallOf(hs, ms, ds, f) ==
  /\ Len(hs) <= MaxHeld /\ Len(ms) + Len(ds) <= 4 + f
  /\ f = 1 => ds # <<>> /\ ms # <<>> /\ ds[1].fill # "none"
  /\ \A i \in 1 .. Len(ds) : ds[i].fill = "none" => ds[i] = Jni!Cleared
  /\ \A i \in 1 .. Len(ds) : ds[i].fill = "array" => Len(ms) + i = 3 + f
  /\ \A i \in 1 .. Len(ds) : ds[i].fill = "copy" => \E j \in 1 .. Len(hs) : ds[i].of[1] = hs[j]
  /\ \A i \in 1 .. Len(ms) : ms[i].elements # <<>> => i = 3 /\ ms[i].elements = <<ms[1], ms[2]>>

InOneCall(t) == CallOf(held[t], made[t], todo[t], Filled(t))

(* Whatever anybody can still read or write through.                       *)
InHeld(k)   == \E t \in GuestThreads : \E i \in 1 .. Len(held[t]) : k = held[t][i]
InMade(k)   == \E t \in GuestThreads : \E i \in 1 .. Len(made[t]) : k = made[t][i]
InArray(k)  == \E t \in GuestThreads : \E i \in 1 .. Len(held[t]) :
                 \E j \in 1 .. Len(held[t][i].elements) : k = held[t][i].elements[j]
InUse(k)    == k \in Grip /\ (InHeld(k) \/ InMade(k) \/ InArray(k))

(* The block that was taken at the given time, if not taken again since.   *)
Place(born) == IF allocs - born < g_arena_used THEN g_arena_used - (allocs - born)
               ELSE g_arena_used - (allocs - born) + Blocks
Placed(k) == k.born \in 1 .. allocs /\ (Jni!Recent(k) => k.handle = Place(k.born))

HeldApart ==
  \A t, u \in GuestThreads : \A i \in 1 .. Len(held[t]) : \A j \in 1 .. Len(held[u]) :
    held[t][i].born = held[u][j].born => t = u /\ i = j

MadeApart ==
  \A t, u \in GuestThreads : \A i \in 1 .. Len(made[t]) : \A j \in 1 .. Len(made[u]) :
    made[t][i].born = made[u][j].born => t = u /\ i = j

BornApart ==
  /\ HeldApart /\ MadeApart
  /\ \A k, l : InHeld(k) /\ InMade(l) => k.born # l.born
  /\ \A e, k : InArray(e) /\ (InHeld(k) \/ InMade(k)) => e.born # k.born

HandleInv ==
  /\ HandleTypes /\ BornApart
  /\ \A t \in GuestThreads : InOneCall(t)
  /\ \A k : InUse(k) => Placed(k)
  /\ ~overrun => \A k : InUse(k) /\ Jni!Recent(k) => Jni!ReadsAs(k)

Known(k) == InHeld(k) \/ InMade(k) \/ InArray(k)

(* What each thread has in its call, and holds.                            *)
LEMMA ThreadTypes ==
  ASSUME HandleTypes, NEW t \in GuestThreads
  PROVE  /\ todo[t] \in Seq(Job) /\ made[t] \in Seq(Grip) /\ held[t] \in Seq(Grip)
         /\ filling[t] \in BOOLEAN
         /\ Len(todo[t]) \in Nat /\ Len(made[t]) \in Nat /\ Len(held[t]) \in Nat
<1>1. todo[t] \in Seq(Job) /\ made[t] \in Seq(Grip) /\ held[t] \in Seq(Grip)
  BY DEF HandleTypes
<1>2. filling[t] \in BOOLEAN
  BY DEF HandleTypes
<1> QED
  BY <1>1, <1>2

(* The bounds of the counters.                                             *)
LEMMA Numbers ==
  ASSUME HostAssumption, HandleTypes
  PROVE  /\ Blocks \in Nat \ {0} /\ MaxAllocs \in Nat
         /\ g_arena_used \in 0 .. Blocks /\ allocs \in Nat
         /\ allocs # 0 => g_arena_used # 0
<1>1. Blocks \in Nat \ {0} /\ MaxAllocs \in Nat
  BY DEF HostAssumption, Jni!HandlesAssumption
<1>2. g_arena_used \in 0 .. Blocks /\ allocs \in 0 .. MaxAllocs /\ (allocs # 0 => g_arena_used # 0)
  BY DEF HandleTypes
<1> QED
  BY <1>1, <1>2

(* An element of an array is a handle as any other.                        *)
LEMMA LeavesAreGrips ==
  ASSUME NEW l \in Leaf
  PROVE  l \in Grip
<1>1. l.elements = <<>> /\ <<>> \in Seq(Leaf)
  BY DEF Leaf
<1>2. l = [handle |-> l.handle, born |-> l.born, means |-> l.means, elements |-> l.elements]
      /\ l.handle \in Jni!Handles /\ l.born \in Nat /\ l.means \in Says
  BY DEF Leaf
<1>3. l.elements \in Seq(Leaf)
  BY <1>1
<1> QED
  BY <1>2, <1>3 DEF Grip

(* Of no elements there are no blocks.                                     *)
LEMMA NoElements ==
  ASSUME NEW e, e = <<>>
  PROVE  [i \in DOMAIN e |-> e[i].handle] = <<>>
OBVIOUS

(* What is in use is a handle of the arena's.                              *)
LEMMA UseIsKnown ==
  ASSUME HandleTypes, NEW k
  PROVE  InUse(k) <=> Known(k)
<1>1. ASSUME NEW t \in GuestThreads, NEW i \in 1 .. Len(held[t]) PROVE held[t][i] \in Grip
  BY <1>1, ThreadTypes
<1>2. ASSUME NEW t \in GuestThreads, NEW i \in 1 .. Len(made[t]) PROVE made[t][i] \in Grip
  BY <1>2, ThreadTypes
<1>3. ASSUME NEW t \in GuestThreads, NEW i \in 1 .. Len(held[t]),
             NEW j \in 1 .. Len(held[t][i].elements)
      PROVE  held[t][i].elements[j] \in Grip
  <2>1. held[t][i].elements \in Seq(Leaf)
    BY <1>1 DEF Grip
  <2>2. held[t][i].elements[j] \in Leaf
    BY <2>1
  <2> QED
    BY <2>2, LeavesAreGrips
<1>4. InHeld(k) => k \in Grip
  BY <1>1 DEF InHeld
<1>5. InMade(k) => k \in Grip
  BY <1>2 DEF InMade
<1>6. InArray(k) => k \in Grip
  BY <1>3 DEF InArray
<1> QED
  BY <1>4, <1>5, <1>6 DEF InUse, Known

(* Two recent handles that lie in one block are of one time.               *)
LEMMA RecentApart ==
  ASSUME HostAssumption, HandleTypes, NEW k, NEW l, Placed(k), Placed(l),
         Jni!Recent(k), Jni!Recent(l), k.handle = l.handle
  PROVE  k.born = l.born
<1>1. Blocks \in Nat \ {0} /\ g_arena_used \in 0 .. Blocks /\ allocs \in Nat
  BY Numbers
<1>2. k.born \in 1 .. allocs /\ l.born \in 1 .. allocs
  BY DEF Placed
<1>3. allocs - k.born < Blocks /\ allocs - l.born < Blocks
  BY DEF Jni!Recent
<1>4. Place(k.born) = Place(l.born)
  BY DEF Placed
<1> QED
  BY <1>1, <1>2, <1>3, <1>4 DEF Place

(* Writing a block through a handle disturbs no other recent one.          *)
LEMMA Rewriting ==
  ASSUME HostAssumption, HandleInv, NEW p, InUse(p), NEW q \in Grip, NEW b,
         q.handle = p.handle, q.born = p.born,
         block' = [block EXCEPT ![p.handle] = b],
         UNCHANGED <<g_arena_used, allocs>>, overrun' = (overrun \/ ~Jni!Recent(p)),
         Jni!ReadsAs(p) /\ ~overrun =>
           /\ b.text = q.means
           /\ b.array <=> q.elements # <<>>
           /\ b.items = [i \in DOMAIN q.elements |-> q.elements[i].handle],
         \A k : InUse(k)' => k = q \/ (InUse(k) /\ k.born # p.born)
  PROVE  /\ \A k : InUse(k)' => Placed(k)'
         /\ ~overrun' => \A k : InUse(k)' /\ Jni!Recent(k)' => Jni!ReadsAs(k)'
<1>1. ASSUME NEW k PROVE (Placed(k)' <=> Placed(k)) /\ (Jni!Recent(k)' <=> Jni!Recent(k))
  BY DEF Placed, Place, Jni!Recent
<1>2. Placed(p) /\ Placed(q) /\ (Jni!Recent(q) <=> Jni!Recent(p))
  BY DEF HandleInv, Placed, Jni!Recent
<1>3. ASSUME NEW k, InUse(k)' PROVE Placed(k)'
  BY <1>1, <1>2, <1>3 DEF HandleInv
<1>4. ASSUME ~overrun', NEW k, InUse(k)', Jni!Recent(k)' PROVE Jni!ReadsAs(k)'
  <2>1. ~overrun /\ Jni!Recent(p) /\ Jni!Recent(k)
    BY <1>1, <1>4
  <2>2. Jni!ReadsAs(p)
    BY <2>1 DEF HandleInv
  <2>3. p.handle \in Jni!Handles /\ DOMAIN block = Jni!Handles
    BY DEF InUse, Grip, HandleInv, HandleTypes
  <2>4. CASE k = q
    <3>1. block'[k.handle] = b
      BY <2>3, <2>4
    <3> QED
      BY <2>1, <2>2, <2>4, <3>1 DEF Jni!ReadsAs
  <2>5. CASE InUse(k) /\ k.born # p.born
    <3>1. Placed(k) /\ Jni!ReadsAs(k)
      BY <2>1, <2>5 DEF HandleInv
    <3>2. k.handle # p.handle
      BY <1>2, <2>1, <2>5, <3>1, RecentApart DEF HandleInv
    <3>3. block'[k.handle] = block[k.handle]
      BY <2>3, <2>5, <3>2 DEF InUse, Grip
    <3> QED
      BY <3>1, <3>3 DEF Jni!ReadsAs
  <2> QED
    BY <1>4, <2>4, <2>5
<1> QED
  BY <1>3, <1>4

(* A step after which every handle is where it was, of the time it was.    *)
LEMMA SameTimes ==
  ASSUME BornApart,
         \A u \in GuestThreads : Len(held'[u]) = Len(held[u]) /\ Len(made'[u]) = Len(made[u]),
         \A u \in GuestThreads : \A i \in 1 .. Len(held[u]) :
            held'[u][i].born = held[u][i].born /\ held'[u][i].elements = held[u][i].elements,
         \A u \in GuestThreads : \A i \in 1 .. Len(made[u]) : made'[u][i].born = made[u][i].born
  PROVE  BornApart'
<1>1. ASSUME NEW k, InHeld(k)' PROVE \E l : InHeld(l) /\ l.born = k.born
  BY <1>1 DEF InHeld
<1>2. ASSUME NEW k, InMade(k)' PROVE \E l : InMade(l) /\ l.born = k.born
  BY <1>2 DEF InMade
<1>3. ASSUME NEW k, InArray(k)' PROVE InArray(k)
  <2>1. PICK u \in GuestThreads : \E i \in 1 .. Len(held'[u]) :
          \E j \in 1 .. Len(held'[u][i].elements) : k = held'[u][i].elements[j]
    BY <1>3 DEF InArray
  <2>2. PICK i \in 1 .. Len(held'[u]) :
          \E j \in 1 .. Len(held'[u][i].elements) : k = held'[u][i].elements[j]
    BY <2>1
  <2>3. i \in 1 .. Len(held[u]) /\ held'[u][i].elements = held[u][i].elements
    OBVIOUS
  <2>4. \E j \in 1 .. Len(held[u][i].elements) : k = held[u][i].elements[j]
    BY <2>2, <2>3
  <2> QED
    BY <2>3, <2>4 DEF InArray
<1>4. ASSUME NEW k, NEW l, InHeld(k)', InMade(l)' PROVE k.born # l.born
  BY <1>1, <1>2, <1>4 DEF BornApart
<1>5. ASSUME NEW e, NEW k, InArray(e)', InHeld(k)' \/ InMade(k)' PROVE e.born # k.born
  BY <1>1, <1>2, <1>3, <1>5 DEF BornApart
<1>6. ASSUME NEW t \in GuestThreads, NEW u \in GuestThreads, NEW i \in 1 .. Len(held'[t]),
             NEW j \in 1 .. Len(held'[u]), held'[t][i].born = held'[u][j].born
      PROVE  t = u /\ i = j
  <2>1. /\ i \in 1 .. Len(held[t]) /\ j \in 1 .. Len(held[u])
        /\ held'[t][i].born = held[t][i].born /\ held'[u][j].born = held[u][j].born
    OBVIOUS
  <2>2. HeldApart /\ held[t][i].born = held[u][j].born
    BY <1>6, <2>1 DEF BornApart
  <2> QED
    BY <2>1, <2>2 DEF HeldApart
<1>7. ASSUME NEW t \in GuestThreads, NEW u \in GuestThreads, NEW i \in 1 .. Len(made'[t]),
             NEW j \in 1 .. Len(made'[u]), made'[t][i].born = made'[u][j].born
      PROVE  t = u /\ i = j
  <2>1. /\ i \in 1 .. Len(made[t]) /\ j \in 1 .. Len(made[u])
        /\ made'[t][i].born = made[t][i].born /\ made'[u][j].born = made[u][j].born
    OBVIOUS
  <2>2. MadeApart /\ made[t][i].born = made[u][j].born
    BY <1>7, <2>1 DEF BornApart
  <2> QED
    BY <2>1, <2>2 DEF MadeApart
<1> QED
  BY <1>4, <1>5, <1>6, <1>7 DEF BornApart, HeldApart, MadeApart

(* A thread whose call does not go on is where it was in it.               *)
LEMMA CallWaits ==
  ASSUME NEW t \in GuestThreads, InOneCall(t), held'[t] = held[t], made'[t] = made[t],
         todo'[t] = todo[t], filling'[t] = filling[t]
  PROVE  InOneCall(t)'
BY DEF InOneCall, Filled

(* A call begins: only what there is to do changes.                        *)
LEMMA BeginKeeps ==
  ASSUME HostAssumption, HandleInv, NEW t \in GuestThreads, NEW jobs \in Seq(Job),
         Jni!Begin(t, jobs), Len(jobs) <= 4,
         \A i \in 1 .. Len(jobs) :
           /\ jobs[i].fill = "none" => jobs[i] = Jni!Cleared
           /\ jobs[i].fill = "array" => i = 3
           /\ jobs[i].fill = "copy" => \E j \in 1 .. Len(held[t]) : jobs[i].of[1] = held[t][j]
  PROVE  HandleInv'
<1>1. /\ todo[t] = <<>> /\ made[t] = <<>> /\ todo' = [todo EXCEPT ![t] = jobs]
      /\ UNCHANGED <<g_arena_used, block, made, filling, held, allocs, overrun>>
  BY DEF Jni!Begin
<1>2. HandleTypes'
  BY <1>1 DEF HandleInv, HandleTypes
<1>3. BornApart'
  BY <1>1, SameTimes DEF HandleInv
<1>4. InOneCall(t)'
  <2>1. todo'[t] = jobs /\ made'[t] = <<>> /\ held'[t] = held[t] /\ Len(jobs) \in Nat
    BY <1>1 DEF HandleInv, HandleTypes
  <2>2. ~filling[t] /\ Len(held[t]) <= MaxHeld
    BY <1>1 DEF HandleInv, InOneCall, CallOf, Filled
  <2>3. Filled(t)' = 0
    BY <1>1, <2>2 DEF Filled
  <2>4. PICK ms : ms = made'[t]
    OBVIOUS
  <2>5. Len(ms) = 0
    BY <2>1, <2>4
  <2>6. \A i \in 1 .. Len(jobs) : jobs[i].fill = "array" => Len(ms) + i = 3 + 0
    BY <2>5
  <2>7. Len(ms) + Len(jobs) <= 4 + 0 /\ ~(\E i \in 1 .. Len(ms) : TRUE)
    BY <2>1, <2>5
  <2>8. CallOf(held[t], ms, jobs, 0)
    BY <2>2, <2>6, <2>7 DEF CallOf
  <2> QED
    BY <2>1, <2>3, <2>4, <2>8 DEF InOneCall
<1>5. \A u \in GuestThreads \ {t} : InOneCall(u)'
  BY <1>1, CallWaits DEF HandleInv, HandleTypes
<1>6. \A k : (InUse(k)' <=> InUse(k)) /\ (Placed(k)' <=> Placed(k))
             /\ (Jni!Recent(k)' <=> Jni!Recent(k)) /\ (Jni!ReadsAs(k)' <=> Jni!ReadsAs(k))
  BY <1>1 DEF InUse, InHeld, InMade, InArray, Placed, Place, Jni!Recent, Jni!ReadsAs
<1> QED
  BY <1>1, <1>2, <1>3, <1>4, <1>5, <1>6 DEF HandleInv

(* A block is taken in a call, to be left cleared or to be filled next.    *)
LEMMA TakenInCall ==
  ASSUME NEW hs, NEW ms \in Seq(Grip), NEW ds \in Seq(Job), NEW n, n.elements = <<>>,
         NEW ms1, Len(ms1) = Len(ms) + 1, ms1[Len(ms) + 1] = n,
         \A i \in 1 .. Len(ms) : ms1[i] = ms[i], CallOf(hs, ms, ds, 0), ds # <<>>
  PROVE  /\ ds[1] = Jni!Cleared => CallOf(hs, ms1, Tail(ds), 0)
         /\ ds[1] # Jni!Cleared => CallOf(hs, ms1, ds, 1)
<1>1. Len(ms) \in Nat /\ Len(ds) \in Nat \ {0} /\ ms1 # <<>>
  OBVIOUS
<1>2. ASSUME NEW i \in 1 .. Len(ms1), ms1[i].elements # <<>>
      PROVE  i = 3 /\ ms1[i].elements = <<ms1[1], ms1[2]>>
  <2>1. i # Len(ms) + 1
    BY <1>2
  <2>2. i \in 1 .. Len(ms) /\ ms1[i] = ms[i]
    BY <1>1, <2>1
  <2>3. i = 3 /\ ms[i].elements = <<ms[1], ms[2]>>
    BY <1>2, <2>2 DEF CallOf
  <2>4. 1 \in 1 .. Len(ms) /\ 2 \in 1 .. Len(ms)
    BY <1>1, <2>2, <2>3
  <2>5. ms1[1] = ms[1] /\ ms1[2] = ms[2]
    BY <2>4
  <2> QED
    BY <2>2, <2>3, <2>5
<1>3. CASE ds[1] = Jni!Cleared
  <2>1. /\ Len(Tail(ds)) = Len(ds) - 1
        /\ \A i \in 1 .. Len(Tail(ds)) : Tail(ds)[i] = ds[i + 1] /\ i + 1 \in 1 .. Len(ds)
    BY <1>1
  <2>2. ASSUME NEW i \in 1 .. Len(Tail(ds)), Tail(ds)[i].fill = "array" PROVE Len(ms1) + i = 3
    <3>1. Len(ms) + (i + 1) = 3 + 0
      BY <2>1, <2>2 DEF CallOf
    <3> QED
      BY <1>1, <2>1, <3>1
  <2>3. ASSUME NEW i \in 1 .. Len(Tail(ds)), Tail(ds)[i].fill = "copy"
        PROVE  \E j \in 1 .. Len(hs) : Tail(ds)[i].of[1] = hs[j]
    BY <2>1, <2>3 DEF CallOf
  <2>4. Len(hs) <= MaxHeld /\ Len(ms1) + Len(Tail(ds)) <= 4 + 0
    BY <1>1, <2>1 DEF CallOf
  <2>5. \A i \in 1 .. Len(Tail(ds)) : Tail(ds)[i].fill = "none" => Tail(ds)[i] = Jni!Cleared
    BY <2>1 DEF CallOf
  <2> QED
    BY <1>2, <1>3, <2>2, <2>3, <2>4, <2>5 DEF CallOf
<1>4. CASE ds[1] # Jni!Cleared
  <2>1. ds[1] \in Job
    BY <1>1
  <2>2. ds[1].fill # "none"
    BY <1>1, <1>4 DEF CallOf
  <2>3. ASSUME NEW i \in 1 .. Len(ds), ds[i].fill = "array" PROVE Len(ms1) + i = 3 + 1
    <3>1. Len(ms) + i = 3 + 0
      BY <2>3 DEF CallOf
    <3> QED
      BY <1>1, <3>1
  <2>4. \A i \in 1 .. Len(ds) : ds[i].fill = "copy" => \E j \in 1 .. Len(hs) : ds[i].of[1] = hs[j]
    BY DEF CallOf
  <2>5. Len(hs) <= MaxHeld /\ Len(ms1) + Len(ds) <= 4 + 1
    BY <1>1 DEF CallOf
  <2>6. \A i \in 1 .. Len(ds) : ds[i].fill = "none" => ds[i] = Jni!Cleared
    BY DEF CallOf
  <2> QED
    BY <1>1, <1>2, <1>4, <2>2, <2>3, <2>4, <2>5, <2>6 DEF CallOf
<1> QED
  BY <1>3, <1>4

(* A block is taken: the handle is of a time of its own, and every recent  *)
(* one lies elsewhere.                                                     *)
LEMMA AllocateKeeps ==
  ASSUME HostAssumption, HandleInv, NEW t \in GuestThreads, Jni!Allocate(t)
  PROVE  HandleInv'
<1> DEFINE h == Jni!Wrapped + 1
           n == Jni!Known(h, allocs + 1, "", <<>>)
<1>1. /\ todo[t] # <<>> /\ ~filling[t] /\ allocs < MaxAllocs
      /\ g_arena_used' = h /\ block' = [block EXCEPT ![h] = Jni!Blank]
      /\ allocs' = allocs + 1 /\ made' = [made EXCEPT ![t] = Append(made[t], n)]
      /\ UNCHANGED <<held, overrun>>
  BY DEF Jni!Allocate
<1>2. \/ /\ todo[t][1] = Jni!Cleared /\ todo' = [todo EXCEPT ![t] = Tail(todo[t])]
         /\ filling' = filling
      \/ /\ todo[t][1] # Jni!Cleared /\ filling' = [filling EXCEPT ![t] = TRUE]
         /\ todo' = todo
  <2>0. todo[t] # <<>>
    BY DEF Jni!Allocate
  <2>1. Head(todo[t]) = todo[t][1]
    BY <2>0
  <2>2. IF Head(todo[t]) = Jni!Cleared
        THEN todo' = [todo EXCEPT ![t] = Tail(todo[t])] /\ UNCHANGED filling
        ELSE filling' = [filling EXCEPT ![t] = TRUE] /\ UNCHANGED todo
    BY DEF Jni!Allocate
  <2> QED
    BY <2>1, <2>2
<1>3. /\ HandleTypes /\ BornApart /\ \A u \in GuestThreads : InOneCall(u)
      /\ \A k : InUse(k) => Placed(k)
  BY DEF HandleInv
<1>4. /\ Blocks \in Nat \ {0} /\ g_arena_used \in 0 .. Blocks /\ allocs \in Nat /\ MaxAllocs \in Nat
      /\ h \in 1 .. Blocks /\ h = (IF g_arena_used = Blocks THEN 1 ELSE g_arena_used + 1)
  BY <1>3, Numbers DEF Jni!Wrapped
<1>5. n \in Grip /\ n.handle = h /\ n.born = allocs + 1
  <2>1. PICK elements : elements = <<>>
    OBVIOUS
  <2>2. PICK says \in Says : says = ""
    BY DEF Says
  <2>3. elements \in Seq(Leaf) /\ h \in Jni!Handles /\ allocs + 1 \in Nat
    BY <1>4, <2>1 DEF Jni!Handles
  <2>4. n = [handle |-> h, born |-> allocs + 1, means |-> says, elements |-> elements]
    BY <2>1, <2>2, Zenon DEF Jni!Known
  <2> HIDE DEF n, h
  <2> QED
    BY <2>3, <2>4 DEF Grip
<1>e. n.elements = <<>> /\ n.means = Jni!Blank.text /\ Jni!Blank.array = FALSE /\ Jni!Blank.items = <<>>
  BY Zenon DEF Jni!Known, Jni!Blank
<1> HIDE DEF h, n
<1>6. /\ made'[t] = Append(made[t], n) /\ Len(made'[t]) = Len(made[t]) + 1 /\ Len(made[t]) \in Nat
      /\ made'[t][Len(made[t]) + 1] = n
      /\ \A i \in 1 .. Len(made[t]) : made'[t][i] = made[t][i]
      /\ \A u \in GuestThreads \ {t} : made'[u] = made[u]
  <2>1. made[t] \in Seq(Grip)
    BY <1>3, ThreadTypes
  <2>2. made'[t] = Append(made[t], n) /\ \A u \in GuestThreads \ {t} : made'[u] = made[u]
    BY <1>1, <1>3 DEF HandleTypes
  <2> QED
    BY <1>5, <2>1, <2>2
<1>7. HandleTypes'
  <2>1. /\ made' \in [GuestThreads -> Seq(Grip)] /\ held' \in [GuestThreads -> Seq(Grip)]
    <3>1. made[t] \in Seq(Grip)
      BY <1>3, ThreadTypes
    <3>2. Append(made[t], n) \in Seq(Grip)
      BY <1>5, <3>1
    <3> QED
      BY <1>1, <1>3, <3>2 DEF HandleTypes
  <2>2. Jni!Blank \in [text : Says, array : BOOLEAN, items : Seq(Jni!Handles)]
    <3>1. <<>> \in Seq(Jni!Handles)
      OBVIOUS
    <3> QED
      BY <3>1 DEF Jni!Blank, Says
  <2>3. block' \in [Jni!Handles -> [text : Says, array : BOOLEAN, items : Seq(Jni!Handles)]]
    BY <1>1, <1>3, <2>2 DEF HandleTypes
  <2>4. todo' \in [GuestThreads -> Seq(Job)] /\ filling' \in [GuestThreads -> BOOLEAN]
    <3>1. Tail(todo[t]) \in Seq(Job)
      BY <1>1, <1>3 DEF HandleTypes
    <3> QED
      BY <1>2, <1>3, <3>1 DEF HandleTypes
  <2>5. /\ g_arena_used' \in 0 .. Blocks /\ allocs' \in 0 .. MaxAllocs /\ overrun' \in BOOLEAN
        /\ g_arena_used' # 0
    BY <1>1, <1>3, <1>4 DEF HandleTypes
  <2> QED
    BY <2>1, <2>3, <2>4, <2>5 DEF HandleTypes
<1>8. \A k : (InHeld(k)' <=> InHeld(k)) /\ (InArray(k)' <=> InArray(k))
  BY <1>1 DEF InHeld, InArray
<1>9. ASSUME NEW k, InMade(k)' PROVE InMade(k) \/ k = n
  <2>0. PICK u \in GuestThreads : \E i \in 1 .. Len(made'[u]) : k = made'[u][i]
    BY <1>9 DEF InMade
  <2>1. PICK i \in 1 .. Len(made'[u]) : k = made'[u][i]
    BY <2>0
  <2>2. CASE u # t
    BY <1>6, <2>1, <2>2 DEF InMade
  <2>3. CASE u = t
    <3>1. i \in 1 .. Len(made[t]) \/ i = Len(made[t]) + 1
      BY <1>6, <2>1, <2>3
    <3> QED
      BY <1>6, <2>1, <2>3, <3>1 DEF InMade
  <2> QED
    BY <2>2, <2>3
<1>10. ASSUME NEW k, Known(k) PROVE k.born \in 1 .. allocs
  BY <1>3, <1>10, UseIsKnown DEF Placed
<1>11. BornApart'
  <2>1. \A u \in GuestThreads : \A i \in 1 .. Len(made[u]) : made[u][i].born # allocs + 1
    <3>1. \A u \in GuestThreads : \A i \in 1 .. Len(made[u]) : Known(made[u][i])
      BY DEF Known, InMade
    <3> QED
      BY <1>4, <1>10, <3>1
  <2>2. ASSUME NEW u \in GuestThreads, NEW v \in GuestThreads, NEW i \in 1 .. Len(made'[u]),
               NEW j \in 1 .. Len(made'[v]), made'[u][i].born = made'[v][j].born
        PROVE  u = v /\ i = j
    <3>1. \/ i \in 1 .. Len(made[u]) /\ made'[u][i] = made[u][i]
          \/ u = t /\ i = Len(made[t]) + 1 /\ made'[u][i] = n
      BY <1>6
    <3>2. \/ j \in 1 .. Len(made[v]) /\ made'[v][j] = made[v][j]
          \/ v = t /\ j = Len(made[t]) + 1 /\ made'[v][j] = n
      BY <1>6
    <3>3. MadeApart
      BY <1>3 DEF BornApart
    <3>4. CASE i \in 1 .. Len(made[u]) /\ j \in 1 .. Len(made[v])
               /\ made'[u][i] = made[u][i] /\ made'[v][j] = made[v][j]
      <4>1. made[u][i].born = made[v][j].born
        BY <2>2, <3>4
      <4>2. i \in 1 .. Len(made[u]) /\ j \in 1 .. Len(made[v])
        BY <3>4
      <4> QED
        BY <3>3, <4>1, <4>2, Zenon DEF MadeApart
    <3>5. CASE i \in 1 .. Len(made[u]) /\ made'[u][i] = made[u][i] /\ made'[v][j] = n
      <4>1. made[u][i].born = allocs + 1
        BY <1>5, <2>2, <3>5
      <4> QED
        BY <2>1, <3>5, <4>1
    <3>6. CASE j \in 1 .. Len(made[v]) /\ made'[v][j] = made[v][j] /\ made'[u][i] = n
      <4>1. made[v][j].born = allocs + 1
        BY <1>5, <2>2, <3>6
      <4> QED
        BY <2>1, <3>6, <4>1
    <3> QED
      BY <3>1, <3>2, <3>4, <3>5, <3>6
  <2>3. ASSUME NEW k, NEW l, InHeld(k)', InMade(l)' PROVE k.born # l.born
    <3>1. InHeld(k) /\ (InMade(l) \/ l = n)
      BY <1>8, <1>9, <2>3
    <3>2. k.born \in 1 .. allocs /\ k.born # n.born
      <4>1. k.born \in 1 .. allocs
        BY <1>10, <3>1 DEF Known
      <4> QED
        BY <1>4, <1>5, <4>1
    <3>3. InMade(l) => k.born # l.born
      BY <1>3, <3>1 DEF BornApart
    <3> QED
      BY <3>1, <3>2, <3>3
  <2>4. ASSUME NEW e, NEW k, InArray(e)', InHeld(k)' \/ InMade(k)' PROVE e.born # k.born
    <3>1. InArray(e) /\ (InHeld(k) \/ InMade(k) \/ k = n)
      BY <1>8, <1>9, <2>4
    <3>2. e.born \in 1 .. allocs /\ e.born # n.born
      <4>1. e.born \in 1 .. allocs
        BY <1>10, <3>1 DEF Known
      <4> QED
        BY <1>4, <1>5, <4>1
    <3>3. InHeld(k) \/ InMade(k) => e.born # k.born
      BY <1>3, <3>1 DEF BornApart
    <3> QED
      BY <3>1, <3>2, <3>3
  <2>5. \A u, v \in GuestThreads : \A i \in 1 .. Len(held'[u]) : \A j \in 1 .. Len(held'[v]) :
          held'[u][i].born = held'[v][j].born => u = v /\ i = j
    BY <1>1, <1>3 DEF BornApart, HeldApart
  <2> QED
    BY <2>2, <2>3, <2>4, <2>5 DEF BornApart, HeldApart, MadeApart
<1>12. InOneCall(t)'
  <2>1. /\ CallOf(held[t], made[t], todo[t], 0) /\ held'[t] = held[t]
        /\ todo[t] \in Seq(Job) /\ made[t] \in Seq(Grip) /\ filling[t] \in BOOLEAN
    BY <1>1, <1>3, ThreadTypes DEF InOneCall, Filled
  <2>2. /\ todo[t][1] = Jni!Cleared => CallOf(held[t], made'[t], Tail(todo[t]), 0)
        /\ todo[t][1] # Jni!Cleared => CallOf(held[t], made'[t], todo[t], 1)
    <3>1. todo[t] # <<>> /\ n.elements = <<>>
      BY <1>1, <1>e
    <3> QED
      BY <1>6, <2>1, <3>1, TakenInCall
  <2>3. CASE todo[t][1] = Jni!Cleared /\ todo' = [todo EXCEPT ![t] = Tail(todo[t])]
             /\ filling' = filling
    <3>1. todo'[t] = Tail(todo[t]) /\ Filled(t)' = 0
      BY <1>1, <1>3, <2>3 DEF HandleTypes, Filled
    <3> QED
      BY <2>1, <2>2, <2>3, <3>1 DEF InOneCall
  <2>4. CASE todo[t][1] # Jni!Cleared /\ filling' = [filling EXCEPT ![t] = TRUE] /\ todo' = todo
    <3>1. todo'[t] = todo[t] /\ Filled(t)' = 1
      BY <1>3, <2>4 DEF HandleTypes, Filled
    <3> QED
      BY <2>1, <2>2, <2>4, <3>1 DEF InOneCall
  <2> QED
    BY <1>2, <2>3, <2>4
<1>13. \A u \in GuestThreads \ {t} : InOneCall(u)'
  BY <1>1, <1>2, <1>3, <1>6, CallWaits DEF HandleTypes
<1>14. ASSUME NEW k, InUse(k)' PROVE InUse(k) \/ k = n
  BY <1>3, <1>7, <1>8, <1>9, <1>14, UseIsKnown DEF InUse, Known
<1>15. ASSUME NEW k, InUse(k), Jni!Recent(k)'
       PROVE  Placed(k)' /\ Jni!Recent(k) /\ k.handle # h
  <2>1. k.born \in 1 .. allocs /\ allocs + 1 - k.born < Blocks
    <3>1. k.born \in 1 .. allocs
      BY <1>3, <1>15 DEF Placed
    <3>2. allocs' - k.born < Blocks /\ allocs' = allocs + 1
      BY <1>1, <1>15 DEF Jni!Recent
    <3> QED
      BY <1>4, <3>1, <3>2
  <2>2. allocs - k.born < Blocks /\ Jni!Recent(k)
    BY <1>4, <2>1 DEF Jni!Recent
  <2>3. k.handle = Place(k.born) /\ g_arena_used # 0
    BY <1>3, <1>4, <1>15, <2>1, <2>2 DEF Placed, HandleTypes
  <2>4. Place(k.born)' = Place(k.born) /\ Place(k.born) # h
    BY <1>1, <1>4, <2>1, <2>2, <2>3 DEF Place
  <2> QED
    BY <1>1, <1>4, <2>1, <2>2, <2>3, <2>4 DEF Placed
<1>16. ASSUME NEW k, InUse(k)' PROVE Placed(k)'
  <2>1. CASE k = n
    <3>1. allocs' = allocs + 1 /\ g_arena_used' = h /\ k.born = allocs + 1 /\ k.handle = h
      BY <1>1, <1>5, <2>1
    <3>2. Place(k.born)' = h
      BY <1>4, <3>1 DEF Place
    <3> QED
      BY <1>4, <3>1, <3>2 DEF Placed
  <2>2. CASE InUse(k)
    <3>1. k.born \in 1 .. allocs + 1
      BY <1>3, <1>4, <2>2 DEF Placed
    <3> QED
      BY <1>1, <1>15, <2>2, <3>1 DEF Placed
  <2> QED
    BY <1>14, <1>16, <2>1, <2>2
<1>17. ASSUME ~overrun', NEW k, InUse(k)', Jni!Recent(k)' PROVE Jni!ReadsAs(k)'
  <2>1. CASE k = n
    <3>1. block'[h] = Jni!Blank
      BY <1>1, <1>3, <1>4 DEF HandleTypes, Jni!Handles
    <3>2. [i \in DOMAIN n.elements |-> n.elements[i].handle] = <<>>
      BY <1>e, NoElements
    <3>3. block'[n.handle] = Jni!Blank
      BY <1>5, <3>1
    <3>4. block'[n.handle].text = n.means
      BY <1>e, <3>3
    <3>5. block'[n.handle].array = FALSE
      BY <1>e, <3>3
    <3>6. block'[n.handle].items = <<>>
      BY <1>e, <3>3
    <3>7. block'[n.handle].array <=> n.elements # <<>>
      BY <1>e, <3>5
    <3>8. block'[n.handle].items = [i \in DOMAIN n.elements |-> n.elements[i].handle]
      BY <3>2, <3>6
    <3> QED
      BY <2>1, <3>4, <3>7, <3>8 DEF Jni!ReadsAs
  <2>2. CASE InUse(k)
    <3>1. Jni!ReadsAs(k) /\ k.handle # h
      BY <1>1, <1>15, <1>17, <2>2 DEF HandleInv
    <3>2. block'[k.handle] = block[k.handle]
      BY <1>1, <1>3, <2>2, <3>1 DEF HandleTypes, InUse, Grip
    <3> QED
      BY <3>1, <3>2 DEF Jni!ReadsAs
  <2> QED
    BY <1>14, <1>17, <2>1, <2>2
<1> QED
  BY <1>7, <1>11, <1>12, <1>13, <1>16, <1>17 DEF HandleInv

(* One time, one place among the handles the calls have made.              *)
LEMMA MadeOnce ==
  ASSUME MadeApart, NEW t \in GuestThreads, NEW u \in GuestThreads,
         NEW i \in 1 .. Len(made[t]), NEW j \in 1 .. Len(made[u]),
         made[t][i].born = made[u][j].born
  PROVE  t = u /\ i = j
BY DEF MadeApart

(* A sequence of two.                                                      *)
LEMMA Pair ==
  ASSUME NEW S, NEW s \in Seq(S), Len(s) = 2
  PROVE  s = <<s[1], s[2]>>
OBVIOUS

Writes(t, p, q, b) ==
  /\ q.handle = p.handle /\ q.born = p.born
  /\ made' = [made EXCEPT ![t] = Append(Jni!Front(made[t]), q)]
  /\ block' = [block EXCEPT ![p.handle] = b]
  /\ Jni!ReadsAs(p) /\ ~overrun =>
       /\ b.text = q.means
       /\ b.array <=> q.elements # <<>>
       /\ b.items = [i \in DOMAIN q.elements |-> q.elements[i].handle]
  /\ q.elements # <<>> => Len(made[t]) = 3 /\ q.elements = <<made[t][1], made[t][2]>>

(* What Fill writes, whichever kind of thing there is to do: the handle    *)
(* made last means something now, and its block says so.                   *)
LEMMA Filling ==
  ASSUME HostAssumption, HandleInv, NEW t \in GuestThreads, Jni!Fill(t),
         NEW p, p = made[t][Len(made[t])]
  PROVE  \E q \in Grip : \E b \in [text : Says, array : BOOLEAN, items : Seq(Jni!Handles)] :
           Writes(t, p, q, b)
<1> DEFINE job  == todo[t][1]
           rest == Jni!Front(made[t])
<1>1. HandleTypes /\ CallOf(held[t], made[t], todo[t], 1)
  BY DEF HandleInv, Jni!Fill, Filled, InOneCall
<1>2. todo[t] # <<>> /\ made[t] # <<>> /\ job.fill # "none"
  BY <1>1 DEF CallOf
<1>3. /\ todo[t] \in Seq(Job) /\ made[t] \in Seq(Grip) /\ Len(made[t]) \in Nat \ {0}
      /\ 1 \in 1 .. Len(todo[t]) /\ Len(made[t]) \in 1 .. Len(made[t])
  BY <1>1, <1>2, ThreadTypes
<1>4. job \in Job /\ p \in Grip /\ InMade(p) /\ p = Jni!Last(made[t]) /\ job = Head(todo[t])
  BY <1>2, <1>3 DEF InMade, Jni!Last
<1>5. p.handle \in Jni!Handles
      /\ block[p.handle] \in [text : Says, array : BOOLEAN, items : Seq(Jni!Handles)]
  BY <1>1, <1>4 DEF Grip, HandleTypes
<1>6. p.elements # <<>> => Len(made[t]) = 3 /\ p.elements = <<made[t][1], made[t][2]>>
  BY <1>1, <1>3 DEF CallOf
<1>7. CASE job.fill = "text"
  <2> DEFINE q == [p EXCEPT !.means = job.text]
             b == [block[p.handle] EXCEPT !.text = job.text]
  <2>1. job.text \in Says
    BY <1>4 DEF Job
  <2>2. q \in Grip /\ b \in [text : Says, array : BOOLEAN, items : Seq(Jni!Handles)]
    BY <1>4, <1>5, <2>1 DEF Grip
  <2>3. /\ made' = [made EXCEPT ![t] = Append(rest, q)]
        /\ block' = [block EXCEPT ![p.handle] = b]
    BY <1>4, <1>7 DEF Jni!Fill
  <2>4. /\ q.handle = p.handle /\ q.born = p.born /\ q.means = job.text /\ q.elements = p.elements
        /\ b.text = job.text /\ b.array = block[p.handle].array /\ b.items = block[p.handle].items
    BY <1>4, <1>5 DEF Grip
  <2> HIDE DEF q, b
  <2>5. Jni!ReadsAs(p) =>
          /\ b.text = q.means
          /\ b.array <=> q.elements # <<>>
          /\ b.items = [i \in DOMAIN q.elements |-> q.elements[i].handle]
    BY <2>4 DEF Jni!ReadsAs
  <2> QED
    BY <1>6, <2>2, <2>3, <2>4, <2>5 DEF Writes
<1>8. CASE job.fill = "copy"
  <2> DEFINE k == job.of[1]
             copied == block[k.handle].text
             q == [p EXCEPT !.means = IF Jni!Recent(k) THEN k.means ELSE copied]
             b == [block[p.handle] EXCEPT !.text = copied]
  <2>1. PICK j \in 1 .. Len(held[t]) : k = held[t][j]
    BY <1>1, <1>3, <1>8 DEF CallOf
  <2>2. k \in Grip /\ InUse(k)
    BY <1>1, <2>1, UseIsKnown DEF Known, InHeld, InUse
  <2>3. k.means \in Says /\ copied \in Says
    BY <1>1, <2>2 DEF Grip, HandleTypes
  <2>4. q \in Grip /\ b \in [text : Says, array : BOOLEAN, items : Seq(Jni!Handles)]
    BY <1>4, <1>5, <2>3 DEF Grip
  <2>5. /\ made' = [made EXCEPT ![t] = Append(rest, q)]
        /\ block' = [block EXCEPT ![p.handle] = b]
    BY <1>4, <1>8 DEF Jni!Fill
  <2>6. /\ q.handle = p.handle /\ q.born = p.born /\ q.elements = p.elements
        /\ q.means = (IF Jni!Recent(k) THEN k.means ELSE copied)
        /\ b.text = copied /\ b.array = block[p.handle].array /\ b.items = block[p.handle].items
    BY <1>4, <1>5 DEF Grip
  <2>7. ~overrun => q.means = copied
    BY <2>2, <2>6 DEF HandleInv, Jni!ReadsAs
  <2> HIDE DEF q, b, copied
  <2>8. Jni!ReadsAs(p) /\ ~overrun =>
          /\ b.text = q.means
          /\ b.array <=> q.elements # <<>>
          /\ b.items = [i \in DOMAIN q.elements |-> q.elements[i].handle]
    BY <2>6, <2>7 DEF Jni!ReadsAs
  <2> QED
    BY <1>6, <2>4, <2>5, <2>6, <2>8 DEF Writes
<1>9. CASE job.fill = "array"
  <2> DEFINE q == [p EXCEPT !.elements = rest]
             listed == [i \in DOMAIN rest |-> rest[i].handle]
             b == [block[p.handle] EXCEPT !.array = TRUE, !.items = listed]
  <2>1. Len(made[t]) = 3
    <3>1. Len(made[t]) + 1 = 3 + 1
      BY <1>1, <1>3, <1>9 DEF CallOf
    <3>2. \A n \in Nat : n + 1 = 3 + 1 => n = 3
      OBVIOUS
    <3> QED
      BY <1>3, <3>1, <3>2
  <2>2. rest = <<made[t][1], made[t][2]>>
    <3>1. rest = SubSeq(made[t], 1, 2)
      BY <2>1 DEF Jni!Front
    <3>2. /\ SubSeq(made[t], 1, 2) \in Seq(Grip) /\ Len(SubSeq(made[t], 1, 2)) = 2
          /\ SubSeq(made[t], 1, 2)[1] = made[t][1] /\ SubSeq(made[t], 1, 2)[2] = made[t][2]
      BY <1>3, <2>1
    <3> QED
      BY <3>1, <3>2, Pair
  <2>3. made[t][1] \in Leaf /\ made[t][2] \in Leaf
    <3>1. made[t][1].elements = <<>> /\ made[t][2].elements = <<>>
      BY <1>1, <2>1 DEF CallOf
    <3>2. made[t][1] \in Grip /\ made[t][2] \in Grip
      BY <1>3, <2>1
    <3> QED
      BY <3>1, <3>2 DEF Grip, Leaf
  <2>4. rest \in Seq(Leaf) /\ rest # <<>> /\ listed \in Seq(Jni!Handles)
    <3>1. <<made[t][1], made[t][2]>> \in Seq(Leaf)
      BY <2>3
    <3>2. /\ DOMAIN rest = 1 .. 2 /\ rest[1] = made[t][1] /\ rest[2] = made[t][2]
          /\ made[t][1].handle \in Jni!Handles /\ made[t][2].handle \in Jni!Handles
      BY <2>2, <2>3 DEF Leaf
    <3>3. \A i \in 1 .. 2 : listed[i] \in Jni!Handles
      BY <3>2
    <3>4. listed \in [1 .. 2 -> Jni!Handles]
      BY <3>2, <3>3
    <3> QED
      BY <2>2, <3>1, <3>4
  <2>5. /\ made' = [made EXCEPT ![t] = Append(rest, q)]
        /\ block' = [block EXCEPT ![p.handle] = b]
    BY <1>4, <1>9 DEF Jni!Fill
  <2> HIDE DEF rest
  <2>6. /\ q.handle = p.handle /\ q.born = p.born /\ q.means = p.means /\ q.elements = rest
        /\ b.text = block[p.handle].text /\ b.array = TRUE /\ b.items = listed
    BY <1>4, <1>5 DEF Grip
  <2>7. q \in Grip /\ b \in [text : Says, array : BOOLEAN, items : Seq(Jni!Handles)]
    BY <1>4, <1>5, <2>4 DEF Grip
  <2>8. Jni!ReadsAs(p) /\ ~overrun =>
          /\ b.text = q.means
          /\ b.array <=> q.elements # <<>>
          /\ b.items = [i \in DOMAIN q.elements |-> q.elements[i].handle]
    BY <2>4, <2>6 DEF Jni!ReadsAs
  <2>9. q.elements # <<>> => Len(made[t]) = 3 /\ q.elements = <<made[t][1], made[t][2]>>
    BY <2>1, <2>2, <2>6
  <2> HIDE DEF q, b
  <2> QED
    BY <2>5, <2>6, <2>7, <2>8, <2>9 DEF Writes, rest
<1> QED
  <2>1. job.fill \in {"text", "copy", "array", "none"}
    BY <1>4 DEF Job
  <2> QED
    BY <1>2, <1>7, <1>8, <1>9, <2>1

(* The handle made last is replaced in a call, and its job is done.        *)
LEMMA FilledInCall ==
  ASSUME NEW hs, NEW ms \in Seq(Grip), NEW ds \in Seq(Job), NEW q, CallOf(hs, ms, ds, 1),
         q.elements # <<>> => Len(ms) = 3 /\ q.elements = <<ms[1], ms[2]>>,
         NEW ms1, Len(ms1) = Len(ms), ms1[Len(ms)] = q,
         \A i \in 1 .. Len(ms) - 1 : ms1[i] = ms[i]
  PROVE  CallOf(hs, ms1, Tail(ds), 0)
<1>1. Len(ms) \in Nat \ {0} /\ Len(ds) \in Nat \ {0} /\ ds # <<>>
  BY DEF CallOf
<1>2. /\ Len(Tail(ds)) = Len(ds) - 1
      /\ \A i \in 1 .. Len(Tail(ds)) : Tail(ds)[i] = ds[i + 1] /\ i + 1 \in 1 .. Len(ds)
  BY <1>1
<1>3. ASSUME NEW i \in 1 .. Len(Tail(ds)), Tail(ds)[i].fill = "array" PROVE Len(ms1) + i = 3
  <2>1. Len(ms) + (i + 1) = 3 + 1
    BY <1>2, <1>3 DEF CallOf
  <2> QED
    BY <1>1, <1>2, <2>1
<1>4. ASSUME NEW i \in 1 .. Len(Tail(ds)), Tail(ds)[i].fill = "copy"
      PROVE  \E j \in 1 .. Len(hs) : Tail(ds)[i].of[1] = hs[j]
  BY <1>2, <1>4 DEF CallOf
<1>5. \A i \in 1 .. Len(Tail(ds)) : Tail(ds)[i].fill = "none" => Tail(ds)[i] = Jni!Cleared
  BY <1>2 DEF CallOf
<1>6. Len(hs) <= MaxHeld /\ Len(ms1) + Len(Tail(ds)) <= 4 + 0
  BY <1>1, <1>2 DEF CallOf
<1>7. ASSUME NEW i \in 1 .. Len(ms1), ms1[i].elements # <<>>
      PROVE  i = 3 /\ ms1[i].elements = <<ms1[1], ms1[2]>>
  <2>1. i = Len(ms) \/ i \in 1 .. Len(ms) - 1
    BY <1>1
  <2>2. i = 3 /\ ms1[i].elements = <<ms[1], ms[2]>>
    <3>1. CASE i = Len(ms)
      BY <1>7, <3>1
    <3>2. CASE i \in 1 .. Len(ms) - 1
      <4>1. i \in 1 .. Len(ms) /\ ms1[i] = ms[i]
        BY <1>1, <3>2
      <4>2. i = 3 /\ ms[i].elements = <<ms[1], ms[2]>>
        BY <1>7, <4>1 DEF CallOf
      <4> QED
        BY <4>1, <4>2
    <3> QED
      BY <2>1, <3>1, <3>2
  <2>3. 1 \in 1 .. Len(ms) - 1 /\ 2 \in 1 .. Len(ms) - 1
    BY <1>1, <2>1, <2>2
  <2>4. ms1[1] = ms[1] /\ ms1[2] = ms[2]
    BY <2>3
  <2> QED
    BY <2>2, <2>4
<1> QED
  BY <1>3, <1>4, <1>5, <1>6, <1>7 DEF CallOf

(* A block is filled: the handle made last is rewritten.                   *)
LEMMA FillKeeps ==
  ASSUME HostAssumption, HandleInv, NEW t \in GuestThreads, Jni!Fill(t)
  PROVE  HandleInv'
<1>1. /\ HandleTypes /\ BornApart /\ \A u \in GuestThreads : InOneCall(u)
      /\ filling[t] /\ CallOf(held[t], made[t], todo[t], 1) /\ made[t] # <<>> /\ todo[t] # <<>>
  BY DEF HandleInv, InOneCall, CallOf, Jni!Fill, Filled
<1>2. PICK last : last = Len(made[t])
  OBVIOUS
<1>3. last \in Nat \ {0} /\ last \in 1 .. Len(made[t]) /\ made[t] \in Seq(Grip)
  BY <1>1, <1>2, ThreadTypes
<1>4. PICK p : p = made[t][last]
  OBVIOUS
<1>5. PICK q \in Grip, b \in [text : Says, array : BOOLEAN, items : Seq(Jni!Handles)] :
           /\ q.handle = p.handle /\ q.born = p.born
           /\ made' = [made EXCEPT ![t] = Append(Jni!Front(made[t]), q)]
           /\ block' = [block EXCEPT ![p.handle] = b]
           /\ Jni!ReadsAs(p) /\ ~overrun =>
                /\ b.text = q.means
                /\ b.array <=> q.elements # <<>>
                /\ b.items = [i \in DOMAIN q.elements |-> q.elements[i].handle]
           /\ q.elements # <<>> =>
                Len(made[t]) = 3 /\ q.elements = <<made[t][1], made[t][2]>>
  <2>1. p = made[t][Len(made[t])]
    BY <1>2, <1>4
  <2>2. \E q \in Grip : \E b \in [text : Says, array : BOOLEAN, items : Seq(Jni!Handles)] :
          Writes(t, p, q, b)
    BY <2>1, Filling
  <2> QED
    BY <2>2 DEF Writes
<1>6. /\ overrun' = (overrun \/ ~Jni!Recent(p)) /\ todo' = [todo EXCEPT ![t] = Tail(todo[t])]
      /\ filling' = [filling EXCEPT ![t] = FALSE] /\ UNCHANGED <<g_arena_used, held, allocs>>
  BY <1>2, <1>4 DEF Jni!Fill, Jni!Last
<1>7. /\ Jni!Front(made[t]) \in Seq(Grip) /\ Len(Jni!Front(made[t])) = last - 1
      /\ \A i \in 1 .. last - 1 : Jni!Front(made[t])[i] = made[t][i]
  BY <1>2, <1>3 DEF Jni!Front
<1>8. /\ made'[t] \in Seq(Grip) /\ Len(made'[t]) = last /\ made'[t][last] = q
      /\ \A i \in 1 .. last - 1 : made'[t][i] = made[t][i]
      /\ \A u \in GuestThreads \ {t} : made'[u] = made[u]
  <2>1. made'[t] = Append(Jni!Front(made[t]), q)
    BY <1>1, <1>5 DEF HandleTypes
  <2> QED
    BY <1>1, <1>3, <1>5, <1>7, <2>1 DEF HandleTypes
<1>9. HandleTypes'
  <2>1. made' \in [GuestThreads -> Seq(Grip)]
    BY <1>1, <1>5, <1>8 DEF HandleTypes
  <2>2. Tail(todo[t]) \in Seq(Job)
    BY <1>1 DEF HandleTypes
  <2>3. todo' \in [GuestThreads -> Seq(Job)] /\ filling' \in [GuestThreads -> BOOLEAN]
    BY <1>1, <1>6, <2>2 DEF HandleTypes
  <2>4. block' \in [Jni!Handles -> [text : Says, array : BOOLEAN, items : Seq(Jni!Handles)]]
    BY <1>1, <1>5 DEF HandleTypes
  <2>5. overrun' \in BOOLEAN
    BY <1>1, <1>6 DEF HandleTypes, Jni!Recent
  <2> QED
    BY <1>1, <1>6, <2>1, <2>3, <2>4, <2>5 DEF HandleTypes
<1>10. BornApart'
  <2>1. \A u \in GuestThreads : Len(made'[u]) = Len(made[u])
    BY <1>2, <1>8
  <2>2. \A u \in GuestThreads : \A i \in 1 .. Len(made[u]) : made'[u][i].born = made[u][i].born
    <3> SUFFICES ASSUME NEW u \in GuestThreads, NEW i \in 1 .. Len(made[u])
                 PROVE  made'[u][i].born = made[u][i].born
      OBVIOUS
    <3>1. CASE u = t /\ i = last
      BY <1>4, <1>5, <1>8, <3>1
    <3>2. CASE u = t /\ i # last
      <4>1. i \in 1 .. last - 1
        BY <1>2, <1>3, <3>2
      <4> QED
        BY <1>8, <3>2, <4>1
    <3>3. CASE u # t
      BY <1>8, <3>3
    <3> QED
      BY <3>1, <3>2, <3>3
  <2> QED
    BY <1>1, <1>6, <2>1, <2>2, SameTimes
<1>11. InOneCall(t)'
  <2>1. /\ CallOf(held[t], made[t], todo[t], 1) /\ held'[t] = held[t]
        /\ todo[t] \in Seq(Job) /\ made[t] \in Seq(Grip)
    BY <1>1, <1>6, ThreadTypes
  <2>2. todo'[t] = Tail(todo[t]) /\ Filled(t)' = 0
    BY <1>1, <1>6 DEF HandleTypes, Filled
  <2>3. q.elements # <<>> => Len(made[t]) = 3 /\ q.elements = <<made[t][1], made[t][2]>>
    BY <1>5
  <2>4. /\ Len(made'[t]) = Len(made[t]) /\ made'[t][Len(made[t])] = q
        /\ \A i \in 1 .. Len(made[t]) - 1 : made'[t][i] = made[t][i]
    BY <1>2, <1>8
  <2>5. CallOf(held[t], made'[t], Tail(todo[t]), 0)
    BY <2>1, <2>3, <2>4, FilledInCall
  <2> QED
    BY <2>1, <2>2, <2>5 DEF InOneCall
<1>12. \A u \in GuestThreads \ {t} : InOneCall(u)'
  BY <1>1, <1>6, <1>8, CallWaits DEF HandleTypes
<1>13. InUse(p) /\ InMade(p)
  BY <1>1, <1>3, <1>4, UseIsKnown DEF Known, InMade
<1>14. ASSUME NEW k, InUse(k)' PROVE k = q \/ (InUse(k) /\ k.born # p.born)
  <2>1. Known(k)'
    BY <1>9, <1>14 DEF InUse, Known
  <2>2. CASE InHeld(k)'
    <3>1. InHeld(k)
      BY <1>6, <2>2 DEF InHeld
    <3> QED
      BY <1>1, <1>13, <3>1, UseIsKnown DEF Known, BornApart
  <2>3. CASE InArray(k)'
    <3>1. InArray(k)
      BY <1>6, <2>3 DEF InArray
    <3> QED
      BY <1>1, <1>13, <3>1, UseIsKnown DEF Known, BornApart
  <2>4. CASE InMade(k)'
    <3>1. PICK u \in GuestThreads : \E i \in 1 .. Len(made'[u]) : k = made'[u][i]
      BY <2>4 DEF InMade
    <3>2. PICK i \in 1 .. Len(made'[u]) : k = made'[u][i]
      BY <3>1
    <3>3. CASE u = t /\ i = last
      BY <1>8, <3>2, <3>3
    <3>4. CASE ~(u = t /\ i = last)
      <4>1. i \in 1 .. Len(made[u]) /\ k = made[u][i]
        <5>1. CASE u = t
          <6>1. i \in 1 .. last - 1
            BY <1>3, <1>8, <3>4, <5>1
          <6> QED
            BY <1>2, <1>3, <1>8, <3>2, <5>1, <6>1
        <5>2. CASE u # t
          BY <1>8, <3>2, <5>2
        <5> QED
          BY <5>1, <5>2
      <4>2. k.born # p.born
        <5>1. MadeApart /\ made[u][i].born = k.born /\ made[t][last].born = p.born
          BY <1>1, <1>4, <4>1 DEF BornApart
        <5> QED
          BY <1>3, <3>4, <4>1, <5>1, MadeOnce
      <4> QED
        BY <1>1, <4>1, <4>2, UseIsKnown DEF Known, InMade
    <3> QED
      BY <3>3, <3>4
  <2> QED
    BY <2>1, <2>2, <2>3, <2>4 DEF Known
<1>15. /\ \A k : InUse(k)' => Placed(k)'
       /\ ~overrun' => \A k : InUse(k)' /\ Jni!Recent(k)' => Jni!ReadsAs(k)'
  BY <1>5, <1>6, <1>13, <1>14, Rewriting
<1> QED
  BY <1>9, <1>10, <1>11, <1>12, <1>15 DEF HandleInv

(* Two handles held are of one time only if they are one.                  *)
LEMMA HeldOnce ==
  ASSUME HeldApart, NEW t \in GuestThreads, NEW u \in GuestThreads,
         NEW i \in 1 .. Len(held[t]), NEW j \in 1 .. Len(held[u]),
         held[t][i].born = held[u][j].born
  PROVE  t = u /\ i = j
BY DEF HeldApart

(* What a call answers with is one of the handles it made.                 *)
LEMMA AnswerIsMade ==
  ASSUME NEW t \in GuestThreads, NEW ms \in Seq(Grip), ms = made[t], ms # <<>>
  PROVE  \E m \in 1 .. Len(ms) : Jni!Answer(t) = ms[m]
<1>1. Len(ms) \in 1 .. Len(ms) /\ Jni!Last(ms) = ms[Len(ms)]
  BY DEF Jni!Last
<1>2. CASE \E k \in Jni!Range(ms) : k.elements # <<>>
  <2>1. Jni!Answer(t) \in Jni!Range(ms)
    BY <1>2 DEF Jni!Answer
  <2> QED
    BY <2>1 DEF Jni!Range
<1>3. CASE ~(\E k \in Jni!Range(ms) : k.elements # <<>>)
  BY <1>1, <1>3 DEF Jni!Answer
<1> QED
  BY <1>2, <1>3

(* The call comes back: its answer is held, and nothing is made any more.  *)
LEMMA ReturnKeeps ==
  ASSUME HostAssumption, HandleInv, NEW t \in GuestThreads, Jni!Return(t)
  PROVE  HandleInv'
<1>1. /\ HandleTypes /\ BornApart /\ \A u \in GuestThreads : InOneCall(u)
      /\ \A k : InUse(k) => Placed(k)
      /\ todo[t] = <<>> /\ made[t] # <<>> /\ made' = [made EXCEPT ![t] = <<>>]
      /\ UNCHANGED <<g_arena_used, block, todo, filling, allocs, overrun>>
  BY DEF HandleInv, Jni!Return
<1>2. PICK m \in 1 .. Len(made[t]) : Jni!Answer(t) = made[t][m]
  BY <1>1, ThreadTypes, AnswerIsMade
<1>3. PICK a : a = made[t][m]
  OBVIOUS
<1>4. /\ a \in Grip /\ made[t] \in Seq(Grip) /\ held[t] \in Seq(Grip) /\ Len(held[t]) \in Nat
      /\ MaxHeld \in Nat \ {0}
  <2>1. MaxHeld \in Nat \ {0}
    BY DEF HostAssumption, Jni!HandlesAssumption
  <2> QED
    BY <1>1, <1>2, <1>3, <2>1, ThreadTypes
<1>5. CallOf(held[t], made[t], todo[t], Filled(t)) /\ ~filling[t]
  BY <1>1 DEF InOneCall, CallOf, Filled
<1>6. /\ \A u \in GuestThreads \ {t} : held'[u] = held[u]
      /\ held'[t] = (IF Len(Append(held[t], a)) > MaxHeld THEN Tail(Append(held[t], a))
                     ELSE Append(held[t], a))
  BY <1>1, <1>2, <1>3 DEF HandleTypes, Jni!Return
<1>7. /\ Append(held[t], a) \in Seq(Grip) /\ Len(Append(held[t], a)) = Len(held[t]) + 1
      /\ Append(held[t], a)[Len(held[t]) + 1] = a
      /\ \A i \in 1 .. Len(held[t]) : Append(held[t], a)[i] = held[t][i]
  BY <1>4
<1>8. held'[t] \in Seq(Grip)
  BY <1>6, <1>7
<1>9. PICK d \in {0, 1} :
        /\ Len(held'[t]) = Len(held[t]) + 1 - d
        /\ \A i \in 1 .. Len(held'[t]) :
             \/ i + d \in 1 .. Len(held[t]) /\ held'[t][i] = held[t][i + d]
             \/ i + d = Len(held[t]) + 1 /\ held'[t][i] = a
        /\ Len(held[t]) <= MaxHeld => Len(held'[t]) <= MaxHeld
  <2>1. PICK s \in Seq(Grip) : s = Append(held[t], a)
    BY <1>7
  <2>2. CASE Len(s) > MaxHeld
    <3>1. /\ held'[t] = Tail(s) /\ Len(s) = Len(held[t]) + 1 /\ Len(Tail(s)) = Len(held[t])
          /\ \A i \in 1 .. Len(held[t]) : Tail(s)[i] = s[i + 1]
      <4>1. held'[t] = Tail(s)
        BY <1>6, <2>1, <2>2
      <4>2. Len(s) = Len(held[t]) + 1
        BY <1>7, <2>1
      <4>3. PICK n \in Nat : n = Len(held[t])
        BY <1>4
      <4>4. Len(s) = n + 1 /\ s # <<>>
        BY <4>2, <4>3
      <4>5. Len(Tail(s)) = n /\ \A i \in 1 .. n : Tail(s)[i] = s[i + 1]
        BY <4>4
      <4> QED
        BY <4>1, <4>2, <4>3, <4>5
    <3>2. \A i \in 1 .. Len(held[t]) :
             \/ i + 1 \in 1 .. Len(held[t]) /\ s[i + 1] = held[t][i + 1]
             \/ i + 1 = Len(held[t]) + 1 /\ s[i + 1] = a
      BY <1>4, <1>7, <2>1
    <3>3. \A i \in 1 .. Len(held'[t]) :
             \/ i + 1 \in 1 .. Len(held[t]) /\ held'[t][i] = held[t][i + 1]
             \/ i + 1 = Len(held[t]) + 1 /\ held'[t][i] = a
      <4>1. Len(held'[t]) = Len(held[t])
        BY <3>1
      <4>2. \A i \in 1 .. Len(held[t]) : held'[t][i] = s[i + 1]
        BY <3>1
      <4>3. \A i \in 1 .. Len(held[t]) :
               \/ i + 1 \in 1 .. Len(held[t]) /\ held'[t][i] = held[t][i + 1]
               \/ i + 1 = Len(held[t]) + 1 /\ held'[t][i] = a
        BY <3>2, <4>2
      <4> QED
        BY <4>1, <4>3
    <3>4. Len(held'[t]) = Len(held[t]) + 1 - 1
      BY <1>4, <3>1
    <3>5. Len(held[t]) <= MaxHeld => Len(held'[t]) <= MaxHeld
      BY <3>1
    <3> QED
      BY <3>3, <3>4, <3>5
  <2>3. CASE ~(Len(s) > MaxHeld)
    <3>1. held'[t] = s /\ Len(s) = Len(held[t]) + 1
      BY <1>6, <1>7, <2>1, <2>3
    <3>2. \A i \in 1 .. Len(s) :
             \/ i + 0 \in 1 .. Len(held[t]) /\ s[i] = held[t][i + 0]
             \/ i + 0 = Len(held[t]) + 1 /\ s[i] = a
      BY <1>4, <1>7, <2>1, <3>1
    <3> QED
      BY <1>4, <2>3, <3>1, <3>2
  <2> QED
    BY <2>2, <2>3
<1>10. /\ \A u \in GuestThreads \ {t} : made'[u] = made[u]
       /\ made'[t] = <<>> /\ Len(made'[t]) = 0
  BY <1>1 DEF HandleTypes
<1>11. HandleTypes'
  <2>1. held' \in [GuestThreads -> Seq(Grip)]
    <3>1. /\ held' = [held EXCEPT ![t] = held'[t]] /\ held \in [GuestThreads -> Seq(Grip)]
      BY <1>1 DEF Jni!Return, HandleTypes
    <3> QED
      BY <1>8, <3>1
  <2>2. made' \in [GuestThreads -> Seq(Grip)]
    <3>1. <<>> \in Seq(Grip) /\ made \in [GuestThreads -> Seq(Grip)]
      BY <1>1 DEF HandleTypes
    <3> QED
      BY <1>1, <3>1
  <2> QED
    BY <1>1, <2>1, <2>2 DEF HandleTypes
<1>12. InMade(a)
  BY <1>2, <1>3 DEF InMade
<1>13. ASSUME NEW k, InHeld(k)' PROVE InHeld(k) \/ k = a
  <2>1. PICK u \in GuestThreads : \E i \in 1 .. Len(held'[u]) : k = held'[u][i]
    BY <1>13 DEF InHeld
  <2>2. PICK i \in 1 .. Len(held'[u]) : k = held'[u][i]
    BY <2>1
  <2>3. CASE u = t
    BY <1>9, <2>2, <2>3 DEF InHeld
  <2>4. CASE u # t
    BY <1>6, <2>2, <2>4 DEF InHeld
  <2> QED
    BY <2>3, <2>4
<1>14. ASSUME NEW k, InMade(k)'
       PROVE  \E u \in GuestThreads \ {t} : \E i \in 1 .. Len(made[u]) : k = made[u][i]
  <2>1. PICK u \in GuestThreads : \E i \in 1 .. Len(made'[u]) : k = made'[u][i]
    BY <1>14 DEF InMade
  <2>2. u # t
    BY <1>10, <2>1
  <2> QED
    BY <1>10, <2>1, <2>2
<1>15. ASSUME NEW k, InArray(k)'
       PROVE  InArray(k) \/ \E i \in 1 .. Len(made[t]) : i # m /\ k = made[t][i]
  <2>1. PICK u \in GuestThreads : \E i \in 1 .. Len(held'[u]) :
          \E j \in 1 .. Len(held'[u][i].elements) : k = held'[u][i].elements[j]
    BY <1>15 DEF InArray
  <2>2. PICK i \in 1 .. Len(held'[u]) :
          \E j \in 1 .. Len(held'[u][i].elements) : k = held'[u][i].elements[j]
    BY <2>1
  <2>3. CASE u # t
    BY <1>6, <2>2, <2>3 DEF InArray
  <2>4. CASE u = t /\ i + d \in 1 .. Len(held[t]) /\ held'[t][i] = held[t][i + d]
    BY <2>2, <2>4 DEF InArray
  <2>5. CASE u = t /\ held'[t][i] = a
    <3>1. PICK j \in 1 .. Len(a.elements) : k = a.elements[j]
      BY <2>2, <2>5
    <3>2. a.elements # <<>>
      BY <3>1
    <3>3. m = 3 /\ a.elements = <<made[t][1], made[t][2]>>
      BY <1>2, <1>3, <1>5, <3>2 DEF CallOf
    <3>4. k = made[t][1] \/ k = made[t][2]
      BY <3>1, <3>3
    <3>5. 1 \in 1 .. Len(made[t]) /\ 2 \in 1 .. Len(made[t])
      BY <1>2, <1>4, <3>3
    <3> QED
      BY <3>3, <3>4, <3>5
  <2> QED
    BY <1>9, <2>3, <2>4, <2>5
<1>16. ASSUME NEW k, InUse(k)' PROVE InUse(k)
  <2> SUFFICES Known(k)
    BY <1>1, UseIsKnown
  <2>1. Known(k)'
    BY <1>16 DEF InUse, Known
  <2>2. InMade(k)' => InMade(k)
    BY <1>14 DEF InMade
  <2>3. \A i \in 1 .. Len(made[t]) : InMade(made[t][i])
    BY DEF InMade
  <2>4. CASE InHeld(k)'
    BY <1>12, <1>13, <2>4 DEF Known
  <2>5. CASE InMade(k)'
    BY <2>2, <2>5 DEF Known
  <2>6. CASE InArray(k)'
    BY <1>15, <2>3, <2>6 DEF Known
  <2> QED
    BY <2>1, <2>4, <2>5, <2>6 DEF Known
<1>17. HeldApart'
  <2> SUFFICES ASSUME NEW u \in GuestThreads, NEW v \in GuestThreads, NEW i \in 1 .. Len(held'[u]),
                      NEW j \in 1 .. Len(held'[v]), held'[u][i].born = held'[v][j].born
               PROVE  u = v /\ i = j
    BY DEF HeldApart
  <2> DEFINE at(w, n) == IF w = t THEN n + d ELSE n
  <2>1. ASSUME NEW w \in GuestThreads, NEW n \in 1 .. Len(held'[w])
        PROVE  \/ at(w, n) \in 1 .. Len(held[w]) /\ held'[w][n] = held[w][at(w, n)]
               \/ w = t /\ n + d = Len(held[t]) + 1 /\ held'[w][n] = a
    <3>1. CASE w = t
      BY <1>9, <3>1
    <3>2. CASE w # t
      BY <1>6, <3>2
    <3> QED
      BY <3>1, <3>2
  <2>2. ASSUME NEW w \in GuestThreads, NEW n \in 1 .. Len(held[w]) PROVE held[w][n].born # a.born
    <3>1. InHeld(held[w][n])
      BY DEF InHeld
    <3> QED
      BY <1>1, <1>12, <3>1 DEF BornApart
  <2>3. CASE /\ at(u, i) \in 1 .. Len(held[u]) /\ held'[u][i] = held[u][at(u, i)]
             /\ at(v, j) \in 1 .. Len(held[v]) /\ held'[v][j] = held[v][at(v, j)]
    <3>1. HeldApart /\ held[u][at(u, i)].born = held[v][at(v, j)].born
      BY <1>1, <2>3 DEF BornApart
    <3>2. u = v /\ at(u, i) = at(v, j)
      <4> HIDE DEF at
      <4> QED
        BY <2>3, <3>1, HeldOnce
    <3> QED
      BY <3>2
  <2>4. CASE /\ at(u, i) \in 1 .. Len(held[u]) /\ held'[u][i] = held[u][at(u, i)]
             /\ held'[v][j] = a
    <3>1. held[u][at(u, i)].born = a.born
      BY <2>4
    <3> HIDE DEF at
    <3> QED
      BY <2>2, <2>4, <3>1
  <2>5. CASE /\ at(v, j) \in 1 .. Len(held[v]) /\ held'[v][j] = held[v][at(v, j)]
             /\ held'[u][i] = a
    <3>1. held[v][at(v, j)].born = a.born
      BY <2>5
    <3> HIDE DEF at
    <3> QED
      BY <2>2, <2>5, <3>1
  <2>6. CASE u = t /\ i + d = Len(held[t]) + 1 /\ v = t /\ j + d = Len(held[t]) + 1
    BY <2>6
  <2> QED
    BY <2>1, <2>3, <2>4, <2>5, <2>6
<1>18. MadeApart'
  <2> SUFFICES ASSUME NEW u \in GuestThreads, NEW v \in GuestThreads, NEW i \in 1 .. Len(made'[u]),
                      NEW j \in 1 .. Len(made'[v]), made'[u][i].born = made'[v][j].born
               PROVE  u = v /\ i = j
    BY DEF MadeApart
  <2>1. u # t /\ v # t
    BY <1>10
  <2>2. /\ i \in 1 .. Len(made[u]) /\ j \in 1 .. Len(made[v]) /\ MadeApart
        /\ made[u][i].born = made[v][j].born
    BY <1>1, <1>10, <2>1 DEF BornApart
  <2> QED
    BY <2>2, MadeOnce
<1>19. ASSUME NEW k, InMade(k)', NEW i \in 1 .. Len(made[t])
       PROVE  InMade(k) /\ k.born # made[t][i].born
  <2>1. PICK u \in GuestThreads \ {t} : \E j \in 1 .. Len(made[u]) : k = made[u][j]
    BY <1>14, <1>19
  <2>2. PICK j \in 1 .. Len(made[u]) : k = made[u][j]
    BY <2>1
  <2>3. MadeApart
    BY <1>1 DEF BornApart
  <2>4. k.born # made[t][i].born
    BY <2>2, <2>3, MadeOnce
  <2> QED
    BY <2>2, <2>4 DEF InMade
<1>20. ASSUME NEW k, NEW l, InHeld(k)', InMade(l)' PROVE k.born # l.born
  <2>1. InMade(l) /\ l.born # a.born
    BY <1>2, <1>3, <1>19, <1>20
  <2>2. InHeld(k) \/ k = a
    BY <1>13, <1>20
  <2> QED
    BY <1>1, <2>1, <2>2 DEF BornApart
<1>21. ASSUME NEW e, NEW k, InArray(e)', InHeld(k)' \/ InMade(k)' PROVE e.born # k.born
  <2>1. CASE InArray(e)
    <3>1. InHeld(k) \/ InMade(k)
      BY <1>12, <1>13, <1>2, <1>19, <1>21
    <3> QED
      BY <1>1, <2>1, <3>1 DEF BornApart
  <2>2. ASSUME NEW i \in 1 .. Len(made[t]), i # m, e = made[t][i] PROVE e.born # k.born
    <3>1. CASE InMade(k)'
      BY <1>19, <2>2, <3>1
    <3>2. CASE InHeld(k)
      <4>1. InMade(e)
        BY <2>2 DEF InMade
      <4> QED
        BY <1>1, <3>2, <4>1 DEF BornApart
    <3>3. CASE k = a
      <4>1. MadeApart
        BY <1>1 DEF BornApart
      <4> QED
        BY <1>2, <1>3, <2>2, <3>3, <4>1, MadeOnce
    <3> QED
      BY <1>13, <1>21, <3>1, <3>2, <3>3
  <2> QED
    BY <1>15, <1>21, <2>1, <2>2
<1>22. BornApart'
  BY <1>17, <1>18, <1>20, <1>21 DEF BornApart
<1>23. InOneCall(t)'
  <2>1. PICK ms, ds, hs : ms = made'[t] /\ ds = todo'[t] /\ hs = held'[t]
    OBVIOUS
  <2>2. Len(ms) = 0 /\ Len(ds) = 0 /\ Filled(t)' = 0
    BY <1>1, <1>5, <1>10, <2>1 DEF Filled
  <2>3. Len(hs) <= MaxHeld
    BY <1>5, <1>9, <2>1 DEF CallOf
  <2>4. /\ \A i \in 1 .. Len(ms) : FALSE
        /\ \A i \in 1 .. Len(ds) : FALSE
        /\ Len(ms) + Len(ds) <= 4 + 0
    BY <2>2
  <2>5. CallOf(hs, ms, ds, 0)
    BY <2>3, <2>4 DEF CallOf
  <2> QED
    BY <2>1, <2>2, <2>5 DEF InOneCall
<1>24. \A u \in GuestThreads \ {t} : InOneCall(u)'
  BY <1>1, <1>6, <1>10, CallWaits
<1>25. \A k : (Placed(k)' <=> Placed(k)) /\ (Jni!Recent(k)' <=> Jni!Recent(k))
              /\ (Jni!ReadsAs(k)' <=> Jni!ReadsAs(k))
  BY <1>1 DEF Placed, Place, Jni!Recent, Jni!ReadsAs
<1>26. ~overrun' => \A k : InUse(k)' /\ Jni!Recent(k)' => Jni!ReadsAs(k)'
  BY <1>1, <1>16, <1>25 DEF HandleInv
<1> QED
  BY <1>1, <1>11, <1>16, <1>22, <1>23, <1>24, <1>25, <1>26 DEF HandleInv

(* A region is set: the handle it was set through is of the same time, and *)
(* is to be read as what was put in.                                       *)
LEMMA SetKeeps ==
  ASSUME HostAssumption, HandleInv, NEW t \in GuestThreads, NEW i \in DOMAIN held[t], NEW s \in Texts,
         Jni!SetByteArrayRegion(t, i, s)
  PROVE  HandleInv'
<1> DEFINE k == held[t][i]
           q == [k EXCEPT !.means = s]
           b == [block[k.handle] EXCEPT !.text = s]
           hs == [held[t] EXCEPT ![i] = q]
<1>1. /\ todo[t] = <<>> /\ made[t] = <<>>
      /\ block' = [block EXCEPT ![k.handle].text = s]
      /\ held' = [held EXCEPT ![t][i].means = s]
      /\ overrun' = (overrun \/ ~Jni!Recent(k))
      /\ UNCHANGED <<g_arena_used, todo, made, filling, allocs>>
  BY Zenon DEF Jni!SetByteArrayRegion
<1>2. block' = [block EXCEPT ![k.handle] = b] /\ held' = [held EXCEPT ![t] = hs]
  BY <1>1
<1>3. /\ HandleTypes /\ BornApart /\ \A u \in GuestThreads : InOneCall(u)
      /\ \A l : InUse(l) => Placed(l)
  BY DEF HandleInv
<1>4. /\ held[t] \in Seq(Grip) /\ Len(held[t]) \in Nat /\ i \in 1 .. Len(held[t]) /\ k \in Grip
      /\ s \in Says
  <2>1. held[t] \in Seq(Grip)
    BY <1>3, ThreadTypes
  <2>2. s \in Says
    BY Zenon DEF Says
  <2> QED
    BY <2>1, <2>2
<1>5. /\ k.handle \in Jni!Handles /\ k.born \in Nat /\ k.elements \in Seq(Leaf)
      /\ q = [handle |-> k.handle, born |-> k.born, means |-> s, elements |-> k.elements]
  <2>1. PICK g \in Grip : g = k
    BY <1>4
  <2>2. /\ g.handle \in Jni!Handles /\ g.born \in Nat /\ g.elements \in Seq(Leaf)
        /\ [g EXCEPT !.means = s]
             = [handle |-> g.handle, born |-> g.born, means |-> s, elements |-> g.elements]
    BY DEF Grip
  <2> HIDE DEF k
  <2> QED
    BY <2>1, <2>2
<1>6. q \in Grip /\ q.handle = k.handle /\ q.born = k.born /\ q.elements = k.elements /\ q.means = s
  <2> HIDE DEF k, q
  <2> QED
    BY <1>4, <1>5 DEF Grip
<1>7. /\ block[k.handle] \in [text : Says, array : BOOLEAN, items : Seq(Jni!Handles)]
      /\ DOMAIN block = Jni!Handles
  <2> HIDE DEF k
  <2> QED
    BY <1>3, <1>5 DEF HandleTypes
<1>8. /\ b = [text |-> s, array |-> block[k.handle].array, items |-> block[k.handle].items]
      /\ b.text = s /\ b.array = block[k.handle].array /\ b.items = block[k.handle].items
  <2>1. PICK c : c = block[k.handle]
    OBVIOUS
  <2> HIDE DEF k
  <2>2. c \in [text : Says, array : BOOLEAN, items : Seq(Jni!Handles)]
    BY <1>7, <2>1
  <2> QED
    BY <2>1, <2>2
<1>9. b \in [text : Says, array : BOOLEAN, items : Seq(Jni!Handles)]
  <2> HIDE DEF k, b
  <2> QED
    BY <1>4, <1>7, <1>8
<1>10. /\ hs \in Seq(Grip) /\ Len(hs) = Len(held[t]) /\ hs[i] = q
       /\ \A j \in 1 .. Len(held[t]) : j # i => hs[j] = held[t][j]
  <2> HIDE DEF q
  <2> QED
    BY <1>4, <1>6
<1> HIDE DEF k, q, b, hs
<1>11. held'[t] = hs /\ \A u \in GuestThreads \ {t} : held'[u] = held[u]
  BY <1>2, <1>3 DEF HandleTypes
<1>12. HandleTypes'
  <2>1. held' \in [GuestThreads -> Seq(Grip)]
    BY <1>2, <1>3, <1>10 DEF HandleTypes
  <2>2. block' \in [Jni!Handles -> [text : Says, array : BOOLEAN, items : Seq(Jni!Handles)]]
    BY <1>2, <1>3, <1>9 DEF HandleTypes
  <2>3. overrun' \in BOOLEAN
    BY <1>1, <1>3 DEF HandleTypes, Jni!Recent
  <2> QED
    BY <1>1, <1>3, <2>1, <2>2, <2>3 DEF HandleTypes
<1>13. ASSUME NEW u \in GuestThreads, NEW j \in 1 .. Len(held[u])
       PROVE  held'[u][j].born = held[u][j].born /\ held'[u][j].elements = held[u][j].elements
  <2>1. CASE u = t /\ j = i
    BY <1>6, <1>10, <1>11, <2>1 DEF k
  <2>2. CASE u = t /\ j # i
    BY <1>10, <1>11, <2>2
  <2>3. CASE u # t
    BY <1>11, <2>3
  <2> QED
    BY <2>1, <2>2, <2>3
<1>14. \A u \in GuestThreads : Len(held'[u]) = Len(held[u]) /\ Len(made'[u]) = Len(made[u])
  BY <1>1, <1>10, <1>11
<1>15. BornApart'
  BY <1>1, <1>3, <1>13, <1>14, SameTimes
<1>16. InHeld(k) /\ InUse(k)
  BY <1>4 DEF InHeld, InUse, k
<1>17. ASSUME NEW l, InUse(l)' PROVE l = q \/ (InUse(l) /\ l.born # k.born)
  <2>1. Known(l)'
    BY <1>17 DEF InUse, Known
  <2>2. CASE InHeld(l)'
    <3>1. PICK u \in GuestThreads : \E j \in 1 .. Len(held'[u]) : l = held'[u][j]
      BY <2>2 DEF InHeld
    <3>2. PICK j \in 1 .. Len(held'[u]) : l = held'[u][j]
      BY <3>1
    <3>3. CASE u = t /\ j = i
      BY <1>10, <1>11, <3>2, <3>3
    <3>4. CASE ~(u = t /\ j = i)
      <4>1. j \in 1 .. Len(held[u]) /\ l = held[u][j]
        BY <1>10, <1>11, <1>14, <3>2, <3>4
      <4>2. HeldApart
        BY <1>3 DEF BornApart
      <4>3. l.born # k.born
        BY <1>4, <3>4, <4>1, <4>2, HeldOnce DEF k
      <4>4. Known(l)
        BY <4>1 DEF Known, InHeld
      <4> QED
        BY <1>3, <4>3, <4>4, UseIsKnown
    <3> QED
      BY <3>3, <3>4
  <2>3. CASE InMade(l)'
    <3>1. InMade(l)
      BY <1>1, <2>3 DEF InMade
    <3>2. l.born # k.born
      BY <1>3, <1>16, <3>1 DEF BornApart
    <3> QED
      BY <1>3, <3>1, <3>2, UseIsKnown DEF Known
  <2>4. CASE InArray(l)'
    <3>1. PICK u \in GuestThreads : \E j \in 1 .. Len(held'[u]) :
            \E m \in 1 .. Len(held'[u][j].elements) : l = held'[u][j].elements[m]
      BY <2>4 DEF InArray
    <3>2. PICK j \in 1 .. Len(held'[u]) :
            \E m \in 1 .. Len(held'[u][j].elements) : l = held'[u][j].elements[m]
      BY <3>1
    <3>3. j \in 1 .. Len(held[u]) /\ held'[u][j].elements = held[u][j].elements
      BY <1>13, <1>14
    <3>4. InArray(l)
      BY <3>2, <3>3 DEF InArray
    <3>5. l.born # k.born
      BY <1>3, <1>16, <3>4 DEF BornApart
    <3> QED
      BY <1>3, <3>4, <3>5, UseIsKnown DEF Known
  <2> QED
    BY <2>1, <2>2, <2>3, <2>4 DEF Known
<1>18. Jni!ReadsAs(k) /\ ~overrun =>
         /\ b.text = q.means
         /\ b.array <=> q.elements # <<>>
         /\ b.items = [j \in DOMAIN q.elements |-> q.elements[j].handle]
  BY <1>6, <1>8 DEF Jni!ReadsAs
<1>19. /\ \A l : InUse(l)' => Placed(l)'
       /\ ~overrun' => \A l : InUse(l)' /\ Jni!Recent(l)' => Jni!ReadsAs(l)'
  BY <1>1, <1>2, <1>6, <1>16, <1>17, <1>18, Rewriting
<1>20. InOneCall(t)'
  <2>1. PICK ms, ds : ms = made'[t] /\ ds = todo'[t]
    OBVIOUS
  <2>2. Len(ms) = 0 /\ Len(ds) = 0 /\ Len(hs) <= MaxHeld /\ Filled(t)' = 0
    BY <1>1, <1>3, <1>10, <2>1 DEF Filled, InOneCall, CallOf
  <2>3. CallOf(hs, ms, ds, 0)
    BY <2>2 DEF CallOf
  <2> QED
    BY <1>11, <2>1, <2>2, <2>3 DEF InOneCall
<1>21. \A u \in GuestThreads \ {t} : InOneCall(u)'
  BY <1>1, <1>3, <1>11, CallWaits
<1> QED
  BY <1>12, <1>15, <1>19, <1>20, <1>21 DEF HandleInv

(* What a call has to do is jobs, whoever's handle they copy.              *)
LEMMA Jobs ==
  /\ Jni!Cleared \in Job /\ Jni!Cleared.fill = "none"
  /\ Jni!Array \in Job /\ Jni!Array.fill = "array"
  /\ \A s \in Says : Jni!Text(s) \in Job /\ Jni!Text(s).fill = "text"
  /\ \A k \in Grip : Jni!Copy(k) \in Job /\ Jni!Copy(k).fill = "copy" /\ Jni!Copy(k).of[1] = k
<1>1. PICK none \in Says : none = ""
  BY DEF Says
<1>2. PICK nothing \in Seq(Grip) : nothing = <<>>
  <2>1. <<>> \in Seq(Grip)
    OBVIOUS
  <2> QED
    BY <2>1
<1>3. /\ Jni!Cleared = [fill |-> "none", text |-> none, of |-> nothing]
      /\ Jni!Array = [fill |-> "array", text |-> none, of |-> nothing]
      /\ \A s : Jni!Text(s) = [fill |-> "text", text |-> s, of |-> nothing]
      /\ \A k : Jni!Copy(k) = [fill |-> "copy", text |-> none, of |-> <<k>>]
  BY <1>1, <1>2, Zenon DEF Jni!Cleared, Jni!Array, Jni!Text, Jni!Copy
<1> HIDE <1>1
<1>4. /\ [fill |-> "none", text |-> none, of |-> nothing] \in Job
      /\ [fill |-> "array", text |-> none, of |-> nothing] \in Job
  BY DEF Job
<1>5. \A s \in Says : [fill |-> "text", text |-> s, of |-> nothing] \in Job
  BY DEF Job
<1>6. \A k \in Grip : [fill |-> "copy", text |-> none, of |-> <<k>>] \in Job /\ <<k>>[1] = k
  BY DEF Job
<1> QED
  BY <1>3, <1>4, <1>5, <1>6

(* A call with one job.                                                    *)
LEMMA OneJob ==
  ASSUME HostAssumption, HandleInv, NEW t \in GuestThreads, NEW a \in Job, Jni!Begin(t, <<a>>),
         a.fill = "none" => a = Jni!Cleared, a.fill # "array",
         a.fill = "copy" => \E j \in 1 .. Len(held[t]) : a.of[1] = held[t][j]
  PROVE  HandleInv'
<1>1. PICK jobs : jobs = <<a>>
  OBVIOUS
<1>2. jobs \in Seq(Job) /\ Len(jobs) = 1 /\ jobs[1] = a
  BY <1>1
<1>3. ASSUME NEW i \in 1 .. Len(jobs)
      PROVE  /\ jobs[i].fill = "none" => jobs[i] = Jni!Cleared
             /\ jobs[i].fill = "array" => i = 3
             /\ jobs[i].fill = "copy" => \E j \in 1 .. Len(held[t]) : jobs[i].of[1] = held[t][j]
  <2>1. i = 1
    BY <1>2
  <2> QED
    BY <1>2, <2>1
<1>4. Jni!Begin(t, jobs) /\ Len(jobs) <= 4
  BY <1>1, <1>2
<1> QED
  BY <1>2, <1>3, <1>4, BeginKeeps

(* What the guest calls begins a call, or sets a region.                   *)
LEMMA GuestCallsKeep ==
  ASSUME HostAssumption, HandleInv, NEW t \in GuestThreads, Jni!GuestCalls(t)
  PROVE  HandleInv'
<1>1. PICK none \in Says : none = ""
  BY DEF Says
<1>2. held[t] \in Seq(Grip) /\ Texts \subseteq Says /\ Numerals \subseteq Texts
  <2>1. held[t] \in Seq(Grip)
    BY ThreadTypes DEF HandleInv
  <2>2. Texts \subseteq Says
    BY Zenon DEF Says
  <2>3. Numerals \subseteq Texts
    BY Zenon DEF HostAssumption, Jni!HandlesAssumption
  <2> QED
    BY <2>1, <2>2, <2>3
<1>3. ASSUME NEW s \in Texts, Jni!NewStringUTF(t, s) PROVE HandleInv'
  <2>1. Jni!Begin(t, <<Jni!Text(s)>>)
    BY <1>3 DEF Jni!NewStringUTF
  <2>2. PICK a \in Job : a = Jni!Text(s) /\ a.fill = "text"
    BY <1>2, Jobs
  <2>3. Jni!Begin(t, <<a>>)
    BY <2>1, <2>2
  <2> QED
    BY <2>2, <2>3, OneJob
<1>4. ASSUME NEW s \in Numerals, Jni!NewObject(t, s) PROVE HandleInv'
  <2>1. Jni!Begin(t, <<Jni!Cleared, Jni!Text(s)>>)
    BY <1>4 DEF Jni!NewObject
  <2>2. PICK a \in Job : a = Jni!Text(s) /\ a.fill = "text"
    BY <1>2, Jobs
  <2>3. PICK c \in Job : c = Jni!Cleared /\ c.fill = "none"
    BY Jobs
  <2>4. Jni!Begin(t, <<c, a>>)
    BY <2>1, <2>2, <2>3
  <2>5. PICK jobs : jobs = <<c, a>>
    OBVIOUS
  <2>6. jobs \in Seq(Job) /\ Len(jobs) = 2 /\ jobs[1] = c /\ jobs[2] = a
    BY <2>5
  <2>7. ASSUME NEW i \in 1 .. Len(jobs)
        PROVE  /\ jobs[i].fill = "none" => jobs[i] = Jni!Cleared
               /\ jobs[i].fill # "array" /\ jobs[i].fill # "copy"
    <3>1. i = 1 \/ i = 2
      BY <2>6
    <3> QED
      BY <2>2, <2>3, <2>6, <3>1
  <2>8. Jni!Begin(t, jobs) /\ Len(jobs) <= 4
    BY <2>4, <2>5, <2>6
  <2> QED
    BY <2>6, <2>7, <2>8, BeginKeeps
<1>5. ASSUME Jni!Unanswered(t) PROVE HandleInv'
  <2>1. Jni!Begin(t, <<Jni!Cleared>>)
    BY <1>5 DEF Jni!Unanswered
  <2>2. PICK c \in Job : c = Jni!Cleared /\ c.fill = "none"
    BY Jobs
  <2>3. Jni!Begin(t, <<c>>)
    BY <2>1, <2>2
  <2> QED
    BY <2>2, <2>3, OneJob
<1>6. ASSUME NEW k \in Jni!Range(held[t]), Jni!CopyOf(t, k) PROVE HandleInv'
  <2>1. Jni!Begin(t, <<Jni!Copy(k)>>)
    BY <1>6 DEF Jni!CopyOf
  <2>2. PICK j \in 1 .. Len(held[t]) : k = held[t][j]
    BY <1>2 DEF Jni!Range
  <2>3. k \in Grip
    BY <1>2, <2>2
  <2>4. PICK a \in Job : a = Jni!Copy(k) /\ a.fill = "copy" /\ a.of[1] = k
    BY <2>3, Jobs
  <2>5. Jni!Begin(t, <<a>>)
    BY <2>1, <2>4
  <2> QED
    BY <2>2, <2>4, <2>5, OneJob
<1>7. ASSUME NEW k, NEW s \in Texts, Jni!Attestation(t, k, s) PROVE HandleInv'
  <2>1. Jni!Begin(t, <<Jni!Text(s), Jni!Text(""), Jni!Array, Jni!Cleared>>)
    BY <1>7 DEF Jni!Attestation, Jni!DeliverNimbleCallback
  <2>2. PICK a \in Job : a = Jni!Text(s) /\ a.fill = "text"
    BY <1>2, Jobs
  <2>3. PICK e \in Job : e = Jni!Text(none) /\ e.fill = "text"
    BY Jobs
  <2>4. PICK r \in Job : r = Jni!Array /\ r.fill = "array"
    BY Jobs
  <2>5. PICK c \in Job : c = Jni!Cleared /\ c.fill = "none"
    BY Jobs
  <2>6. Jni!Begin(t, <<a, e, r, c>>)
    BY <1>1, <2>1, <2>2, <2>3, <2>4, <2>5, Zenon
  <2>a. PICK jobs : jobs = <<a, e, r, c>>
    OBVIOUS
  <2>7. /\ jobs \in Seq(Job) /\ Len(jobs) = 4
        /\ jobs[1] = a /\ jobs[2] = e /\ jobs[3] = r /\ jobs[4] = c
    BY <2>a
  <2>8. ASSUME NEW i \in 1 .. Len(jobs)
        PROVE  /\ jobs[i].fill = "none" => jobs[i] = Jni!Cleared
               /\ jobs[i].fill = "array" => i = 3
               /\ jobs[i].fill # "copy"
    <3>1. i = 1 \/ i = 2 \/ i = 3 \/ i = 4
      BY <2>7
    <3> QED
      BY <2>2, <2>3, <2>4, <2>5, <2>7, <3>1
  <2>9. Jni!Begin(t, jobs) /\ Len(jobs) <= 4
    BY <2>6, <2>7, <2>a
  <2> QED
    BY <2>7, <2>8, <2>9, BeginKeeps
<1>8. ASSUME NEW i \in DOMAIN held[t], NEW s \in Texts, Jni!SetByteArrayRegion(t, i, s)
      PROVE  HandleInv'
  BY <1>8, SetKeeps
<1> QED
  BY <1>3, <1>4, <1>5, <1>6, <1>7, <1>8 DEF Jni!GuestCalls

(* Every step keeps the arena as it has to be.                             *)
LEMMA JniKeeps ==
  ASSUME HostAssumption, HandleInv, Jni!Next \/ UNCHANGED handleVars
  PROVE  HandleInv'
<1>1. CASE UNCHANGED handleVars
  <2>1. UNCHANGED <<g_arena_used, block, todo, made, filling, held, allocs, overrun>>
    BY <1>1 DEF handleVars
  <2>2. HandleTypes' /\ BornApart'
    BY <2>1, SameTimes DEF HandleInv, HandleTypes
  <2>3. \A t \in GuestThreads : InOneCall(t)'
    BY <2>1, CallWaits DEF HandleInv
  <2>4. \A k : (InUse(k)' <=> InUse(k)) /\ (Placed(k)' <=> Placed(k))
               /\ (Jni!Recent(k)' <=> Jni!Recent(k)) /\ (Jni!ReadsAs(k)' <=> Jni!ReadsAs(k))
    BY <2>1 DEF InUse, InHeld, InMade, InArray, Placed, Place, Jni!Recent, Jni!ReadsAs
  <2> QED
    BY <2>1, <2>2, <2>3, <2>4 DEF HandleInv
<1>2. CASE Jni!Next
  <2>1. PICK t \in GuestThreads :
          Jni!Allocate(t) \/ Jni!Fill(t) \/ Jni!Return(t) \/ Jni!GuestCalls(t)
    BY <1>2 DEF Jni!Next
  <2> QED
    BY <2>1, AllocateKeeps, FillKeeps, ReturnKeeps, GuestCallsKeep
<1> QED
  BY <1>1, <1>2

(* Before the guest calls anything nothing is held.                        *)
LEMMA HandlesBegin ==
  ASSUME HostAssumption, Jni!Init
  PROVE  HandleInv
<1>1. PICK none \in Says : none = ""
  BY DEF Says
<1>2. /\ g_arena_used = 0 /\ allocs = 0 /\ overrun = FALSE
      /\ block = [h \in Jni!Handles |-> [text |-> none, array |-> FALSE, items |-> <<>>]]
      /\ todo = [t \in GuestThreads |-> <<>>] /\ made = [t \in GuestThreads |-> <<>>]
      /\ filling = [t \in GuestThreads |-> FALSE]
      /\ held = [t \in GuestThreads |-> <<>>]
  BY <1>1, Zenon DEF Jni!Init, Jni!Blank
<1> HIDE <1>1
<1>3. MaxHeld \in Nat \ {0} /\ Blocks \in Nat \ {0} /\ MaxAllocs \in Nat
  BY DEF HostAssumption, Jni!HandlesAssumption
<1>4. HandleTypes
  <2>1. <<>> \in Seq(Job) /\ <<>> \in Seq(Grip) /\ <<>> \in Seq(Jni!Handles)
    OBVIOUS
  <2>2. block \in [Jni!Handles -> [text : Says, array : BOOLEAN, items : Seq(Jni!Handles)]]
    <3>1. PICK items \in Seq(Jni!Handles) : items = <<>>
      BY <2>1
    <3>2. [text |-> none, array |-> FALSE, items |-> items]
            \in [text : Says, array : BOOLEAN, items : Seq(Jni!Handles)]
      OBVIOUS
    <3> QED
      BY <1>2, <3>1, <3>2
  <2>3. filling \in [GuestThreads -> BOOLEAN] /\ todo \in [GuestThreads -> Seq(Job)]
    BY <1>2, <2>1
  <2>4. made \in [GuestThreads -> Seq(Grip)] /\ held \in [GuestThreads -> Seq(Grip)]
    BY <1>2, <2>1
  <2>5. g_arena_used \in 0 .. Blocks /\ allocs \in 0 .. MaxAllocs /\ overrun \in BOOLEAN
        /\ (allocs # 0 => g_arena_used # 0)
    <3>1. g_arena_used = 0 /\ allocs = 0 /\ overrun = FALSE
      BY <1>2
    <3>2. 0 \in 0 .. Blocks /\ 0 \in 0 .. MaxAllocs
      BY <1>3
    <3> QED
      BY <3>1, <3>2, Zenon
  <2> QED
    BY <2>2, <2>3, <2>4, <2>5 DEF HandleTypes
<1>5. \A t \in GuestThreads : Len(held[t]) = 0 /\ Len(made[t]) = 0 /\ Len(todo[t]) = 0 /\ ~filling[t]
  BY <1>2
<1>6. BornApart /\ \A k : ~InUse(k)
  BY <1>5 DEF BornApart, HeldApart, MadeApart, InHeld, InMade, InArray, InUse
<1>7. \A t \in GuestThreads : InOneCall(t)
  <2> TAKE t \in GuestThreads
  <2>1. PICK hs, ms, ds : hs = held[t] /\ ms = made[t] /\ ds = todo[t]
    OBVIOUS
  <2>2. Len(hs) = 0 /\ Len(ms) = 0 /\ Len(ds) = 0 /\ Filled(t) = 0
    BY <1>5, <2>1 DEF Filled
  <2>3. CallOf(hs, ms, ds, 0)
    BY <1>3, <2>2 DEF CallOf
  <2> QED
    BY <2>1, <2>2, <2>3 DEF InOneCall
<1> QED
  BY <1>4, <1>6, <1>7 DEF HandleInv

(* A handle that is recent reads as it should, an element of one as well.  *)
LEMMA HandlesAreSound ==
  ASSUME HostAssumption, HandleInv
  PROVE  HandlesSound
<1>1. HandleTypes /\ \A t \in GuestThreads : InOneCall(t)
  BY DEF HandleInv
<1>2. ASSUME NEW h \in Jni!Handles
      PROVE  /\ block[h].text \in Texts \cup {""} /\ block[h].array \in BOOLEAN
             /\ Jni!Range(block[h].items) \subseteq Jni!Handles
  <2>1. PICK b : b = block[h]
    OBVIOUS
  <2>2. b \in [text : Says, array : BOOLEAN, items : Seq(Jni!Handles)]
    BY <1>1, <2>1 DEF HandleTypes
  <2>3. b.text \in Says /\ b.array \in BOOLEAN /\ b.items \in Seq(Jni!Handles)
    BY <2>2
  <2>4. Jni!Range(b.items) \subseteq Jni!Handles
    BY <2>3 DEF Jni!Range
  <2> QED
    BY <2>1, <2>3, <2>4, Zenon DEF Says
<1>3. ASSUME NEW t \in GuestThreads
      PROVE  /\ Len(held[t]) <= MaxHeld /\ Len(todo[t]) <= 4 /\ Len(made[t]) <= 4
             /\ filling[t] => todo[t] # <<>> /\ made[t] # <<>>
  <2>1. CallOf(held[t], made[t], todo[t], Filled(t))
    BY <1>1 DEF InOneCall
  <2>2. /\ Len(todo[t]) \in Nat /\ Len(made[t]) \in Nat
        /\ todo[t] \in Seq(Job) /\ made[t] \in Seq(Grip) /\ filling[t] \in BOOLEAN
    BY <1>1, ThreadTypes
  <2>3. PICK ms \in Seq(Grip), ds \in Seq(Job) : ms = made[t] /\ ds = todo[t]
    BY <2>2
  <2>4. CallOf(held[t], ms, ds, Filled(t)) /\ Len(ms) \in Nat /\ Len(ds) \in Nat
    BY <2>1, <2>3
  <2>5. Len(held[t]) <= MaxHeld /\ Len(ms) + Len(ds) <= 4 + Filled(t)
    BY <2>4 DEF CallOf
  <2>6. Filled(t) = 1 => ds # <<>> /\ ms # <<>>
    BY <2>4 DEF CallOf
  <2>7. Filled(t) = 1 => Len(ds) # 0 /\ Len(ms) # 0
    BY <2>6
  <2>8. (filling[t] /\ Filled(t) = 1) \/ (~filling[t] /\ Filled(t) = 0)
    BY <2>2 DEF Filled
  <2>9. Len(ds) <= 4 /\ Len(ms) <= 4
    BY <2>4, <2>5, <2>7, <2>8
  <2> QED
    BY <2>3, <2>5, <2>6, <2>8, <2>9
<1>4. Jni!TypeOK
  <2>1. g_arena_used \in 0 .. Blocks /\ allocs \in 0 .. MaxAllocs /\ overrun \in BOOLEAN
        /\ filling \in [GuestThreads -> BOOLEAN]
    BY <1>1 DEF HandleTypes
  <2> QED
    BY <1>2, <1>3, <2>1, Zenon DEF Jni!TypeOK
<1>5. ASSUME ~overrun, NEW t \in GuestThreads, NEW k \in Jni!Range(held[t]), Jni!Recent(k)
      PROVE  /\ Jni!ReadsAs(k)
             /\ \A e \in Jni!Range(k.elements) : Jni!Recent(e) => Jni!ReadsAs(e)
  <2>1. held[t] \in Seq(Grip)
    BY <1>1, ThreadTypes
  <2>2. PICK i \in 1 .. Len(held[t]) : k = held[t][i]
    BY <2>1 DEF Jni!Range
  <2>6. k \in Grip
    BY <2>1, <2>2
  <2>3. k.elements \in Seq(Leaf)
    BY <2>6 DEF Grip
  <2>4. InUse(k)
    BY <1>1, <2>2, UseIsKnown DEF Known, InHeld
  <2>5. ASSUME NEW e \in Jni!Range(k.elements) PROVE InUse(e)
    <3>1. PICK j \in 1 .. Len(k.elements) : e = k.elements[j]
      BY <2>3 DEF Jni!Range
    <3>2. InArray(e)
      BY <2>2, <3>1 DEF InArray
    <3> QED
      BY <1>1, <3>2, UseIsKnown DEF Known
  <2> QED
    BY <1>5, <2>4, <2>5 DEF HandleInv
<1> QED
  BY <1>4, <1>5 DEF HandlesSound, Jni!HandlesReadAsMeant

-----------------------------------------------------------------------------
(* Whatever part of the host runs, its handles stay as they have to be.    *)
LEMMA HandleInvariance == MCSpec => []HandleInv
<1>1. MCInit => HandleInv
  BY HostAssumption, HandlesBegin DEF MCInit
<1>2. HandleInv /\ [MCNext]_<<focus, vars, linkVars, loopVars, serviceVars, toolVars>> => HandleInv'
  <2> SUFFICES ASSUME HandleInv,
                      MCNext \/ UNCHANGED <<focus, vars, linkVars, loopVars, serviceVars, toolVars>>
               PROVE  HandleInv'
    OBVIOUS
  <2>1. Jni!Next \/ UNCHANGED handleVars
    BY DEF MCNext, Boots, Serves, Lifts, Computes, serviceVars, toolVars, arithVars
  <2> QED
    BY <2>1, HostAssumption, JniKeeps
<1> QED
  BY <1>1, <1>2, PTL DEF MCSpec

(* JniHandles, alone and in the host, for every size of the arena and      *)
(* every number of threads: a handle, and an element of an array, reads as *)
(* it was made until the arena has gone round, however threads take and    *)
(* fill blocks in between.                                                 *)
THEOREM HandlesReadSoundly ==
  /\ Jni!Spec => []HandlesSound
  /\ MCSpec => []HandlesSound
<1>1. HandleInv => HandlesSound
  BY HostAssumption, HandlesAreSound
<1>2. Jni!Init => HandleInv
  BY HostAssumption, HandlesBegin
<1>3. HandleInv /\ [Jni!Next]_(Jni!vars) => HandleInv'
  BY HostAssumption, JniKeeps DEF Jni!vars, handleVars
<1>4. Jni!Spec => []HandlesSound
  BY <1>1, <1>2, <1>3, PTL DEF Jni!Spec
<1>5. MCSpec => []HandlesSound
  BY <1>1, HandleInvariance, PTL
<1> QED
  BY <1>4, <1>5
=============================================================================
