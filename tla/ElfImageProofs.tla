--------------------------- MODULE ElfImageProofs ---------------------------
(***************************************************************************)
(* What holds of every Load: whatever file it is given and whatever the    *)
(* resolver answers, a name is bound once and unresolved names do not      *)
(* share a trap slot.                                                      *)
(***************************************************************************)
EXTENDS ElfImage, SequenceTheorems, TLAPS

(* An unresolved import's slot is the one its place in the list gives it.  *)
(* Nothing is ever taken off the list, which keeps that true.              *)
ImportsWellFormed ==
    /\ imports_ \in Seq(Imports)
    /\ \A i, j \in 1 .. Len(imports_) :
          i # j => imports_[i].name # imports_[j].name
    /\ \A i \in 1 .. Len(imports_) :
          ~imports_[i].resolved => imports_[i].bound_to = <<"traps", i - 1>>

(* The strengthening: TypeOK for the rest of the state, the names' types   *)
(* among it, and the imports as above.                                     *)
IInv == TypeOK /\ ImportsWellFormed

(* A relocation of a file's table is well typed.                           *)
LEMMA RelocationType ==
    ASSUME TypeOK, NEW table \in Tables, next \in 1 .. Len(file[table])
    PROVE  file[table][next] \in Rela
<1>1. file \in Files BY DEF TypeOK
<1>2. file.rela \in Seq(Rela) /\ file.jmprel \in Seq(Rela)
  BY <1>1, FilesAssumption
<1> QED BY <1>2 DEF Tables

(* A new import keeps the list well formed, and its binding is an address. *)
LEMMA BindKeeps ==
    ASSUME ImportsWellFormed, NEW s \in Symbols, NEW v \in SymbolValue(s),
           imports_' = v.imports
    PROVE  ImportsWellFormed' /\ v.address \in Addresses
<1>0. s.name \in Names /\ s.value \in Offsets BY DEF Symbols
<1>1. CASE s.defined
  <2>1. v = [address |-> <<"image", s.value>>, imports |-> imports_]
    BY <1>1 DEF SymbolValue
  <2>2. <<"image", s.value>> \in Addresses
    BY <1>0 DEF Addresses, Regions, Offsets
  <2>3. imports_' = imports_ /\ v.address = <<"image", s.value>>
    BY <2>1
  <2> QED BY <2>2, <2>3 DEF ImportsWellFormed
<1>2. CASE ~s.defined /\ Found(s.name) # {}
  <2>1. PICK i \in Found(s.name) :
          v = [address |-> imports_[i].bound_to, imports |-> imports_]
    BY <1>2 DEF SymbolValue, Bind
  <2>2. i \in 1 .. Len(imports_) BY <2>1 DEF Found
  <2>3. imports_[i] \in Imports BY <2>2 DEF ImportsWellFormed
  <2>4. imports_[i].bound_to \in Addresses BY <2>3 DEF Imports
  <2>5. imports_' = imports_ /\ v.address = imports_[i].bound_to
    BY <2>1
  <2> QED BY <2>4, <2>5 DEF ImportsWellFormed
<1>3. CASE ~s.defined /\ Found(s.name) = {}
  <2>1. PICK found \in BOOLEAN :
          v = [address |-> NewImport(s.name, found).bound_to,
               imports |-> Append(imports_, NewImport(s.name, found))]
    BY <1>3 DEF SymbolValue, Bind
  <2> DEFINE i == NewImport(s.name, found)
  <2>2. imports_' = Append(imports_, i) /\ v.address = i.bound_to
    BY <2>1
  <2>3. Len(imports_) \in Nat /\ imports_ \in Seq(Imports)
    BY DEF ImportsWellFormed
  <2>4. /\ i.name = s.name /\ i.resolved = found
        /\ ~found => i.bound_to = <<"traps", Len(imports_)>>
    BY DEF NewImport
  <2>5. i.bound_to \in Addresses
    <3>1. <<s.name, 0>> \in Addresses BY <1>0 DEF Addresses, Regions
    <3>2. <<"traps", Len(imports_)>> \in Addresses
      BY <2>3 DEF Addresses, Regions
    <3> QED BY <3>1, <3>2 DEF NewImport
  <2>6. i \in Imports
    BY <1>0, <2>5 DEF NewImport, Imports
  <2> HIDE DEF i
  <2>7. /\ imports_' \in Seq(Imports) /\ Len(imports_') = Len(imports_) + 1
        /\ imports_'[Len(imports_) + 1] = i
        /\ \A k \in 1 .. Len(imports_) : imports_'[k] = imports_[k]
    BY <2>2, <2>3, <2>6
  <2>8. \A k \in 1 .. Len(imports_) : imports_[k].name # s.name
    BY <1>3 DEF Found
  <2>9. \A k, l \in 1 .. Len(imports_') :
           k # l => imports_'[k].name # imports_'[l].name
    <3> SUFFICES ASSUME NEW k \in 1 .. Len(imports_'), NEW l \in 1 .. Len(imports_'), k # l
                 PROVE  imports_'[k].name # imports_'[l].name
      OBVIOUS
    <3>1. CASE k = Len(imports_) + 1
      BY <3>1, <2>3, <2>4, <2>7, <2>8
    <3>2. CASE l = Len(imports_) + 1
      BY <3>2, <2>3, <2>4, <2>7, <2>8
    <3>3. CASE k # Len(imports_) + 1 /\ l # Len(imports_) + 1
      BY <3>3, <2>3, <2>7 DEF ImportsWellFormed
    <3> QED BY <3>1, <3>2, <3>3
  <2>10. \A k \in 1 .. Len(imports_') :
            ~imports_'[k].resolved => imports_'[k].bound_to = <<"traps", k - 1>>
    <3> SUFFICES ASSUME NEW k \in 1 .. Len(imports_'), ~imports_'[k].resolved
                 PROVE  imports_'[k].bound_to = <<"traps", k - 1>>
      OBVIOUS
    <3>1. CASE k = Len(imports_) + 1
      BY <3>1, <2>3, <2>4, <2>7
    <3>2. CASE k # Len(imports_) + 1
      BY <3>2, <2>3, <2>7 DEF ImportsWellFormed
    <3> QED BY <3>1, <3>2
  <2> QED BY <2>2, <2>5, <2>7, <2>9, <2>10 DEF ImportsWellFormed
<1> QED BY <1>1, <1>2, <1>3

(* A relocation keeps the invariant.                                       *)
LEMMA RelocateKeeps ==
    ASSUME IInv, NEW table \in Tables, Relocate(table)
    PROVE  IInv'
<1> DEFINE r == file[table][next]
<1>0. next \in 1 .. Len(file[table])
  <2>1. file.rela \in Seq(Rela) /\ file.jmprel \in Seq(Rela)
    BY FilesAssumption DEF IInv, TypeOK
  <2>2. Len(file[table]) \in Nat BY <2>1 DEF Tables
  <2> QED BY <2>2 DEF IInv, TypeOK, Relocate
<1>1. r \in Rela BY <1>0, RelocationType DEF IInv
<1>2. /\ r.offset \in Offsets /\ r.addend \in Int /\ r.sym \in Symbols
  BY <1>1 DEF Rela
<1> HIDE DEF r
<1>3. /\ file' = file /\ base' = base /\ traps' = traps
      /\ init_array_' = init_array_
  BY DEF Relocate
<1>4. CASE r.type = "RELATIVE"
  <2>1. /\ mem' = [mem EXCEPT ![r.offset] = <<"image", r.addend>>]
        /\ next' = next + 1 /\ UNCHANGED <<stage, imports_>>
    BY <1>4 DEF Relocate, r
  <2>2. <<"image", r.addend>> \in Addresses
    BY <1>2 DEF Addresses, Regions
  <2>3. TypeOK' BY <1>2, <1>3, <2>1, <2>2 DEF IInv, TypeOK
  <2> QED BY <2>1, <2>3 DEF IInv, ImportsWellFormed
<1>5. CASE r.type = "SYMBOL"
  <2>1. PICK v \in SymbolValue(r.sym) :
          /\ imports_' = v.imports
          /\ mem' = [mem EXCEPT ![r.offset] = Plus(v.address, r.addend)]
          /\ next' = next + 1 /\ UNCHANGED stage
    BY <1>5 DEF Relocate, r
  <2>2. ImportsWellFormed' /\ v.address \in Addresses
    BY <1>2, <2>1, BindKeeps DEF IInv
  <2>3. Plus(v.address, r.addend) \in Addresses
    BY <1>2, <2>2 DEF Plus, Addresses
  <2>4. TypeOK' BY <1>2, <1>3, <2>1, <2>2, <2>3 DEF IInv, TypeOK, ImportsWellFormed
  <2> QED BY <2>2, <2>4 DEF IInv
<1>6. CASE r.type = "other"
  <2>1. stage' = "failed" /\ UNCHANGED <<mem, imports_, next>>
    BY <1>6 DEF Relocate, r
  <2>2. TypeOK' BY <1>3, <2>1 DEF IInv, TypeOK, Stages
  <2> QED BY <2>1, <2>2 DEF IInv, ImportsWellFormed
<1> QED BY <1>1, <1>4, <1>5, <1>6 DEF Rela

(* Every other step leaves the imports alone.                              *)
LEMMA OthersKeep ==
    ASSUME IInv,
           \/ ReadHeaders \/ MapImage \/ MapTraps \/ CopySegments \/ ReadDynamic
           \/ \E table \in Tables : TableDone(table)
           \/ CollectInit \/ Destroy \/ UNCHANGED vars
    PROVE  IInv'
<1> USE DEF IInv, TypeOK, Stages, Loading, Check
<1>0. file \in Files /\ UNCHANGED <<file, imports_>>
  BY DEF ReadHeaders, MapImage, MapTraps, CopySegments, ReadDynamic, TableDone,
         CollectInit, Destroy, vars
<1>1. ImportsWellFormed' BY <1>0 DEF ImportsWellFormed
<1>2. ASSUME ReadHeaders PROVE IInv' BY <1>1, <1>2 DEF ReadHeaders
<1>3. ASSUME MapImage PROVE IInv' BY <1>1, <1>3 DEF MapImage
<1>4. ASSUME MapTraps PROVE IInv' BY <1>1, <1>4 DEF MapTraps
<1>5. ASSUME CopySegments PROVE IInv'
  <2>1. file.words \in [Offsets -> Int] BY <1>0, FilesAssumption
  <2>2. \A o \in Offsets : <<"raw", file.words[o]>> \in Addresses
    BY <2>1 DEF Addresses, Regions
  <2>3. mem' \in [Offsets -> Addresses] BY <1>5, <2>2 DEF CopySegments
  <2> QED BY <1>1, <1>5, <2>3 DEF CopySegments
<1>6. ASSUME ReadDynamic PROVE IInv' BY <1>1, <1>6 DEF ReadDynamic, Tables
<1>7. ASSUME NEW table \in Tables, TableDone(table) PROVE IInv'
  BY <1>1, <1>7 DEF TableDone, Tables
<1>8. ASSUME CollectInit PROVE IInv'
  <2>1. file.init_arr \in Seq(Offsets) BY <1>0, FilesAssumption
  <2>2. \A i \in 1 .. Len(file.init_arr) : mem[file.init_arr[i]] \in Addresses
    BY <2>1
  <2>3. Len(file.init_arr) \in Nat BY <2>1
  <2>4. Constructors \in [1 .. Len(file.init_arr) -> Addresses]
    BY <2>2 DEF Constructors
  <2>5. Constructors \in Seq(Addresses) BY <2>3, <2>4
  <2> QED BY <1>1, <1>8, <2>5 DEF CollectInit
<1>9. ASSUME Destroy PROVE IInv' BY <1>1, <1>9 DEF Destroy
<1>10. ASSUME UNCHANGED vars PROVE IInv' BY <1>1, <1>10 DEF vars
<1> QED BY <1>2, <1>3, <1>4, <1>5, <1>6, <1>7, <1>8, <1>9, <1>10

(* The inductive invariant of a Load.                                      *)
THEOREM Invariance == Spec => []IInv
<1>1. Init => IInv
  <2> SUFFICES ASSUME Init PROVE IInv OBVIOUS
  <2>1. mem \in [Offsets -> Addresses]
    BY DEF Init, Addresses, Regions
  <2>2. imports_ = <<>> /\ init_array_ = <<>> BY DEF Init
  <2>3. file \in Files /\ stage \in Stages /\ next \in Nat \ {0}
    BY DEF Init, Stages, Loading
  <2>4. base \in BOOLEAN /\ traps \in BOOLEAN
    BY Zenon DEF Init
  <2>5. imports_ \in Seq(Imports) /\ init_array_ \in Seq(Addresses)
    BY <2>2
  <2>6. TypeOK BY <2>1, <2>3, <2>4, <2>5 DEF TypeOK
  <2>7. imports_ \in Seq(Imports)
    BY <2>2
  <2>8. \A i \in 1 .. Len(imports_) : FALSE
    BY <2>2
  <2>9. ImportsWellFormed
    BY <2>7, <2>8 DEF ImportsWellFormed
  <2> QED BY <2>6, <2>9 DEF IInv
<1>2. IInv /\ [Next]_vars => IInv'
  BY RelocateKeeps, OthersKeep DEF Next
<1> QED BY <1>1, <1>2, PTL DEF Spec

(* A name is bound once, and unresolved names have trap slots of their own *)
(* -- in whatever order the relocations ask for them.                      *)
THEOREM BindsOnce == Spec => []OneBindingPerName
<1>1. IInv => OneBindingPerName
  <2> SUFFICES ASSUME IInv, NEW i \in 1 .. Len(imports_), NEW j \in 1 .. Len(imports_),
                      i # j
               PROVE  /\ imports_[i].name # imports_[j].name
                      /\ ~imports_[i].resolved /\ ~imports_[j].resolved =>
                            imports_[i].bound_to # imports_[j].bound_to
    BY DEF OneBindingPerName
  <2>1. imports_[i].name # imports_[j].name
    BY DEF IInv, ImportsWellFormed
  <2>2. ASSUME ~imports_[i].resolved, ~imports_[j].resolved
        PROVE  imports_[i].bound_to # imports_[j].bound_to
    <3>1. imports_[i].bound_to = <<"traps", i - 1>> /\ imports_[j].bound_to = <<"traps", j - 1>>
      BY <2>2 DEF IInv, ImportsWellFormed
    <3> QED BY <3>1
  <2> QED BY <2>1, <2>2
<1> QED BY <1>1, Invariance, PTL

-----------------------------------------------------------------------------
(* The relocations behind apply, counted over both tables.                 *)
Done ==
    CASE stage = "rela"               -> next - 1
      [] stage = "jmprel"             -> Len(file.rela) + next - 1
      [] stage \in {"init", "loaded"} -> Len(Relocations)
      [] OTHER                        -> 0

InTable ==
    /\ stage \in Loading \ Tables => next = 1
    /\ stage \in Tables => next <= Len(file[stage]) + 1

(* Of the relocations done so far, the last of each word holds there.      *)
Applied ==
    \A k \in 1 .. Done :
        (\A l \in k + 1 .. Done : Relocations[l].offset # Relocations[k].offset) =>
            Meaning(Relocations[k], mem[Relocations[k].offset])

Collected == stage = "loaded" => init_array_ = Constructors

RelocatedInv == InTable /\ Applied /\ Collected

(* The two tables, one after the other.                                    *)
LEMMA BothTables ==
    ASSUME TypeOK
    PROVE  /\ Len(file.rela) \in Nat /\ Len(file.jmprel) \in Nat
           /\ Relocations \in Seq(Rela)
           /\ Len(Relocations) = Len(file.rela) + Len(file.jmprel)
           /\ \A i \in 1 .. Len(file.rela) : Relocations[i] = file.rela[i]
           /\ \A i \in 1 .. Len(file.jmprel) :
                 Relocations[Len(file.rela) + i] = file.jmprel[i]
<1>1. file.rela \in Seq(Rela) /\ file.jmprel \in Seq(Rela)
  BY FilesAssumption DEF TypeOK
<1> DEFINE a == file.rela
           b == file.jmprel
<1>2. Len(a) \in Nat /\ Len(b) \in Nat
  BY <1>1
<1> HIDE DEF a, b
<1>3. PICK c : c = a \o b
  OBVIOUS
<1>4. /\ c \in Seq(Rela) /\ Len(c) = Len(a) + Len(b)
      /\ \A i \in 1 .. Len(a) + Len(b) : c[i] = IF i <= Len(a) THEN a[i] ELSE b[i - Len(a)]
  BY <1>1, <1>3, ConcatProperties DEF a, b
<1>5. \A i \in 1 .. Len(a) : c[i] = a[i]
  BY <1>2, <1>4
<1>6. \A i \in 1 .. Len(b) : c[Len(a) + i] = b[i]
  <2> SUFFICES ASSUME NEW i \in 1 .. Len(b) PROVE c[Len(a) + i] = b[i]
    OBVIOUS
  <2>1. /\ Len(a) + i \in 1 .. Len(a) + Len(b) /\ ~(Len(a) + i <= Len(a))
        /\ (Len(a) + i) - Len(a) = i
    BY <1>2
  <2> QED BY <1>4, <2>1
<1> QED BY <1>2, <1>3, <1>4, <1>5, <1>6 DEF Relocations, a, b

(* The binding of a symbol says what a relocation against it means, and    *)
(* the imports recorded before stay where they are.                        *)
LEMMA BindMeans ==
    ASSUME ImportsWellFormed, NEW s \in Symbols, NEW v \in SymbolValue(s),
           imports_' = v.imports
    PROVE  /\ s.defined => v.address = <<"image", s.value>>
           /\ ~s.defined => \E i \in Found(s.name)' : v.address = imports_'[i].bound_to
           /\ \A i \in 1 .. Len(imports_) :
                 i \in 1 .. Len(imports_') /\ imports_'[i] = imports_[i]
<1>0. imports_ \in Seq(Imports) /\ Len(imports_) \in Nat
  BY DEF ImportsWellFormed
<1>1. CASE s.defined
  BY <1>1 DEF SymbolValue
<1>2. CASE ~s.defined /\ Found(s.name) # {}
  <2>1. PICK i \in Found(s.name) :
          v = [address |-> imports_[i].bound_to, imports |-> imports_]
    BY <1>2 DEF SymbolValue, Bind
  <2>2. imports_' = imports_ /\ v.address = imports_[i].bound_to
    BY <2>1
  <2> QED BY <1>2, <2>1, <2>2 DEF Found
<1>3. CASE ~s.defined /\ Found(s.name) = {}
  <2>1. PICK found \in BOOLEAN :
          v = [address |-> NewImport(s.name, found).bound_to,
               imports |-> Append(imports_, NewImport(s.name, found))]
    BY <1>3 DEF SymbolValue, Bind
  <2> DEFINE i == NewImport(s.name, found)
  <2>2. imports_' = Append(imports_, i) /\ v.address = i.bound_to /\ i.name = s.name
    BY <2>1 DEF NewImport
  <2> HIDE DEF i
  <2>3. /\ Len(imports_') = Len(imports_) + 1 /\ imports_'[Len(imports_) + 1] = i
        /\ \A k \in 1 .. Len(imports_) : imports_'[k] = imports_[k]
    BY <1>0, <2>2
  <2>4. Len(imports_) + 1 \in Found(s.name)'
    BY <1>0, <2>2, <2>3 DEF Found
  <2> QED BY <1>0, <1>3, <2>2, <2>3, <2>4
<1> QED BY <1>1, <1>2, <1>3

(* What a relocation means does not change as imports are added.           *)
LEMMA MeaningStays ==
    ASSUME NEW r \in Rela, NEW address, Meaning(r, address),
           \A i \in 1 .. Len(imports_) :
              i \in 1 .. Len(imports_') /\ imports_'[i] = imports_[i]
    PROVE  Meaning(r, address)'
<1>1. CASE r.type = "SYMBOL" /\ ~r.sym.defined
  <2>1. PICK i \in Found(r.sym.name) : address = Plus(imports_[i].bound_to, r.addend)
    BY <1>1 DEF Meaning
  <2>2. i \in Found(r.sym.name)' /\ imports_'[i] = imports_[i]
    BY <2>1 DEF Found
  <2> QED BY <1>1, <2>1, <2>2 DEF Meaning, Plus
<1>2. CASE r.type = "RELATIVE" \/ (r.type = "SYMBOL" /\ r.sym.defined)
  BY <1>2 DEF Meaning
<1> QED BY <1>1, <1>2 DEF Meaning

(* The next relocation: its word holds what it says, and what the others   *)
(* said of theirs still stands.                                            *)
LEMMA RelocateApplies ==
    ASSUME IInv, RelocatedInv, NEW table \in Tables, Relocate(table)
    PROVE  RelocatedInv'
<1>0. TypeOK /\ ImportsWellFormed /\ InTable /\ Applied
  BY DEF IInv, RelocatedInv
<1>1. /\ stage = table /\ next <= Len(file[table]) /\ next \in Nat \ {0}
      /\ file' = file /\ init_array_' = init_array_
  BY <1>0 DEF Relocate, TypeOK
<1>2. Relocations' = Relocations /\ Relocations \in Seq(Rela)
  BY <1>0, <1>1, BothTables DEF Relocations
<1>3. /\ Done \in Nat /\ Done + 1 \in 1 .. Len(Relocations)
      /\ Relocations[Done + 1] = file[table][next]
  <2>1. PICK a, b \in Nat : /\ a = Len(file.rela) /\ b = Len(file.jmprel)
                            /\ Len(Relocations) = a + b
    BY <1>0, BothTables
  <2>2. CASE table = "rela"
    <3>1. next \in 1 .. a /\ Done + 1 = next /\ Done \in Nat
      BY <1>1, <2>1, <2>2 DEF Done
    <3>2. Relocations[next] = file.rela[next]
      BY <1>0, <2>1, <3>1, BothTables
    <3>3. next \in 1 .. a + b
      BY <3>1
    <3> QED BY <2>1, <2>2, <3>1, <3>2, <3>3
  <2>3. CASE table = "jmprel"
    <3>1. next \in 1 .. b /\ Done + 1 = a + next /\ Done \in Nat
      BY <1>1, <2>1, <2>3 DEF Done
    <3>2. Relocations[a + next] = file.jmprel[next]
      BY <1>0, <2>1, <3>1, BothTables
    <3>3. a + next \in 1 .. a + b
      BY <3>1
    <3> QED BY <2>1, <2>3, <3>1, <3>2, <3>3
  <2> QED BY <2>2, <2>3 DEF Tables
<1>4. PICK n, r : /\ n = Done /\ n \in Nat /\ n + 1 \in 1 .. Len(Relocations)
                  /\ r = file[table][next] /\ Relocations[n + 1] = r
  BY <1>3
<1>5. r \in Rela /\ r.offset \in Offsets /\ r.sym \in Symbols
  <2>1. r \in Rela
    BY <1>2, <1>4
  <2> QED BY <2>1 DEF Rela
<1>6. CASE r.type = "other"
  <2>1. stage' = "failed"
    BY <1>4, <1>6 DEF Relocate
  <2>2. Done' = 0
    BY <2>1 DEF Done
  <2> QED BY <2>1, <2>2 DEF RelocatedInv, InTable, Applied, Collected, Loading, Tables
<1>7. ASSUME NEW address, mem' = [mem EXCEPT ![r.offset] = address],
             next' = next + 1, stage' = stage, Meaning(r, address)',
             \A i \in 1 .. Len(imports_) :
                i \in 1 .. Len(imports_') /\ imports_'[i] = imports_[i]
      PROVE  RelocatedInv'
  <2>1. Done' = n + 1
    <3>1. Len(file.rela) \in Nat
      BY <1>0, BothTables
    <3> QED BY <1>1, <1>4, <1>7, <3>1 DEF Done, Tables
  <2>2. InTable' /\ Collected'
    <3>1. Len(file[table]) \in Nat
      BY <1>0, BothTables DEF Tables
    <3> QED BY <1>1, <1>7, <3>1 DEF InTable, Collected, Loading, Tables
  <2>3. ASSUME NEW k \in 1 .. n + 1,
               \A l \in k + 1 .. n + 1 : Relocations[l].offset # Relocations[k].offset
        PROVE  Meaning(Relocations[k], mem[Relocations[k].offset])'
    <3>1. PICK q \in Rela : q = Relocations[k]
      BY <1>2, <1>4
    <3>2. q.offset \in Offsets
      BY <3>1 DEF Rela
    <3> SUFFICES ASSUME NEW w, w = mem'[q.offset] PROVE Meaning(q, w)'
      BY <1>2, <3>1
    <3>3. CASE k = n + 1
      <4>1. q = r /\ w = address
        BY <1>0, <1>4, <1>5, <1>7, <3>1, <3>3 DEF TypeOK
      <4> QED BY <1>7, <4>1
    <3>4. CASE k # n + 1
      <4>1. k \in 1 .. n /\ q.offset # r.offset
        BY <1>4, <2>3, <3>1, <3>4
      <4>2. \A l \in k + 1 .. n : Relocations[l].offset # Relocations[k].offset
        BY <1>4, <2>3
      <4>3. w = mem[q.offset]
        BY <1>0, <1>7, <3>2, <4>1 DEF TypeOK
      <4>4. Meaning(q, w)
        BY <1>0, <1>4, <3>1, <4>1, <4>2, <4>3 DEF Applied
      <4> QED BY <1>7, <4>4, MeaningStays
    <3> QED BY <3>3, <3>4
  <2>4. Applied'
    BY <1>2, <2>1, <2>3 DEF Applied
  <2> QED BY <2>2, <2>4 DEF RelocatedInv
<1>8. CASE r.type = "RELATIVE"
  <2>1. /\ mem' = [mem EXCEPT ![r.offset] = <<"image", r.addend>>]
        /\ next' = next + 1 /\ stage' = stage /\ imports_' = imports_
    BY <1>4, <1>8 DEF Relocate
  <2>2. Meaning(r, <<"image", r.addend>>)'
    BY <1>8 DEF Meaning
  <2>3. \A i \in 1 .. Len(imports_) :
           i \in 1 .. Len(imports_') /\ imports_'[i] = imports_[i]
    BY <2>1
  <2> QED BY <1>7, <2>1, <2>2, <2>3
<1>9. CASE r.type = "SYMBOL"
  <2>1. PICK v \in SymbolValue(r.sym) :
          /\ imports_' = v.imports
          /\ mem' = [mem EXCEPT ![r.offset] = Plus(v.address, r.addend)]
          /\ next' = next + 1 /\ stage' = stage
    BY <1>4, <1>9 DEF Relocate
  <2>2. /\ r.sym.defined => v.address = <<"image", r.sym.value>>
        /\ ~r.sym.defined => \E i \in Found(r.sym.name)' : v.address = imports_'[i].bound_to
        /\ \A i \in 1 .. Len(imports_) :
              i \in 1 .. Len(imports_') /\ imports_'[i] = imports_[i]
    BY <1>0, <1>5, <2>1, BindMeans
  <2>3. Meaning(r, Plus(v.address, r.addend))'
    BY <1>9, <2>2 DEF Meaning, Plus
  <2> QED BY <1>7, <2>1, <2>2, <2>3
<1> QED BY <1>5, <1>6, <1>8, <1>9 DEF Rela

(* The stages around the two tables.                                       *)
LEMMA OthersApplied ==
    ASSUME IInv, RelocatedInv,
           \/ ReadHeaders \/ MapImage \/ MapTraps \/ CopySegments \/ ReadDynamic
           \/ \E table \in Tables : TableDone(table)
           \/ CollectInit \/ Destroy \/ UNCHANGED vars
    PROVE  RelocatedInv'
<1>0. TypeOK /\ InTable /\ Applied /\ Collected
  BY DEF IInv, RelocatedInv
<1>1. /\ Len(file.rela) \in Nat /\ Len(file.jmprel) \in Nat
      /\ Len(Relocations) = Len(file.rela) + Len(file.jmprel)
  BY <1>0, BothTables
<1>2. CASE ReadHeaders \/ MapImage \/ MapTraps \/ CopySegments \/ ReadDynamic \/ Destroy
  <2>1. /\ next' = next /\ file' = file
        /\ stage' \in {"map", "guard", "copy", "dynamic", "rela", "failed", "destroyed"}
        /\ stage' = "rela" => next = 1
    BY <1>0, <1>2 DEF ReadHeaders, MapImage, MapTraps, CopySegments, ReadDynamic, Destroy,
                      Check, InTable, Loading, Tables
  <2>2. Done' = 0
    BY <2>1 DEF Done
  <2>3. InTable'
    <3>1. stage' \in Tables => stage' = "rela" /\ next' = 1
      BY <2>1 DEF Tables
    <3>2. stage' \in Loading \ Tables => next' = 1
      BY <1>0, <1>2 DEF ReadHeaders, MapImage, MapTraps, CopySegments, ReadDynamic,
                        Destroy, Check, InTable, Loading, Tables
    <3> QED BY <1>1, <2>1, <3>1, <3>2 DEF InTable
  <2> QED BY <2>1, <2>2, <2>3 DEF RelocatedInv, Applied, Collected
<1>3. ASSUME NEW table \in Tables, TableDone(table) PROVE RelocatedInv'
  <2>1. /\ stage = table /\ next' = 1 /\ stage' = IF table = "rela" THEN "jmprel" ELSE "init"
        /\ file' = file /\ imports_' = imports_ /\ mem' = mem /\ Relocations' = Relocations
    BY <1>3 DEF TableDone, Relocations
  <2>2. Done' = Done
    <3>1. next = Len(file[table]) + 1
      BY <1>0, <1>1, <1>3 DEF TableDone, InTable, TypeOK, Tables
    <3>2. CASE table = "rela"
      <4>1. Done = Len(file.rela)
        BY <1>1, <2>1, <3>1, <3>2 DEF Done
      <4>2. Done' = Len(file.rela)
        BY <1>1, <2>1, <3>2 DEF Done
      <4> QED BY <4>1, <4>2
    <3>3. CASE table = "jmprel"
      <4>1. Done = Len(file.rela) + Len(file.jmprel)
        BY <1>1, <2>1, <3>1, <3>3 DEF Done
      <4>2. Done' = Len(Relocations)
        BY <2>1, <3>3 DEF Done
      <4> QED BY <1>1, <4>1, <4>2
    <3> QED BY <3>2, <3>3 DEF Tables
  <2>3. Applied'
    BY <1>0, <2>1, <2>2 DEF Applied, Meaning, Found
  <2>4. InTable' /\ Collected'
    BY <1>1, <2>1 DEF InTable, Collected, Tables, Loading
  <2> QED BY <2>3, <2>4 DEF RelocatedInv
<1>4. CASE CollectInit
  <2>1. /\ stage = "init" /\ stage' = "loaded" /\ init_array_' = Constructors /\ next' = next
        /\ file' = file /\ imports_' = imports_ /\ mem' = mem /\ Relocations' = Relocations
    BY <1>4 DEF CollectInit, Relocations
  <2>2. Done' = Done
    BY <2>1 DEF Done
  <2>3. Applied'
    BY <1>0, <2>1, <2>2 DEF Applied, Meaning, Found
  <2>4. InTable' /\ Collected'
    BY <2>1 DEF InTable, Collected, Constructors, Loading, Tables
  <2> QED BY <2>3, <2>4 DEF RelocatedInv
<1>5. CASE UNCHANGED vars
  <2>1. /\ stage' = stage /\ next' = next /\ file' = file /\ imports_' = imports_
        /\ mem' = mem /\ init_array_' = init_array_ /\ Relocations' = Relocations
    BY <1>5 DEF vars, Relocations
  <2>2. Done' = Done
    BY <2>1 DEF Done
  <2>3. Applied'
    BY <1>0, <2>1, <2>2 DEF Applied, Meaning, Found
  <2>4. InTable' /\ Collected'
    BY <1>0, <2>1 DEF InTable, Collected, Constructors
  <2> QED BY <2>3, <2>4 DEF RelocatedInv
<1> QED BY <1>2, <1>3, <1>4, <1>5

(* A loaded image holds at every word what the last relocation of it says, *)
(* and its constructors are read from such words: whatever the tables, and *)
(* however often and in whatever order they write a word.                  *)
THEOREM LoadsRelocated == Spec => []Relocated
<1>1. Init => RelocatedInv
  BY DEF Init, RelocatedInv, InTable, Applied, Collected, Done, Tables
<1>2. IInv /\ RelocatedInv /\ [Next]_vars => RelocatedInv'
  BY RelocateApplies, OthersApplied DEF Next
<1>3. ASSUME IInv, RelocatedInv, stage = "loaded" PROVE Relocated
  <2>1. Done = Len(Relocations)
    BY <1>3 DEF Done
  <2>2. ASSUME NEW o \in Offsets, NEW k \in LastAt(o)
        PROVE  Meaning(Relocations[k], mem[o])
    <3>1. /\ k \in 1 .. Done /\ Relocations[k].offset = o
          /\ \A l \in k + 1 .. Done : Relocations[l].offset # o
      BY <2>1 DEF LastAt
    <3> QED BY <1>3, <3>1 DEF RelocatedInv, Applied
  <2>3. /\ file.init_arr \in Seq(Offsets)
        /\ \A i \in 1 .. Len(file.init_arr) : init_array_[i] = mem[file.init_arr[i]]
    BY <1>3, FilesAssumption DEF IInv, TypeOK, RelocatedInv, Collected, Constructors
  <2>4. ASSUME NEW i \in 1 .. Len(file.init_arr), NEW k \in LastAt(file.init_arr[i])
        PROVE  Meaning(Relocations[k], init_array_[i])
    <3>1. file.init_arr[i] \in Offsets
      BY <2>3
    <3> QED BY <2>2, <2>3, <3>1
  <2> QED BY <2>2, <2>4 DEF Relocated
<1>4. IInv /\ RelocatedInv => Relocated
  BY <1>3 DEF Relocated
<1> QED BY <1>1, <1>2, <1>4, Invariance, PTL DEF Spec
=============================================================================
