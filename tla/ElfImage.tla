------------------------------ MODULE ElfImage ------------------------------
(***************************************************************************)
(* One ElfImage from Load to its destruction: the image and the trap page  *)
(* are mapped, the segments copied, the relocations applied one after the  *)
(* other, every import bound by name when it is first met, and the static  *)
(* constructors collected.  Any step may fail, and leaves behind what the  *)
(* ones before it did.                                                     *)
(*                                                                         *)
(* Memory is counted in words of eight bytes from the image's base.  An    *)
(* address is a pair: what it lies in, and how many words in: the image,   *)
(* the trap page, or the host's function for a name; "raw" marks a word    *)
(* of the file that nothing has relocated.  The file is a record of what   *)
(* Load reads of it.                                                       *)
(***************************************************************************)
EXTENDS Integers, Sequences

CONSTANTS Names,        \* of symbols
          Files,        \* the files there may be
          Span,         \* words of an image
          PageSlots     \* words of the trap page, kPageSize / 8

Offsets   == 0 .. Span - 1
Regions   == {"raw", "image", "traps"} \cup Names
Addresses == Regions \X Int
Symbols   == [name : Names, defined : BOOLEAN, value : Offsets]
Rela      == [type : {"RELATIVE", "SYMBOL", "other"}, offset : Offsets,
              sym : Symbols, addend : Int]

ASSUME FilesAssumption ==
    /\ Span \in Nat \ {0} /\ PageSlots \in Nat
    /\ Names \cap {"raw", "image", "traps"} = {}
    /\ \A f \in Files :
          /\ f.headers \in BOOLEAN      \* an ELF64 LE aarch64, with segments and a PT_DYNAMIC
          /\ f.whole \in BOOLEAN        \* no segment past the end of the file
          /\ f.tables \in BOOLEAN       \* DT_STRTAB and DT_SYMTAB
          /\ f.words \in [Offsets -> Int]
          /\ f.rela \in Seq(Rela) /\ f.jmprel \in Seq(Rela)
          /\ f.init_arr \in Seq(Offsets)

VARIABLES file,
          stage,         \* what Load does next, or what became of the image
          base, traps,   \* mapped
          mem,           \* the words at base_
          imports_,
          next,          \* the relocation apply is at
          init_array_

vars == <<file, stage, base, traps, mem, imports_, next, init_array_>>

Tables   == {"rela", "jmprel"}
Loading  == {"open", "map", "guard", "copy", "dynamic", "init"} \cup Tables
Stages   == Loading \cup {"loaded", "failed", "destroyed"}
Imports  == [name : Names, resolved : BOOLEAN, bound_to : Addresses]

TypeOK ==
    /\ file \in Files /\ stage \in Stages
    /\ base \in BOOLEAN /\ traps \in BOOLEAN
    /\ mem \in [Offsets -> Addresses]
    /\ imports_ \in Seq(Imports)
    /\ next \in Nat \ {0}
    /\ init_array_ \in Seq(Addresses)

Init ==
    /\ file \in Files
    /\ stage = "open" /\ base = FALSE /\ traps = FALSE
    /\ mem = [o \in Offsets |-> <<"raw", 0>>]
    /\ imports_ = <<>> /\ next = 1 /\ init_array_ = <<>>

(* A check of the file or a mapping: on to the next stage, or Load is over. *)
Check(at, then, ok) == stage = at /\ stage' = IF ok THEN then ELSE "failed"

ReadHeaders ==
    /\ Check("open", "map", file.headers)
    /\ UNCHANGED <<file, base, traps, mem, imports_, next, init_array_>>

MapImage == \E ok \in BOOLEAN :
    /\ Check("map", "guard", ok)
    /\ base' = ok
    /\ UNCHANGED <<file, traps, mem, imports_, next, init_array_>>

MapTraps == \E ok \in BOOLEAN :
    /\ Check("guard", "copy", ok)
    /\ traps' = ok
    /\ UNCHANGED <<file, base, mem, imports_, next, init_array_>>

CopySegments ==
    /\ Check("copy", "dynamic", file.whole)
    /\ mem' = IF file.whole THEN [o \in Offsets |-> <<"raw", file.words[o]>>] ELSE mem
    /\ UNCHANGED <<file, base, traps, imports_, next, init_array_>>

ReadDynamic ==
    /\ Check("dynamic", "rela", file.tables)
    /\ UNCHANGED <<file, base, traps, mem, imports_, next, init_array_>>

Plus(address, n) == <<address[1], address[2] + n>>
Found(name)      == {i \in 1 .. Len(imports_) : imports_[i].name = name}
NewImport(name, found) ==
    [name |-> name, resolved |-> found,
     bound_to |-> IF found THEN <<name, 0>> ELSE <<"traps", Len(imports_)>>]

\* Every use of a name is an import of its own.
Bind_EveryUse(name) ==
    {[address |-> i.bound_to, imports |-> Append(imports_, i)] :
        i \in {NewImport(name, found) : found \in BOOLEAN}}

(* The binding of an imported name: the one it has, or the resolver is     *)
(* asked -- anything may come back -- and an import recorded.              *)
Bind(name) ==
    IF Found(name) # {}
    THEN {[address |-> imports_[i].bound_to, imports |-> imports_] : i \in Found(name)}
    ELSE {[address |-> i.bound_to, imports |-> Append(imports_, i)] :
             i \in {NewImport(name, found) : found \in BOOLEAN}}

SymbolValue(s) ==
    IF s.defined THEN {[address |-> <<"image", s.value>>, imports |-> imports_]}
    ELSE Bind(s.name)

(* One relocation of the table apply is working through.                   *)
Relocate(table) ==
    /\ stage = table /\ next <= Len(file[table])
    /\ LET r == file[table][next]
       IN  \/ /\ r.type = "RELATIVE"
              /\ mem' = [mem EXCEPT ![r.offset] = <<"image", r.addend>>]
              /\ next' = next + 1
              /\ UNCHANGED <<stage, imports_>>
           \/ /\ r.type = "SYMBOL"
              /\ \E v \in SymbolValue(r.sym) :
                    /\ imports_' = v.imports
                    /\ mem' = [mem EXCEPT ![r.offset] = Plus(v.address, r.addend)]
              /\ next' = next + 1
              /\ UNCHANGED stage
           \/ /\ r.type = "other"
              /\ stage' = "failed"
              /\ UNCHANGED <<mem, imports_, next>>
    /\ UNCHANGED <<file, base, traps, init_array_>>

TableDone(table) ==
    /\ stage = table /\ next > Len(file[table])
    /\ stage' = IF table = "rela" THEN "jmprel" ELSE "init"
    /\ next' = 1
    /\ UNCHANGED <<file, base, traps, mem, imports_, init_array_>>

\* Takes the constructors as the file has them.
Constructors_FromFile == [i \in 1 .. Len(file.init_arr) |->
                            <<"raw", file.words[file.init_arr[i]]>>]

Constructors == [i \in 1 .. Len(file.init_arr) |-> mem[file.init_arr[i]]]

CollectInit ==
    /\ stage = "init" /\ stage' = "loaded"
    /\ init_array_' = Constructors
    /\ UNCHANGED <<file, base, traps, mem, imports_, next>>

(* ~ElfImage, whatever Load came to.                                       *)
Destroy ==
    /\ stage \in {"loaded", "failed"}
    /\ stage' = "destroyed" /\ base' = FALSE /\ traps' = FALSE
    /\ UNCHANGED <<file, mem, imports_, next, init_array_>>

Next == \/ ReadHeaders \/ MapImage \/ MapTraps \/ CopySegments \/ ReadDynamic
        \/ \E table \in Tables : Relocate(table) \/ TableDone(table)
        \/ CollectInit \/ Destroy

Spec == Init /\ [][Next]_vars

-----------------------------------------------------------------------------
(* A name is bound once, and every use of it agrees: no two imports have   *)
(* the same name, and no two unresolved ones share a trap slot, so the     *)
(* slot a fault hits names one missing function.                           *)
OneBindingPerName ==
    \A i, j \in 1 .. Len(imports_) : i # j =>
        /\ imports_[i].name # imports_[j].name
        /\ ~imports_[i].resolved /\ ~imports_[j].resolved =>
              imports_[i].bound_to # imports_[j].bound_to

(* What the last relocation of a word says is what a loaded image holds    *)
(* there, the words constructors are read from included.                   *)
Relocations == file.rela \o file.jmprel
Meaning(r, address) ==
    CASE r.type = "RELATIVE" -> address = <<"image", r.addend>>
      [] r.type = "SYMBOL" /\ r.sym.defined ->
            address = <<"image", r.sym.value + r.addend>>
      [] r.type = "SYMBOL" /\ ~r.sym.defined ->
            \E i \in Found(r.sym.name) :
                address = Plus(imports_[i].bound_to, r.addend)
      [] OTHER -> FALSE
LastAt(o) == {k \in 1 .. Len(Relocations) :
                 /\ Relocations[k].offset = o
                 /\ \A l \in k + 1 .. Len(Relocations) : Relocations[l].offset # o}
Relocated == stage = "loaded" =>
    /\ \A o \in Offsets : \A k \in LastAt(o) : Meaning(Relocations[k], mem[o])
    /\ \A i \in 1 .. Len(file.init_arr) : \A k \in LastAt(file.init_arr[i]) :
          Meaning(Relocations[k], init_array_[i])


(* What LOADER.md says of an unresolved import: it points into the guard   *)
(* page, which faults and can be named.                                    *)
UnresolvedTrap ==
    \A i \in 1 .. Len(imports_) :
        ~imports_[i].resolved => imports_[i].bound_to[2] < PageSlots
=============================================================================
