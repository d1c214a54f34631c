------------------------------- MODULE Assets -------------------------------
(***************************************************************************)
(* The asset manager over a directory: files that are read, sought and     *)
(* asked for what remains, and directories whose names are handed out one  *)
(* at a time, in storage that the directory has for the last of them.      *)
(* A path is the sequence of its parts.                                    *)
(***************************************************************************)
EXTENDS Integers, Sequences

CONSTANTS Assets, Dirs,   \* handles of assets and of directories
          OnDisk,         \* the one file below the root, as the parts of its path
          AskedFor,       \* paths the engine asks for
          Length,         \* of the file
          Names           \* files of the one directory, in the host's order

\* What paths are made of.
Parts == {"/", "assets/"} \cup UNION {{p[k] : k \in DOMAIN p} : p \in AskedFor \cup {OnDisk}}

AssetsAssumption ==
    /\ Length \in Nat /\ Names \in Seq(STRING) \ {<<>>}
    /\ AskedFor \subseteq Seq(Parts)
    /\ OnDisk \in Seq(Parts) \ {<<>>} /\ Head(OnDisk) \notin {"/", "assets/"}

VARIABLES asset,          \* per handle: where its file is, or Closed
          dir, heap,      \* per handle: the next name and the storage, and what the storage holds
          told,           \* per handle: the storage its caller holds, and the name it was
          opened          \* the path asked for last, and whether it was found

vars == <<asset, dir, heap, told, opened>>

Closed  == -1
NoTold  == [at |-> "nothing", name |-> "none"]

Init ==
    /\ asset = [h \in Assets |-> Closed]
    /\ dir = [d \in Dirs |-> Closed] /\ heap = [d \in Dirs |-> "none"]
    /\ told = [d \in Dirs |-> NoTold] /\ opened = [path |-> OnDisk, found |-> TRUE]

-----------------------------------------------------------------------------
(* No leading slashes, and not the name of the root below them.            *)
Resolve(path) ==
    LET first == CHOOSE k \in 1 .. Len(path) + 1 :
                    /\ \A j \in 1 .. k - 1 : path[j] = "/"
                    /\ k <= Len(path) => path[k] # "/"
        p == SubSeq(path, first, Len(path))
    IN IF p # <<>> /\ Head(p) = "assets/" THEN Tail(p) ELSE p

ManagerOpen(h, path) ==
    /\ asset[h] = Closed
    /\ opened' = [path |-> path, found |-> Resolve(path) = OnDisk]
    /\ asset' = [asset EXCEPT ![h] = IF Resolve(path) = OnDisk THEN 0 ELSE Closed]

Remaining(at) == IF at > Length THEN 0 ELSE Length - at

AssetRead(h, n) ==
    /\ asset[h] # Closed
    /\ asset' = [asset EXCEPT ![h] = @ + IF n < Remaining(@) THEN n ELSE Remaining(@)]
    /\ UNCHANGED opened

(* From the beginning, from where it is or from the end, and past it; but  *)
(* not before the beginning.                                               *)
AssetSeek(h, offset, whence) ==
    LET to == offset + CASE whence = "SET" -> 0 [] whence = "CUR" -> asset[h] [] OTHER -> Length IN
    /\ asset[h] # Closed /\ to >= 0
    /\ asset' = [asset EXCEPT ![h] = to] /\ UNCHANGED opened

AssetGetRemainingLength(h) == Length - asset[h]

AssetClose(h) ==
    /\ asset[h] # Closed
    /\ asset' = [asset EXCEPT ![h] = Closed] /\ UNCHANGED opened

-----------------------------------------------------------------------------
ManagerOpenDir(d) ==
    /\ dir[d] = Closed
    /\ dir' = [dir EXCEPT ![d] = 1] /\ UNCHANGED <<heap, told>>

\* The name is handed out in storage that there is one of.
Storage_Shared(d) == CHOOSE e \in Dirs : TRUE

Storage(d) == d

AssetDirGetNextFileName(d) ==
    /\ dir[d] # Closed
    /\ IF dir[d] > Len(Names)
       THEN told' = [told EXCEPT ![d] = NoTold] /\ UNCHANGED <<dir, heap>>
       ELSE /\ heap' = [heap EXCEPT ![Storage(d)] = Names[dir[d]]]
            /\ told' = [told EXCEPT ![d] = [at |-> Storage(d), name |-> Names[dir[d]]]]
            /\ dir' = [dir EXCEPT ![d] = @ + 1]

AssetDirRewind(d) ==
    /\ dir[d] # Closed
    /\ dir' = [dir EXCEPT ![d] = 1] /\ UNCHANGED <<heap, told>>

AssetDirClose(d) ==
    /\ dir[d] # Closed
    /\ dir' = [dir EXCEPT ![d] = Closed] /\ heap' = [heap EXCEPT ![d] = "none"]
    /\ told' = [told EXCEPT ![d] = NoTold]

-----------------------------------------------------------------------------
Next ==
    \/ /\ \E h \in Assets :
             \/ \E p \in AskedFor : ManagerOpen(h, p)
             \/ AssetRead(h, 2) \/ AssetClose(h)
             \/ \E offset \in {-1, 0, 1}, whence \in {"SET", "CUR", "END"} :
                   /\ AssetSeek(h, offset, whence) /\ asset'[h] <= Length + 1
       /\ UNCHANGED <<dir, heap, told>>
    \/ /\ \E d \in Dirs : \/ ManagerOpenDir(d) \/ AssetDirGetNextFileName(d)
                          \/ AssetDirRewind(d) \/ AssetDirClose(d)
       /\ UNCHANGED <<asset, opened>>

Spec == Init /\ [][Next]_vars

-----------------------------------------------------------------------------
TypeOK ==
    /\ asset \in [Assets -> Closed .. Length + 1]
    /\ dir \in [Dirs -> Closed .. Len(Names) + 1]

(* A name that was handed out is still there until its directory is asked  *)
(* again, whatever is asked of other directories; and a file is found by   *)
(* its name with the root's before it or a slash, and by none besides.     *)
NamesHeld ==
    /\ \A d \in Dirs : told[d] # NoTold => heap[told[d].at] = told[d].name
    /\ opened.found <=> \E slashes \in 0 .. Len(opened.path) :
          LET p == [k \in 1 .. slashes |-> "/"] IN opened.path \in {p \o OnDisk, p \o <<"assets/">> \o OnDisk}

(* What a caller takes the remaining length for: as much can be read.      *)
RemainingIsRead ==
    \A h \in Assets : asset[h] # Closed => AssetGetRemainingLength(h) = Remaining(asset[h])
=============================================================================
