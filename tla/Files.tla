------------------------------- MODULE Files -------------------------------
(***************************************************************************)
(* Descriptors, streams, mappings and directories.  Descriptors are the    *)
(* host's own, and several may share one description, that is one offset.  *)
(* A mapping is none: Mmap seeks the descriptor and reads until it has     *)
(* what was asked for, as separate calls of the host among those of other  *)
(* threads.  There is one file, whose byte at each place is the place, and *)
(* one directory.  The descriptor of the entropy device is nobody's.       *)
(***************************************************************************)
EXTENDS Integers, Sequences, FiniteSets

CONSTANTS Callers,        \* threads of the guest
          Fds,            \* descriptors the host gives out
          Size,           \* bound: the longest the file gets
          Entries,        \* the names in the directory, in the host's order
          Streams, Paths  \* streams the host gives out, and names of files

FilesAssumption ==
    Size \in Nat \ {0} /\ Fds # {} /\ IsFiniteSet(Fds) /\ Entries \in Seq(STRING)

VARIABLES size,           \* of the file, or -1 when there is none
          desc, pos,      \* the description of each descriptor, the offset of each description
          map,            \* per thread, the Mmap it is in or the mapping it has
          find, given,    \* per thread, its directory stream and what it was told
          file, g_open_paths, closed   \* what each stream is, what the trace takes it for,
                                       \* and the last close: what it was, what was traced

fdVars     == <<size, desc, pos>>
dirVars    == <<find, given>>
streamVars == <<file, g_open_paths, closed>>
vars       == <<fdVars, map, dirVars, streamVars>>

NoDesc  == 0
Descs   == 1 .. Cardinality(Fds)
NoMap   == [state |-> "none"]
NoFind  == [state |-> "none", data |-> 0, pending |-> FALSE]
NoPath  == "none"

Init ==
    /\ size \in {-1, Size} /\ desc = [f \in Fds |-> NoDesc] /\ pos = [d \in Descs |-> 0]
    /\ map = [t \in Callers |-> NoMap]
    /\ find = [t \in Callers |-> NoFind] /\ given = [t \in Callers |-> <<>>]
    /\ file = [s \in Streams |-> NoPath] /\ g_open_paths = file
    /\ closed = [was |-> NoPath, traced |-> NoPath]

(* A mapping is disturbed when what it was to hold is changed, or its      *)
(* offset moved, by others; its bytes are then of no account.              *)
Disturb(Seen(_)) ==
    [u \in Callers |->
       IF map[u].state = "none" \/ ~Seen(map[u]) THEN map[u]
       ELSE [map[u] EXCEPT !.disturbed = TRUE, !.at = 0,
                           !.bytes = [i \in DOMAIN @ |-> 0]]]
Rewritten == Disturb(LAMBDA m : TRUE)
Moved(d)  == Disturb(LAMBDA m : m.state = "reads" /\ desc[m.fd] = d)

-----------------------------------------------------------------------------
(* A description nothing uses, and offsets when f no longer uses its own:  *)
(* they are zero where nothing does.                                       *)
Unused == CHOOSE d \in Descs : \A g \in Fds : desc[g] # d
Released(f) ==
    [d \in Descs |-> IF \E g \in Fds \ {f} : desc[g] = d THEN pos[d] ELSE 0]

(* Open keeps of Bionic's flags those the host has.                        *)
TranslateOpenFlags(flags) == flags \cap {"CREAT", "EXCL", "TRUNC", "APPEND"}

Open(f, guest) ==
    LET flags == TranslateOpenFlags(guest) IN
    /\ desc[f] = NoDesc
    /\ IF size >= 0 THEN ~({"CREAT", "EXCL"} \subseteq flags) ELSE "CREAT" \in flags
    /\ desc' = [desc EXCEPT ![f] = Unused]
    /\ IF "TRUNC" \in flags \/ size < 0 THEN size' = 0 /\ map' = Rewritten
                                        ELSE UNCHANGED <<size, map>>
    /\ UNCHANGED pos

Close(f) ==
    /\ desc[f] # NoDesc
    /\ desc' = [desc EXCEPT ![f] = NoDesc] /\ pos' = Released(f)
    /\ map' = Moved(desc[f]) /\ UNCHANGED size

(* Dup2 shares the description, closing what had the number.               *)
Dup2(a, b) ==
    /\ desc[a] # NoDesc /\ a # b
    /\ desc' = [desc EXCEPT ![b] = desc[a]] /\ pos' = Released(b)
    /\ map' = Moved(desc[b]) /\ UNCHANGED size

Lseek(f, p) ==
    /\ desc[f] # NoDesc
    /\ pos' = [pos EXCEPT ![desc[f]] = p] /\ map' = Moved(desc[f])
    /\ UNCHANGED <<size, desc>>

Read(f, n) ==
    /\ desc[f] # NoDesc /\ pos[desc[f]] + n <= size
    /\ pos' = [pos EXCEPT ![desc[f]] = @ + n] /\ map' = Moved(desc[f])
    /\ UNCHANGED <<size, desc>>

Write(f, n) ==
    LET end == pos[desc[f]] + n IN
    /\ desc[f] # NoDesc /\ end <= Size /\ size >= 0
    /\ pos' = [pos EXCEPT ![desc[f]] = end]
    /\ size' = IF end > size THEN end ELSE size
    /\ map' = Rewritten /\ UNCHANGED desc

Ftruncate(f, n) ==
    /\ desc[f] # NoDesc /\ size >= 0
    /\ size' = n /\ map' = Rewritten /\ UNCHANGED <<desc, pos>>

(* Truncate opens the file by name, and closes it again.                   *)
Truncate(n) ==
    /\ size >= 0
    /\ size' = n /\ map' = Rewritten /\ UNCHANGED <<desc, pos>>

-----------------------------------------------------------------------------
(* Mmap of a file: a seek, then reads, each of which the host may cut      *)
(* short, until there is enough or no more.  What follows stays zero.      *)
Mmap(t, f, at, want) ==
    /\ map[t].state = "none" /\ desc[f] # NoDesc
    /\ pos' = [pos EXCEPT ![desc[f]] = at]
    /\ map' = [Moved(desc[f]) EXCEPT ![t] =
                 [state |-> "reads", fd |-> f, at |-> at, want |-> want,
                  bytes |-> <<>>, disturbed |-> FALSE]]
    /\ UNCHANGED <<size, desc>>

Ends(m) == IF desc[m.fd] = NoDesc THEN TRUE ELSE pos[desc[m.fd]] >= size

\* One read is taken to be all there is.
Enough_FirstRead(m) == m.bytes # <<>>

Enough(m) == Len(m.bytes) = m.want

Fill(t) ==
    LET m == map[t]
        d == desc[m.fd]
    IN
    /\ m.state = "reads" /\ ~Enough(m) /\ ~Ends(m)
    /\ \E n \in 1 .. m.want - Len(m.bytes) :
          /\ pos[d] + n <= size
          /\ pos' = [pos EXCEPT ![d] = @ + n]
          /\ map' = [Moved(d) EXCEPT ![t] =
                       [m EXCEPT !.bytes = @ \o [i \in 1 .. n |-> IF m.disturbed THEN 0 ELSE pos[d] + i]]]
    /\ UNCHANGED <<size, desc>>

Mapped(t) ==
    /\ map[t].state = "reads" /\ ({Enough(map[t]), Ends(map[t])} # {FALSE})
    /\ map' = [map EXCEPT ![t].state = "mapped"] /\ UNCHANGED fdVars

Munmap(t) ==
    /\ map[t].state = "mapped"
    /\ map' = [map EXCEPT ![t] = NoMap] /\ UNCHANGED fdVars

-----------------------------------------------------------------------------
(* Directories: opening one finds its first entry, which is pending until  *)
(* it is read.                                                             *)
Opendir(t) ==
    /\ find[t].state = "none" /\ Entries # <<>>
    /\ find' = [find EXCEPT ![t] = [state |-> "open", data |-> 1, pending |-> TRUE]]
    /\ given' = [given EXCEPT ![t] = <<>>]

NextEntry(d) == IF d.pending THEN d.data ELSE d.data + 1

Readdir(t) ==
    LET n == NextEntry(find[t]) IN
    /\ find[t].state = "open"
    /\ IF n \in DOMAIN Entries
       THEN /\ find' = [find EXCEPT ![t] = [@ EXCEPT !.pending = FALSE, !.data = n]]
            /\ given' = [given EXCEPT ![t] = Append(@, Entries[n])]
       ELSE find' = [find EXCEPT ![t].state = "ended"] /\ UNCHANGED given

Closedir(t) ==
    /\ find[t].state # "none"
    /\ find' = [find EXCEPT ![t] = NoFind] /\ given' = [given EXCEPT ![t] = <<>>]

-----------------------------------------------------------------------------
(* Streams, while opens and closes are traced.                             *)
RememberOpen(s, p) == g_open_paths' = [g_open_paths EXCEPT ![s] = p]

Fopen(s, p) ==
    /\ file[s] = NoPath
    /\ file' = [file EXCEPT ![s] = p] /\ RememberOpen(s, p) /\ UNCHANGED closed

Freopen(s, p) ==
    /\ file[s] # NoPath
    /\ file' = [file EXCEPT ![s] = p] /\ UNCHANGED <<g_open_paths, closed>>

TraceClose(s) ==
    /\ file[s] # NoPath
    /\ closed' = [was |-> file[s], traced |-> g_open_paths[s]]
    /\ RememberOpen(s, NoPath)
    /\ file' = [file EXCEPT ![s] = NoPath]

-----------------------------------------------------------------------------
UsesFds(t) ==
    \/ \E f \in Fds, flags \in {{}, {"CREAT", "EXCL"}, {"CREAT", "TRUNC"}} : Open(f, flags)
    \/ \E f \in Fds : Close(f) \/ Read(f, 1) \/ Lseek(f, 0) \/ Write(f, 1) \/ Ftruncate(f, 1)
    \/ \E f, g \in Fds : Dup2(f, g)
    \/ Truncate(Size)
    \/ \E f \in Fds, at \in {0, 1} : Mmap(t, f, at, 2)

FdNext == \E t \in Callers :
    \/ map[t].state # "reads" /\ UsesFds(t)
    \/ Fill(t) \/ Mapped(t) \/ Munmap(t)

DirNext == \E t \in Callers : Opendir(t) \/ Readdir(t) \/ Closedir(t)

StreamNext == \E s \in Streams : TraceClose(s) \/ \E p \in Paths : Fopen(s, p) \/ Freopen(s, p)

Next ==
    \/ FdNext /\ UNCHANGED <<dirVars, streamVars>>
    \/ DirNext /\ UNCHANGED <<fdVars, map, streamVars>>
    \/ StreamNext /\ UNCHANGED <<fdVars, map, dirVars>>

Spec == Init /\ [][Next]_vars

-----------------------------------------------------------------------------
TypeOK ==
    /\ size \in -1 .. Size
    /\ desc \in [Fds -> Descs \cup {NoDesc}] /\ pos \in [Descs -> 0 .. Size]
    /\ \A t \in Callers : find[t].state \in {"none", "open", "ended"}
    /\ file \in [Streams -> Paths \cup {NoPath}]

(* A mapping holds the file's bytes from where it was asked for, as many   *)
(* as there are, however the host cut the reads; unless another thread     *)
(* used the same description, or changed the file, meanwhile.              *)
MappingHoldsFile ==
    \A t \in Callers :
       LET m == map[t] IN
       m.state = "mapped" => m.disturbed \/
          /\ \A i \in DOMAIN m.bytes : m.bytes[i] = m.at + i
          /\ Len(m.bytes) < m.want => m.at + Len(m.bytes) >= size

(* A directory's entries are told in order, each once, and its end only    *)
(* after all of them.                                                      *)
EntriesOnce ==
    \A t \in Callers :
       /\ given[t] = SubSeq(Entries, 1, Len(given[t]))
       /\ find[t].state = "ended" => given[t] = Entries

(* What shim_file.cpp says of the trace: a close names the file closed.    *)
CloseNamed == closed.traced = closed.was
=============================================================================
