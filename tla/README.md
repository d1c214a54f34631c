# A TLA+ model of androidrecomp

androidrecomp lifts the AArch64 code of an Android title's native library to C,
compiles it, and runs it on a desktop: a small runtime carries the lifted code, a
loader maps the original library for its data, a *shim* stands in for Bionic, and
a JNI environment for Java. This directory models the part of that whose
correctness is in the order things happen: what threads, callbacks, images and
frames do to shared state, what a guest is told of files, sockets and streams,
and what the lifter makes of a library.

* **State machines** are modules named for the component (`Registry`, `GuestMutex`,
  `GuestControl`, ...). Names of variables and operators are the source's where
  TLA+ allows it; each definition's source lines are in `PROJECT.json` under "map".
* **`MC...` modules** and `.cfg` files instantiate them for TLC.
* **`...Proofs` modules** hold theorems checked by TLAPS.

`tlc -config X.cfg M` runs a check, `tlapm M.tla` checks the proofs of a module.

## 1. Inventory

"Properties" names what makes the component correct. Those in `code font` are
checked or proved; "fails" marks a statement of a comment or a document that the
code does not keep (section 4).

### Runtime: what lifted code stands on (`runtime/arm64_context.h`, `arm64_runtime.c`)

| Component | State | Operations | What is hard | Properties |
|---|---|---|---|---|
| Flags, conditions | `Arm64Ctx.n z c v` | `arc_add*`, `arc_sub*`, `arc_flags_logical*`, `arc_cond` | carry of a wrapped sum, signed overflow at the ends of the range | `FlagsExact` |
| Vector lanes | a `V` register | `arc_ushl/sshl`, `arc_sq*/uq*` | shift amounts beyond the width, saturation, C's undefined cases | `NumbersAsDefined` |
| Floating point helpers | - | `arc_fcmp`, `arc_fmin*`, `arc_fop_fix*`, `arc_fsqrt*`, `arc_f2*` | NaN, signed zeros, invalid operations, saturation | `NumbersAsDefined`, `FusedInvalid`, `FusedAgrees` (both fail) |
| Exclusives | reservation: address and value, per thread | `arc_load_exclusive`, `arc_store_exclusive` | the store compares a value and not a reservation: ABA | `NoLostIncrement`, `LockExcludes` |
| Guest control flow | thread-local callback stack and its busy flag, 16 jump slots, recovery point | `arc_call_guest`, `arc_jmpbuf_for`, `arc_longjmp`, `arc_trap`, `RunWithRecovery` | each unwinds host frames about which the others keep records | `CallsKeepTheirs`, `JumpWithinCallRestores`, `JumpRestores` (fails) |
| Native call tables | two arrays with a count each | `arc_register_native`, `arc_register_ctx_native`, `arc_dispatch_miss` | unlocked appends under unlocked searches; the tables fill | `TablesSound`, `HandedOutIsKnown` (fails) |
| Census, traces | open-addressed tally; ring of recent frames | `arc_census_note`, `arc_census_report`, `arc_frame_note` | probing a crowded table | `TablesSound`, `NoteReturns` (fails) |

### Shim: what stands in for Bionic (`runtime/shim*.cpp`)

| Component | State | Operations | What is hard | Properties |
|---|---|---|---|---|
| Handle registry | `g_next_id`, per-kind maps, the 32-bit word in the guest's object | `Obtain`, `Release`, the `Init`/`Destroy` entry points | first use by several threads; words reused or not the registry's, whose number the ids come to | `OneObjectPerWord`, `FindsItsOwn`, `Binding`, `NeverShared` (fails) |
| Mutexes, condition variables | host `recursive_mutex`, `condition_variable_any` | lock, trylock, unlock, wait, timedwait, signal, broadcast, destroy | the gap between the unlock and the sleep; recursion and waits | `MutualExclusion`, `HostAgrees`, `NoLostWakeup`, `Monitor` |
| Read-write locks | host `shared_mutex`, thread-local list of write locks | rdlock, wrlock, unlock, init, destroy | one unlock for two kinds of lock | `WriterExcludes` |
| Semaphores | count, mutex, condition variable | wait, trywait, post, getvalue | posts that come together, spurious wake-ups | `NoStrandedWaiter`, `PermitsReachWaiters` |
| `pthread_once` | the guest's control word | `PthreadOnce` | guest initialisers that nest or trap | `OnceIsOnce`, `OnlyTrapsStrand` |
| Guest threads | `g_threads`, count of live threads | create, join, detach, self, the thread's own start and end | the new thread and its creator fill one record at once | `JoinsSound`, `JoinsReturn` |
| Symbol resolution | table of shim functions, overrides, announced images, interned names | `ShimOverride`, `ShimResolve`, `ShimHandOut`, `dlsym` | pointers produced after the boot must be told to the dispatcher, guest ones not | `EveryImportKnown`, `SameByName` (fails) |
| Variadic calls | the guest's `va_list` | `printf` families, `vasprintf` | register and stack save areas running out; two passes over one list | `FetchesOwn`, `LengthReported` (fails) |
| Files | descriptors, emulated mappings, directory streams, traced streams, the set of non-blocking sockets | open, read, write, seek, truncate, close, mmap, munmap, readdir, fopen, freopen, fcntl | `Mmap` shares its descriptor's offset; the set and Winsock's mode are updated separately | `FilesSound`, `ConnectionsDue`, `CloseNamed` (fails) |
| Posix layer | clocks, broken-down dates, wide texts | `clock_gettime` and its like, `gmtime`/`localtime`, `mbsnrtowcs`, `wcsnrtombs` | clocks with one origin; storage used again; pieces of text | `SystemSound`, `DatesAgree` (fails) |
| Sockets and system | Winsock's sockets, redirect target | socket, connect, poll, select, getsockopt, send, recv, getaddrinfo | two numberings of families, flags and errors; a redirect that guesses what a name is for | `LeavesOnlyFailed`, `TransfersEnd`, `ConnectionsDue`, `SameAnswer` (fails) |
| Assets | open positions, directory positions and the last name | open, read, seek, lengths, directory iteration | the name's storage; roots and slashes | `FilesSound`, `RemainingIsRead` (fails) |
| zlib | a host stream beside each guest one | the `Init`s, inflate, deflate, reset, end | streams refused, ended, begun again | `StreamsSound`, `CallerSetsFour` (fails) |
| GL shim | the attributes' buffers, texture census, error counts, shader texts | draws, attribute pointers, buffers, textures, `glShaderSource`, `glCompileShader` | offsets into deleted buffers; errors said of the wrong call | `DrawsAsSet`, `NothingRead`, `LogNamesLine` (both fail) |

### JNI (`runtime/jni_env.cpp`)

| Component | State | Operations | What is hard | Properties |
|---|---|---|---|---|
| Handles | an arena of 512 blocks that wraps | `New*`, the call slots that make objects, delivered callbacks | handles outliving the arena's turn; blocks filled outside the lock | `HandlesSound` |
| Preferences | stored values, their file | get, put, `SavePrefs`, load | answers read by pointer after the lock is given up; a file written by truncating it | `ReadsBack` |
| Methods and fields | method names and ids, what was called and not answered, unknown fields, directories, poll counts | `GetMethodID`, `GetFieldID`, the `Call*Method` slots in three forms | the environment, the stored values and the tables answer the same question | `MethodsSound`, `TrueMeansMade` (fails) |

### Loading and running (`runtime/elf_image.cpp`, `runtime/window.cpp`, `tools/arc_boot.cpp`)

| Component | State | Operations | What is hard | Properties |
|---|---|---|---|---|
| ELF loader | mapped image, trap page, import list, constructors | `Load`, `Relocate`, `BindImport`, destruction | several relocations of one word; values read before they are relocated; partial failure | `OneBindingPerName`, `Relocated`, `UnresolvedTrap` (fails) |
| ELF symbol tables | dynamic symbols | `Lookup`, `SymbolAt` | symbols without sizes, and that are no functions | `ReportsSafely` |
| Image linking | `g_deps`, `g_lifted_deps`, `g_mappings`, unresolved list | the resolver, `register_imports` | images are bound one at a time, before later ones exist | `EveryImportKnown`, `ShippedWins` (fails) |
| Boot, frame loop | entry steps, frame count, the call in progress | `call_guest`, `RunEntry`, the loop of `main` | the GL context changes thread around every call; frames that are not presented | `ContextHandedOver`, `EventsInOrder`, `GuestHasContext` (fails) |
| Window | pointer queue, button, resize flag, GL context | `PumpEvents`, `NextPointer`, `Present`, `MakeCurrent`, `ReleaseCurrent` | touches that pile up between frames | `EventsInOrder` |
| Crash reports | - | `ReportGuestStack`, `ReportPointedAt`, `DumpBytes`, `ReportPeek`, `ExplainAddress` | frames and pointers of a guest that has just gone wrong | `ReportsSafely`, `WildIsNoCrash` (fails) |

### Lifter (`tools/lifter.py`)

| Component | State | Operations | What is hard | Properties |
|---|---|---|---|---|
| Discovery | functions defined, referenced, recovered, pending; the extents | `functions_from_*`, `dedupe_starts`, `uncovered_starts`, `recover_extents`, `emit_program`, the dispatcher it writes | descriptions that overlap, nest, disagree or leave gaps; the search feeds on what it finds | `LiftsWhole`, `TailKept`, `GapsFound` (both fail) |
| Jump tables | what is known of each register | `jump_tables`, the emission of `br` | read in the order the code stands, not the order it runs | `SwitchLands`; `TablesLand`, `GuessIsChecked`, `ComputedLands`, `KnownIsTrue` (all four fail) |
| Emitters | - | `emit`, `emit_vector` | the parts where C and the architecture part | `FlagsExact`, `NumbersAsDefined` |

`lift_verify*.py`, `lift_harness.cpp` and `selftest.py` compare emitted code with an
emulator; `apk_probe.py`, `dex_contract.py`, `make_cacerts.py` and the build files
keep no state; `arc_host.cpp` loads and calls as the boot does. They are not modelled.

### How the components interact

The boot loads each image through the ELF loader, which asks the linking resolver
for every import; the resolver answers from lifted images, then the shim, then the
rest. What it answers is registered in the native tables, so that a branch the
lifter could not resolve (`arc_dispatch_miss`) finds it; `dlsym` adds to them once
the guest runs. The frame loop calls
guest code on a thread of its own; guest code calls shim functions directly; shim
functions call guest code back through `arc_call_guest` (thread starts,
`pthread_once`, `qsort`, an unwinder's visitor). Pthread objects share the handle
registry and nothing else. Traps and jumps cut across all of it: they unwind host
frames that may be in the middle of a shim function (`GuestControl`, and the trap
in `GuestOnce`). What the lifter could not see it leaves to the dispatcher, whose
answer for a function it does not know is a trap: `Lifter` and `JumpTables` are
about when that happens.

## 2. Plan

Done, in this order, what every title depends on first:

1. Pthread layer: `Registry` (refines `HandleBinding`), `GuestMutex` (refines
   `AbstractMonitor`), `GuestRwlock`, `GuestSemaphore`, `GuestOnce`, `GuestThreads`.
2. Runtime core: `Exclusive`, `GuestControl`, `NativeTables`, `Census`; arithmetic:
   `Arm64Flags`, `Arm64Lanes`, `Arm64Floats`.
3. Loading and running: `ElfImage`, `Linking`, `FrameLoop`.
4. Services with shared state: `JniHandles`, `JniMethods`, `Preferences`,
   `SocketFlags`, `Redirect`, `Files`, `Sockets`, `GlShim`.
5. Services with state per object: `Varargs`, `Zlib`, `Assets`, `Posix`, `CrashReports`.
6. The lifter's control flow: `Lifter`, `JumpTables`.
7. Proofs: `RegistryProofs`, `PthreadObjectsProofs`, `GuestThreadsProofs`,
   `RuntimeCoreProofs`, `ElfImageProofs`, `JniHandlesProofs`, `HostProofs`,
   `ServicesProofs` (section 7).

Left, in this order:

8. Smaller parts not modelled: the order of the shim's own tables and aliases,
   `eglGetProcAddress`, `dl_iterate_phdr`, `ExportsWithPrefix`, symbol versions, the
   stall watch, JNI arrays and strings, the remaining emitters.

Components that share no state are checked in one run: the harness
(`MCPthreadObjects`, `MCRuntimeCore`, `MCHost`, `MCServices`) picks a *focus*
in its initial state, and a behaviour takes steps of that component only. Since
the components do not share variables, this loses nothing over separate runs.

## 3. Modules and the code

Actions are the entry points of the source or, where a handler gives up or lacks
a lock, its pieces between the accesses other threads can see.

**`HandleBinding`, `Registry`** (`shim_pthread.cpp`, `Obtain`, `Release`). One
action per statement on shared state: taking the lock, testing the word, writing
the next id into it, inserting the object, finding it; and for a release taking the
lock, erasing, clearing. The variable `g_registry` is who holds the lock. The
maps of the different kinds are one set, their ids coming from one counter.
`HandleBinding` says what it is for: an object is unbound or bound to a handle
that is its own. `Foreign` is what a word holds that the registry did not write,
such as 0x4000, Bionic's static initialiser of a recursive mutex. Nothing in the
code keeps the ids from coming to that number; until they have, the two are
`Apart`. From then on such a word finds the object of that id, and destroying it
destroys that one: the properties say what still holds then, and `Binding` asks
every step up to then to be one of `HandleBinding`.

**`AbstractMonitor`, `GuestMutex`** (`Mutex*`, `Cond*`). Obtaining the host object
and acting on it are separate steps, so a call carries a pointer while others
run. `holds` is what the guest was told; `owner` and `depth` are the host's
account. Waits release one level, as `condition_variable_any` does; they end by a
notification, a time-out or spuriously. Every mutex is a host recursive mutex,
whatever the guest asked for. `AbstractMonitor` has the wait as one atomic step.

**`GuestRwlock`**, **`GuestSemaphore`**, **`GuestOnce`**: one action per section
between taking and giving up a lock, and per access to an atomic control word.
`GuestOnce` has initialisers that call `pthread_once` on other controls and ones
that trap, on threads with and without a recovery point.

**`GuestThreads`**: the build with `pthread_create`, not the one with Windows handles. Creator and new thread run
at once; `alive` is the count against the ceiling. `Known` restricts calls to ids
a guest can have.

**`Exclusive`**: the reservation is an address and a value. The guest is the two
loops every lifted atomic compiles to. Words wrap at `Modulus`, so that ABA occurs.

**`GuestControl`**: `frames` is the host stack, each entry naming the activation it
runs in; `acts` are the guest contexts. `sp` stands for all that a setjmp saves.
Actions: a lifted call and return, a shim call and its callback, setjmp, longjmp,
a trap with and without recovery.

**`NativeTables`**: plain loads and stores in source order, no lock. A branch
searches by index against a limit it read once.

**`Census`**: probing, the first call that clears the table, reports that empty it.

**`Arm64Flags`, `Arm64Lanes`, `Arm64Floats`**: pure functions of the source, checked
against the architecture's definition over every operand of a small width. A lane
helper is a *set* of outcomes, with more than one where C leaves the result
undefined. A float is a sign and a magnitude in quarters, or a NaN with a sign, a
payload and a quiet bit; the host's own operations, whose NaN has its sign set,
are external. The architecture's side (`Invalid`, `Propagated`, `Before`,
`Rounded`) is written separately from the helpers' and does not use them.

**`ElfImage`**: `Load` statement by statement, over an abstract file. Memory is
words of eight bytes; an address is a pair of region and offset.
**`Linking`**: images in the order they are loaded, each bound whole; then `Dlsym`
and `HandOut`, by which the guest finds functions once it runs.
**`FrameLoop`**: the entry steps and the loop, the guest's thread as a second actor,
and SDL's events between frames.

**`JniHandles`**: taking a block of the arena, under its lock, and filling it,
outside it, are separate steps. A call of the guest is a list of blocks to take
and fill, as many as the code takes: two for an object with an id, four for a
delivered callback. A handle in the guest's hands remembers what it was made for
and when; `HandlesReadAsMeant` holds it to that until as many blocks have been
taken as there are. `overrun` records that somebody wrote through a handle older
than that, which lands in another's block (an arena of 512 blocks allows it).
**`Preferences`**: each call is one step under the store's lock, except that a
save cuts the file and writes it line by line, in the map's order, and that an
answer is a pointer read after the lock is given up. The process may end at any step. What may be lost
is named in `ReadsBack`: the store being written, and keys behind one with a space
in it, which cannot be read back.
**`SocketFlags`**: the Windows build's fcntl and close, with descriptors used again.
**`Redirect`**: the first look-up with its race, and a connection as the guest makes
it, the look-up of a name followed by a connect to what was answered.

**`Files`**: the host's descriptors, several of which may share one description.
`Mmap` is a seek and as many reads as the host likes, each a step of its own among
the steps of other threads; `map` says where the caller is and what it has. A
directory's first entry is found by `Opendir`, as Windows has it. Streams are here
for the trace of opens and closes.
**`Sockets`**: the shim's translations, and a client written for Linux that believes
them: the client's reaction to each answer is part of the model, since an answer
is right when the client does the right thing. Winsock and the peers are external.
**`Zlib`**: host streams are numbered blocks that are freed and given out again;
`meant` is a ghost of the fields as the program set them.
**`Assets`**: one file, two directories and the paths an engine asks for.
**`Posix`**: the stopwatch clocks and the dates, each with the shift of
`ARC_FAKE_TIME`; the broken-down dates in thread-local storage; and conversion of
text by pieces, with the limits on both sides.
**`Varargs`**: a format is a sequence of places, a star being one of its own, and an
argument is the place it is for. `Place` says where the caller puts it, as AArch64
lays arguments out; the list `ap` counts down what is left of each save area. A
fetch is right when it finds the argument its place was given.
**`GlShim`**: the driver's state beside what the shim keeps; offsets, memory and null
are kinds of pointers, and a draw records what it would have the driver read.
**`JniMethods`**: looking a method up and calling it are steps of their own; the
answer is the name of the place it came from. A program is the set of methods and
keys a title uses.
**`CrashReports`**: memory is words that may not be there and hold whatever they
like; each report step records what it touched.
**`Lifter`**: from the descriptions of a library (unwind entries, symbols, the PLT)
to what `emit_program` has written, one turn of its loop to a step, and the
dispatcher it writes. `pending` is a sorted list in the code and a set here, of
which the first is taken. A described range is taken to lie in one section or
outside both. `Programs` are what there is to lift.
**`JumpTables`**: the reading of a function, instruction by instruction, beside the
machine that runs it. The lifter reads in the order the code stands. Most
instructions are both read and run; one on a way the machine does not take is read
only, whatever its kind (`NotTaken`: an `adr`, an addition, a load, any other write);
one that stands behind the branch, or before what was read last, is run only
(`StandsElsewhere`). Two ghosts tell what a branch is owed. `path` is how a register
came by its value, from which it follows whether the function has a switch the
lifter should recognise: a branch through a table (`ThroughTable`), or to a base plus
an index (`Computed`). `sight` is how the lifter saw that value: `clear`; `last`, when
the register is a base the lifter has forgotten and still remembers as the last one
seen, which is what `seen` is for; or `lost`, when it read something else since, or
never read it. `SwitchLands` is about the branches of which nothing was lost.

## 4. Runs

| Run | Properties | Shows |
|---|---|---|
| `pthread_objects` | `MutualExclusion`, `HostAgrees`, `NoLostWakeup`, `Monitor`, `WriterExcludes`, `NoStrandedWaiter`, `PermitsReachWaiters`, `OnceIsOnce`, `OnlyTrapsStrand` | a mutex and a condition variable, destroyed and made again, refine a monitor whose wait is atomic; unlock undoes the right kind of lock; no permit is stranded; initialisers run once, and only a trap strands callers |
| `guest_threads` | `JoinsSound`, `JoinsReturn` | creates, joins and detaches in every order |
| `runtime_core` | `CallsKeepTheirs`, `JumpWithinCallRestores`, `TablesSound`, `NoLostIncrement`, `LockExcludes` | nested callbacks left by returns, jumps and traps; branches against a registering thread; exclusives; the census short of full |
| `host` | `OneBindingPerName`, `Relocated`, `EveryImportKnown`, `ContextHandedOver`, `EventsInOrder`, `HandlesSound`, `ReadsBack`, `ConnectionsDue`, `LiftsWhole`, `SwitchLands`, `FlagsExact`, `NumbersAsDefined` | how the program is made and what its arithmetic does; relocation files with repeated words and names; every small world of exports and imports, and look-ups by name in it; frames with touches, failures and steps; handles past the arena's end; preferences across restarts; reused sockets; connections under every redirect |
| `services` | `OneObjectPerWord`, `FindsItsOwn`, `Binding`, `FilesSound`, `LeavesOnlyFailed`, `TransfersEnd`, `StreamsSound`, `SystemSound`, `FetchesOwn`, `DrawsAsSet`, `MethodsSound`, `ReportsSafely` | first use of a pthread object by several threads; mappings against other users of their descriptor; transfers over poll and over select, refused, reset and answered; and the other services, each against all its callers can do |

A property of a harness conjoins, of each component it is about, the type
invariant and the named parts; the modules have the parts. Beside the mutant that
`PROJECT.json` lists for a property, modules hold operators for further mistakes,
named `<Operator>_<Mistake>` (`SlotFor_Unused`, `Counted_KeyOnly`,
`Register_OffByOne`, `Carry64_NoCarryIn`, `Fix_Host`, `Convert_Cast`, `HandOut_Any`,
`Loads_Strict`, ...), one for each conjunct that a different mistake would break;
each was put in place of its operator once and found.

Seven runs find that the code does not do what a comment or a document says. Each
checks one property; the `findings` of `PROJECT.json` quote the lines.

| Run | What the code does |
|---|---|
| `jump_out_of_callback` | a longjmp out of a callback restores the registers into the callback's context, and the frame it lands in goes on with the outer one |
| `handed_out` | two threads in `dlsym` at once: one native table entry overwrites the other |
| `census_full` | a new function's probe of a full census never ends; the comment says the table stops learning |
| `trap_page` | slots are numbered by import, resolved or not, so those after the 512th lie past the guard page |
| `shipped_wins` | a dependency is bound before a later one that has the name is loaded: the shim's function, or a trap slot |
| `guest_context` | where no thread can be started the guest runs on the main thread after it has given up the GL context |
| `shared_tail` | of two targets in one described function the first ends where the second begins, without the tail both share |

**Stated and refuted, without a run of their own.** These definitions stand in the
modules; TLC finds each violated under the harness of its component.

| Definition | The statement, and what the code does |
|---|---|
| `Registry!NeverShared` | the registry gives every pthread object a host object of its own, found by its word; `shim_pthread.cpp:67` looks a word up whoever wrote it, so that after 16383 creations a mutex initialised to 0x4000 and never created here has another object's, and destroying it destroys that one's |
| `Redirect!SameAnswer` | `shim_sys.cpp:654-656`, `:664`: a name asked for with no service is answered with the redirect's address; the title's own port in it then leads to a TLS port of the sidecar, or past a redirect on loopback |
| `Linking!SameByName` | a function is the same by name as by import: an import passes over a dependency that is not lifted where the shim has the name, and `dlsym` does not; the address it gives traps when called |
| `Lifter!GapsFound` | `docs/LIFTER.md`: the gaps between functions catch what nothing describes; only the start of each gap is swept |
| `Lifter!EntersItsRange` | `lifter.py:2629-2632`: a target inside a described range is a second entry point into it; where a range nested in that one has ended before the target, the search looks at the nested one alone, finds no range, and the function runs to whatever begins next, past the end of the range it is in |
| `JumpTables!KnownIsTrue` | `lifter.py:2387-2388`: every other instruction that writes a register invalidates what was known about it; a second destination is not, nor is a value that code elsewhere writes. A branch through a table compares the real value, so the wrong knowledge costs it no more than a way through the dispatcher |
| `JumpTables!TablesLand` | `lifter.py:2255-2257`: a switch's branches "have to become local jumps". An `adr` of another base, or a write to the entry or the sum, that stands between the table's base and the branch on a way not taken, and the table read is another or none: the branch goes to the dispatcher, which knows no function there |
| `JumpTables!GuessIsChecked` | `lifter.py:2280-2282`: the last base seen is a guess, but "a wrong base fails on the first entry". Where the wrong base is a label of the same function, its entries land inside as well: the labels found are not the switch's, and its branch goes to the dispatcher beside them |
| `JumpTables!ComputedLands` | `lifter.py:2255-2257`: such branches become local jumps. A register read from a table and then written as the second of a pair still counts as the table's entry, so that a switch computed from a base and that index gets the labels of the table's words and not its own (lines 2346-2350) |
| `Arm64Floats!FusedInvalid` | `docs/RUNTIME.md:130-132` says of an invalid operation that its NaN is the architecture's; of the fused ones it is the host's, with its sign set |
| `Arm64Floats!FusedAgrees` | `lifter.py:1740-1742`: `fnmadd` as the negation of the sum gives the other zero where the product cancels |
| `Files!CloseNamed` | `shim_file.cpp:155-162`: a traced close names its file; after a `freopen`, which is not traced, the old one's name |
| `Zlib!CallerSetsFour` | `shim_zlib.cpp:69`: the four fields are the caller's; beginning or resetting a stream reports the host's over what the caller had set |
| `Varargs!LengthReported` | `shim_varargs.cpp:71-72`: the answer is the length the text would have; of a piece that does not fit its room, what fits |
| `Posix!DatesAgree` | `shim_posix.cpp:118-124`: `ARC_FAKE_TIME` shifts every wall-clock reading; `clock_gettime(CLOCK_REALTIME)` is not shifted |
| `GlShim!NothingRead` | a draw that would have the driver read the first page is skipped (`shim_gl.cpp`, `IndicesAreUnusable`); of offset 0 with no buffer it is not, since that looks like null |
| `GlShim!LogNamesLine` | `shim_gl.cpp:75-76`: the driver's log names the author's line; the header is above it |
| `JniMethods!TrueMeansMade` | `jni_env.cpp:1425`, `:1433`: `mkdir` called in a form that carries no `va_list` answers true and makes nothing |
| `Assets!RemainingIsRead` | as much as remains can be read; past the end, less than nothing remains |
| `CrashReports!WildIsNoCrash` | `arc_boot.cpp:168-169`: wild values do not crash the host; `--peek` reads through them unchecked |

**Read off the models.** A trylock by the owner of a
non-recursive mutex succeeds, every host mutex being recursive. The ceiling on
threads is checked before the thread counts itself, so a burst of creates passes
it. Sixteen jump slots are handed out in turn and never returned, so a live
buffer can lose its slot to dead ones (`SlotHoldsLatest` allows it). A jump out of
a callback leaves `t_callback_busy` set, and later callbacks allocate. A
store-exclusive succeeds after the word went away and came back
(`arm64_context.h:384-385` says why that is accepted; the two loops survive it, as
is proved). Lane shifts by -128 and `arc_sqrdmulh32(INT32_MIN, INT32_MIN)` leave
what C defines. A quiet NaN before a signalling one is given back in its place, and
`fminnm` and `fmaxnm` of a signalling NaN, or of two NaNs, differ from the
architecture. Dependencies' own constructors are not run by the boot.

Of sockets: connections by IPv6 are not redirected, though `shim_sys.cpp:299-300`
says every outbound one is; a service given by name (`https`) counts as one that is
not TLS; `accept`, `getsockname` and `getpeername` do not translate the family,
though `shim_sys.cpp:466` says so; select hands the guest's `timeval` to Winsock as
it is, `__FD_SET_chk` does nothing, the value of `SO_ERROR` is not translated, and
`POLLPRI` comes back as `POLLIN`. Of files: `Mmap` moves the offset of the descriptor
it shares. A zlib `Init` that fails leaks the host's stream. `%ld` is truncated on
Windows, `%Lf` misread and `%F` not recognised. `NewGlobalRef` and `NewLocalRef` fall
to the default of the JNI table and answer a fresh, blank handle; `GetStringChars`
gives at most 32767 units where `GetStringLength` counts them all. The comment in
`ShowVertices` says attributes shift up, the code shifts them down.

Of reports: `ReportTrail` reads a thread-local ring on the stall watch's own thread,
where it is always empty; the watch counts frames that are not presented as stalls.
Of the lifter: a described range that reaches past a section's end and is referenced
keeps `emit_program` searching for ever (the model takes ranges to lie in one
section); a word capstone cannot decode ends a function without a word; one table
entry outside the function ends the table; gaps that open after the first pass are
not swept, and an image nothing describes is not swept at all.

## 5. Bounds

| Bound | Why it is enough |
|---|---|
| 2 threads and 2 words in `Registry`, 5 ids, `Foreign` the fourth | a race on a word needs two threads, a shared object two words; three ids before the foreign number allow a word to be destroyed and made again beside the other; then the id that is that number, and one after it |
| 3 threads, 1 mutex, 1 condition, depth 2 | holder, waiter and signaller; recursion of two is what separates "one level" from "all levels"; 3 ids give each object a second life after a destroy |
| 2 locks for `GuestRwlock`, 4 threads for `GuestSemaphore`, count up to 3 | two posts for two sleepers beside a trywait; a list that holds the other lock |
| 3 threads and 2 controls for `GuestOnce` | runner, spinner and a nested initialiser; one thread has a recovery point |
| 3 thread slots, ceiling 2 | creator, target, third party; the ceiling is reached |
| `Modulus` 3, 3 threads | a counter that wraps inside one thread's load and store |
| 2 jump slots, 3 buffers, depth 4 | more buffers than slots, and a callback inside a callback inside a jump |
| one `ctx` entry and two native ones for 3 host functions | both tables fill |
| 4 census slots, 6 functions with colliding hashes | wrapped probes; a full table |
| 3-bit flags (`SignBit` 4), 3-bit lanes | the code's conditions depend on the top bit and on carries only, as `FlagsAreExact` proves for every width; all operands and all carries-in occur, the first operand being what the instruction before left. Wide products fit in `WideBits` |
| 12 magnitudes of a float, in quarters, 2 payloads, 3 addends, 3-bit integers | zero, halves on both sides of even and odd numbers, the limits of signed and unsigned integers and a half around them, infinity; two payloads tell whose NaN came back |
| 3 words, up to 2 + 2 relocations | one word written by several relocations, a name in both tables, three imports for `PageSlots` |
| 2 dependencies, 2 functions, none said of a dependency that is not shipped; overrides of one name, with no other shim | before and after in the loading order; a name exported by none, one, both; overrides only stand before the rest |
| 4 blocks, 5 taken, 2 threads, 1 handle held | a delivered callback is four blocks; five wrap the arena between making an object and answering it |
| 3 keys, the middle one with a space; 3 stores and saves, 2 ends of the process | keys before and behind the one that cannot be read back; a store, a save and an end in every order, and an end in the middle of a save |
| 2 sockets, 3 threads | a number used again while another thread still closes it |
| 2 connections, ports 80 and 443 | one that finds the redirect read and one that reads it; TLS on either side |
| 2 turns of the loop, 3 touches, steps at 0, 2, 1, 2 | two steps due at once, one out of order; a turn that presents nothing, after which a step's frame comes again; a down, move and up between two frames |
| `.text` of 8 words, the first 4 of 5 kinds of instruction, a PLT of 2, 6 descriptions and a nested one, `RECOVER_MAX` 2, limits 0, 1, 3 | descriptions that are missing, nest, overlap, disagree or leave a gap before, between or behind; a run longer than is recovered; a recovered function that is cut by the limit, by the next target and by the section; a second library shifts the first one's shards |
| 2 registers, 4 instructions before the branch, a function of 4 words, an image of 4 words, shifts 0 and 1 | a base, an entry, an addition and one instruction between them, of any kind, run or only read; in the one image a table at 1 of which two entries lead into the function by the lower base and one by the upper, a negative entry that ends it, and a table at 4 cut off by the image's end |
| 2 descriptors, 2 threads, a file of 2 bytes, 2 directory entries | a shared description, a read cut short, a file shortened or grown meanwhile |
| 2 transfers on sockets 0 and 3, 4 bits | the first and the last descriptor of an `fd_set`; one transfer waits while the other has news |
| 2 streams, 2 host blocks, 1 byte | a block freed by one stream and given to the other |
| an asset of 3 bytes, 2 directories of 2 names | seeks past the end; one directory asked while the other's name is held |
| 2 seconds, shifts none and 500, dates inside and outside the host's range | the first call of a clock before and after the others' |
| texts of 3 characters, pieces of 3 units | a wide character at each seam, with either limit reached first |
| 3 general and 2 vector registers, 1 or 2 of the former taken, formats of 4 places, rooms 1 and 3, pieces of 3 | each kind running out first, then the other on the same stack; widths given as arguments; a conversion longer than its piece |
| 2 attributes, 2 textures, 1 draw, 2 frames, shaders of 3 lines | a buffer deleted under one attribute and not the other; a census with a texture bound |
| 14 programs, 3 environments, 2 threads, 2 calls | each program joins methods that bear on one another; a look-up between another's look-up and call |
| 4 words in regions, 2 frames, 4 symbol tables | chains that leave what is readable, end, or go on past the depth |

`MaxFrames`, `MaxEvents`, `MaxCalls`, `MaxCount`, `MaxDepth`, `MaxSp`, `MaxId`,
`MaxAllocs`, `MaxHeld`, `MaxCrashes`, `MaxConnects`, `MaxNow`, `MaxText`, `MaxFormat`,
`MaxSaid`, `MaxDraws`, `MaxLines` and `MaxInsns`
stand only in guards or in what is enumerated, and are named as bounds where they
are declared.
Permutations of buffers, heap stacks and host functions in `runtime_core`, of
threads in `pthread_objects`, of the guest's threads in `host` (which also are the
registers of `JumpTables`) and of the pair of threads, descriptors or streams in
`services` are symmetric: no definition tells them apart.
`jump_out_of_callback`'s and `runtime_core`'s action properties are about a single
step, for which symmetry is sound. Under liveness: `Monitor` and `NoLostWakeup` are
safety properties; the semaphores' and the once controls' threads are not permuted;
and no state of the sockets' focus holds one of `services`' permuted values where
exchanging them makes another state, so its fairness and `TransfersEnd` do not tell
a behaviour from its permutations.

## 6. Fairness

* `GuestSemaphore`: a notified or spuriously woken waiter eventually looks at the
  count (weak). It holds no lock while asleep, and whoever has the semaphore's
  mutex gives it up without waiting.
* `GuestOnce`: a spinning caller eventually looks again (weak), and a running
  initialiser ends or traps (strong: it is not enabled while it waits inside a
  nested `pthread_once`). This is a demand on the title, and the code's own: its
  callers spin until it ends.
* `Sockets`: the client's next step and its wait (weak: one thread runs it, and it has
  nothing else to do), and of each peer that it accepts or refuses, and replies or
  resets, in the end (weak: TCP's time-outs make a silent peer a failed one). Which
  of them it is, and when, is free.
* `GuestThreads`, of which only the build with `pthread_create` is modelled (its
  `pthread_join` waits as `WaitForSingleObject` does): a call in progress, a started host thread and an ended start
  routine go on (weak), and a start routine ends although it makes calls of its
  own in between (strong). A thread joined by others never waits for them: calls
  are for ids greater than the caller's.

No fairness is assumed of anything the guest may choose not to do: no post, no
unlock and no create is fair. `CHECK_DEADLOCK FALSE` stands where a behaviour may
stop: two guests waiting for each other's locks, a process that has aborted, a run
at its bounds.

## 7. Proofs

All hold for every value of the constants that meets the modules' named
assumptions; TLC evaluates those assumptions in every run. Most say that sizes are
naturals and that null values are outside the sets they complete. The others say
what the code's data is like: an instruction's `And` of two words is a word
(`FlagsAssumption`); a key is stored once, in the map's order, and none of the
model's marks (nothing, damaged, unsaid) is a stored value (`PreferencesAssumption`);
the symbols of one table have names of their own, a symbol's size is zero or its
true length, and the functions among them do not overlap (`Orderly`, in
`ReportsAssumption`); the path the assets are read from is not empty and begins
with neither the slash nor the root (`AssetsAssumption`); and what describes a
function keeps to one section, or lies in none (`WellDescribed`, in
`LifterAssumption`; section 4 says what the code does otherwise).

The modules of mutexes and of read-write locks assume that fewer objects are made
than the number foreign storage holds (`Foreign > MaxId`); `Registry` does without,
and shows what happens beyond.

* **`RegistryProofs`.** `Invariance` proves `IInv`, which adds to the typing what
  the lock gives: one thread at a time between `Test` and `Find`, the value of its
  word at each step, ids in use below `g_next_id`, and no two words with the same
  id of those that only the registry can have written (`Written`, all but `Foreign`). From it follow
  `ObtainsOneObject` and `SharesNoOther` (two objects share none but the one whose id is
  `Foreign`, and that not before `g_next_id` has passed it), `FindsWhatItFilledIn`,
  `KeepsWords`, and `Refinement` of `HandleBinding` until then. The
  properties are not inductive alone: that a find succeeds rests on where the
  thread filling the word in stands.
* **`PthreadObjectsProofs`.** *Mutexes and condition variables:* `IInv` is `TypeOK` with `WordsOK` (no two words name one
  object), `Unborn` (a fresh object is free), `Pointers` (a pointer a call carries
  is the one its word still names), `HeldKnown` (what the guest holds it can
  name), `Account` (host and guest accounts agree at every step of a call) and
  `Sleepers`. From it `Typing`, `Agreement`, `Exclusion`, `WakesTheReleased` (the
  action property `NoLostWakeup`: who has released its mutex in a wait sleeps on the
  very condition the word names, so a signal that returns has found it), and
  `Refinement` of `AbstractMonitor`, action by action.
  *Read-write locks* (`RwInv`): as for mutexes, words,
  pointers and unborn objects, and `RwAccount`: the thread's list, the host lock and
  what the thread was told agree lock by lock; `WriterIsAlone` follows. It is the
  list that would break alone: an unlock looks there to know which way to unlock.
  *Semaphores* (`SemInv`): who waits is on the host's list, and `SemServed`: permits
  never outnumber the waiters that are awake while one sleeps; hence `NobodyStranded`.
  *Once controls* (`OnceInv`): the word says "running" exactly while one thread is
  inside, and "done" only after its end; hence `InitialisedOnce`.
* **`GuestThreadsProofs`.** What a join answers is settled when it is called: `Claims`
  (a slot is joined or detached by one caller), `Slots` (a slot is unused until it is
  handed out and then one `Create`'s), `InTime` (whoever came in time finds the host
  thread there, and it stays) and `Counted` (the counter is the number of live
  threads, by cardinality of the set). From it `JoinsAreSound`.
* **`RuntimeCoreProofs`.** Four parts side by side.
  *Exclusives:* `Typing`, `LosesNoIncrement`, `Excludes`: comparing values is enough
  for both loops, whatever the wrap-around; the lock word is not 0 while a thread is
  inside, which is alone, and the counter is the number of stores so far, modulo.
  *Guest control* (`ControlInv`): activations climb with the host's stack, no two
  share a guest stack (`StacksApart`), a jump slot belongs to one buffer, and
  `ArmedLive`, `DeepEnough`: a saved frame and stack pointer are still those of the
  frames under it. From it `CallsKeep`, and the action property of `JumpsRestore`.
  *Native tables* (`TablesInv`), under `OneRegistrar`, which every run but
  `handed_out` gives and the code needs: with two threads registering, both write the
  same entry (section 4). A search owes what was known when it began: an entry between
  its index and its limit. *Census* (`CensusInv`): counts and losses add up to the
  calls, and no probe sequence passes a free slot. A sum over the slots is a recursive
  function; what it does when one slot changes is proved by a least counterexample
  over a bounded set of naturals (`Climbs`), since the library's induction theorems
  cannot be instantiated. The three last are `TablesAreSound`.
* **`ElfImageProofs`.** `Invariance` proves `TypeOK` and `ImportsWellFormed`: an
  unresolved import is bound to the slot its place gives it. `BindsOnce` follows.
  `LoadsRelocated` rests on `Applied`: after each relocation, what lies at an offset is
  what the last relocation so far that names it means, a symbol's meaning being settled
  once its import is on the list, and the list only ever growing.
* **`HostProofs`.** Eight components, each proved of its own specification and of the
  harness (whose sizes are constants, given values in its `.cfg`s).
  *Linking* (`LinkInv`): each loaded image is bound to what `BoundWell` says, the
  registered prefix of them is known (`Progress`), only host addresses are registered,
  and the lifted dependencies are the loaded ones that are lifted. `ImportsAreKnown`
  has all three parts of `EveryImportKnown`; it uses that a search in order finds the
  first place that is an address.
  *FrameLoop* (`LoopInv`): who has the context at each place in the loop and each stage
  of a guest call; the queue of touches follows on from what was heard, `LastTouch`
  joining the two; and the steps of the frame that were come past are taken. From it
  `ContextIsHandedOver` and `EventsComeInOrder`.
  *SocketFlags* (`ModesInv`): where each caller stands between the host's call and the
  set, for every socket that was not closed under another call of its own (`mixed`).
  *Redirect* (`NetInv`): what each thread has settled so far of its connection, and that
  the target is fixed once it was parsed. From both `ConnectionsEndWhereDue`.
  *JumpTables* (`SwitchInv`): beside the machine, what is known of a register is what
  its `path` says it holds. A constant or a value seen last is the base the register
  had, unless `sight` says it was lost; what was loaded through it is the table that
  base begins (`entry`); an addition pends with the very table, base and shift of the
  `target` path. What reading an instruction does to one register is shown once
  (`OneReading`), for those that are run and those that are not. So the entries read when a branch is met
  of which nothing was lost contain the one the machine takes; `SwitchesLand` says no
  more than that of code the machine passes by. The register the lifter is
  wrong about (a second destination) is a path of its own, `second`.
  *Preferences* (`PrefInv`): the lines of the file are values that were stored or are
  damaged, none of a key that would be read and is damaged; while a save goes on, what
  it has written and what it has yet to write are together the store; and `due` and
  `kept` follow from both. From it `StoredIsReadBack`, for every order of keys, those
  behind a key with a space left out as the code leaves them.
  *Arm64Flags* (`FlagsInv`): the flags are those of the last instruction. Carry out of
  a wrapped sum, signed overflow and each of the sixteen conditions are worked out
  from the two cases of a sum, below or at 2 `SignBit`: `FlagsAreExact` holds of both
  widths, since nothing in the code depends on which power of two `SignBit` is.
  *Lifter* (`LiftInv`): whatever is known of, and has its bytes in a section, is
  defined or pending, never both (`StartsOk`), and what a written function names is
  referenced or defined (`WrittenHere`), so that a turn which recovers nothing leaves
  nothing to recover; once the gaps were swept every uncovered run has a function at
  its start or is too long (`Swept`). `EndsWell` and `RecoversWell` say where a
  recovered function ends: by `DescribedWell` the ranges it is measured against keep
  to their sections. From it `ProgramsLiftWhole`, proved of the harness only, since
  `Lifter` itself does not say which program is lifted.
* **`JniHandlesProofs`** (`HandleInv`). Blocks are given out in turn, so `Placed` computes from
  the time a handle was made where it lies as long as it is recent; two recent handles
  in one block are of one time; and every handle held, being made, or an element of an
  array is of a time of its own (`BornApart`). So a write through a recent handle
  changes no other recent one, which makes `HandlesReadSoundly` inductive; it needs
  `InOneCall` too (an array's elements are the two handles made before it, and the
  source of a copy is still held).

* **`ServicesProofs`.** Nine components, again each of its own specification and of
  the harness; `ServicesInvariance` puts their invariants side by side.
  *Zlib* (`ZInv`): a stream in use has a block that is not free and no other stream's
  (`OwnBlock`), and its fields are those its program set unless it began anew since
  (`AsSet`). *Posix* (`PosixInv`): a stopwatch said the time since the start, whichever
  clock was asked first; each thread has its own storage for each form of a date; and
  what came out is what was converted, of the beginning of the text. *Sockets*
  (`NetInv`): where a transfer stands, its try among its addresses and whether the
  host has failed that try belong together (`TransferOk`), so that the client's own
  reactions never drop a connection that lives. *CrashReports* (`CrashInv`): what was
  touched was asked for first; the name is `SymbolAt`'s, which is shown to be the
  nearest function's by its greatest start (`NearestIsIt`). *Files* (`FileInv`): of a
  mapping that nobody disturbed, the offset is where its seek and reads have left it
  and the bytes so far are the file's; what a directory has told so far is its
  entries up to the next, each once. *Assets* (`AssetInv`): the storage of a directory
  holds the name told last; `ResolvesToFile` takes a path apart, slashes and root
  before the name, and shows that `Resolve` finds the file for those and no others.
  *GlShim* (`GlInv`): the attributes the driver has are the guest's, shifted where the
  code shifts them; a census leaves the binding it found. *JniMethods* (`JavaInv`): the
  place of a name in the list is its id and stays so (`NamesAndNotesStand`), what each
  call was answered from, and that whatever was answered with nothing is noted.
  *Varargs* (`VaInv`): at each place of the format the list has as many registers of
  each area left as the arguments before it have not taken, and is as far into the
  stack as those that found no register (`ListAt`). Two arguments are never in one
  place (`PlacesApart`: of the members of a set of naturals no two are preceded by as
  many others), so `ArgumentsAreTheirOwn`; and the buffer has what fits
  (`LengthsInv`), in both passes.

TLC checked each strengthening as an invariant before it was proved. Only
model-checked, and why:

* liveness (`PermitsReachWaiters`, `OnlyTrapsStrand`, `JoinsReturn`, `TransfersEnd`):
  fairness and ENABLED are beyond the prover;
* `NumbersAsDefined`, which is checked operand by operand: products, powers of two
  and rounding of the lanes' and the floats' helpers are nonlinear arithmetic, which
  the SMT backend does not decide;
* the runs that expect a violation, which refute and do not prove.

## 8. What is left out, and why

* What a call prints, formats or logs; error numbers, except where the sockets'
  client acts on them.
* Weak memory: plain accesses of `NativeTables` interleave in program order, the
  order an x86-64 host gives; a compiler's reordering is modelled only as far as
  re-reading the count.
* The widths of exclusive accesses, and pairs; the two loops use one width.
* Rounding and subnormals of floating point, which are the host's; conversions from
  integers and between widths, vector forms of the float operations.
* The emitters of moves, loads and stores, bit fields, and the rest of the vectors:
  each is one C expression for one instruction, compared with an emulator by the
  verification scripts and with no state between instructions.
* Windows' own thread handles (`GuestThreads` models the build with `pthread_create`,
  see section 3); a longjmp out of a once initialiser, which strands its callers as a
  trap does; of
  files and sockets it is the Windows build that is modelled, where they differ.
* Pure leaf functions (math, most of the Posix layer), forwarding GL calls, the
  probes, the verification scripts and the build: no state of their own.
* JNI arrays, strings and the tables of constant answers beyond the ones that share
  a key or a form; what SDL and the GL driver do.
* The stall watch: it samples a context that other threads write, and what it prints
  is whatever it saw.
* Components marked `not_modelled` in `PROJECT.json`, each with its reason there.
