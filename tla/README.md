# Verification of LPNU

LPNU is a compatibility layer that offers macOS interfaces on Linux: user-space
loaders, an IOKit library, a Metal library, and a few kernel files.  This
directory holds TLA+ models of its stateful parts, the TLC configurations that
check them on small instances, and proofs, checked by TLAPS, of the properties
that matter most for every value of the constants.

Paths below are relative to the repository.  The duplicate files under
`linux-7.0/fs/lpnu/` are copies of those under `lpnu/` (the KEXT file differs).

## 1. Inventory

| Component | State it keeps | Operations | What is hard about it |
|---|---|---|---|
| KEXT loader, `lpnu/kext/lpnu_kext_runtime.c` | switch, table of 256 info pointers, count; in each info the handle and the stop entry | SetRuntime, Load, Unload, GetInfo, List | Load calls a start entry, Unload a stop entry: foreign code that may call the loader again in the middle of the call; removal shifts the table; a full table is not an error; a failed start has to close what was opened |
| Image loader, `lpnu/dyld/lpnu_dyld.c` | table of 256 image pointers, count; in each image the handle | load, unload, add_image, remove_image, get_all_images | the table is handed out without its count; unload frees an image without looking at the table; freed addresses come back |
| C library `dlopen`/`dlclose` (external) | a reference count per library | open, close | shared by the two loaders |
| IOKit locks, `lpnu/iokit/lpnu_iokit.c` | one flag | Acquire, TryAcquire, Release | test and write are two accesses |
| IOKit data queue | buffer, head, size, capacity | Enqueue, Dequeue, size queries | the copy does not wrap, the 32-bit size does; Dequeue removes nothing; asking for room and using it are two calls |
| IOKit dictionary | two arrays of 16, count | Set, Copy | keys are the callers' pointers; full is silent; the arrays may be missing |
| IOKit service tree | parent, child, sibling pointers | Create, Destroy, AddChild, RemoveChild | RemoveChild does not unlink; nothing is counted and no argument is checked |
| IOKit service registration | state bits, provider, `g_serviceList` of 256 | Start, Stop, AddProvider, RemoveProvider, RegisterService | nothing is ever taken off the list; full is silent; addresses come back |
| IOKit registry entry | 8 values and a count | SetProperty | full is silent |
| other IOKit objects | one to three heap blocks | Create, Destroy, getters of an owned block | a further allocation may fail |
| Metal devices, `lpnu/metal/lpnu_metal.c` | the global `g_device` | CreateDevice, ReleaseDevice | creation stores to the global and reads it back three times, without synchronisation; release compares after free |
| Metal objects | one or two heap blocks; the 8+8 bindings of a pipeline | Create, Destroy, SetBuffer, SetTexture | partial failure; limits of two adjacent arrays |
| Mach-O binary format, `linux-7.0/fs/binfmt_mach_o.c` | registration, header buffers | init, exit, the handler | the handler calls the search that calls the handler; failures at every level; files too short; rmmod; it clears `bprm->interp`, which `binfmt_misc` reads |
| Mach-O header parser, `lpnu/lpnu_mach_o.c` | a page while it reads | load, parse | failures; its list of magic numbers is not that of the binary format |
| Kernel KEXT, VFS, entry, build files | none | | see section 8 |

How they interact.  The two loaders meet in the reference counts of `dlopen`,
and an image loader call may happen inside a kext callback.  Metal and IOKit
objects meet on one heap, where a freed address may come back as anything.
Services, dictionaries, queues and locks do not call one another, but clients
combine them: a queue that several threads fill is guarded by a lock.  The
binary format and the exec search of the kernel call each other, and share the
kernel's heap with the header parser.  There are no messages, no persistence and
no timeouts in the program: timers are stubs.

What makes a component correct is stated as the properties of section 5.  The
hazards they are aimed at are listed, line by line, in `PROJECT.json`.

## 2. Modules

| Module | Role |
|---|---|
| `PtrTable` | operators for a pointer table with a count: entries, the removal loop, order |
| `KextRuntime` | the KEXT loader |
| `KextRegistry` | abstract: what that loader promises, as sets |
| `Dyld` | the image loader |
| `LoaderProcess` | both loaders over shared `dlopen` counts (INSTANCEs of the two) |
| `IOLock` | the spin lock, one shared access per step |
| `IODataQueue`, `IODictionary` | the data queue; the dictionary |
| `LockedQueue` | a data queue that threads fill under a spin lock (EXTENDS the two) |
| `Pointers`, `ServiceObjects` | the null pointer; the addresses of services that live, for the next two |
| `BoundedMap` | abstract: what the dictionary promises |
| `IOService` | the service tree, over bare pointers, with careful clients and others |
| `ServiceRegistration` | the state word, the provider and the global list of services |
| `ServiceForest` | abstract: what the child lists promise, as sequences |
| `MachOReader` | what the two kernel readers share: pages, files, reading |
| `MachOParser` | the header parser |
| `BinfmtMachO` | the binary format inside exec, beside the parser |
| `MetalDevice` | devices and the global, by several threads, one access to it per step |
| `HeapObjects` | the heap: what creating and destroying objects does to it |
| `MetalObjects`, `IOKitObjects` | the objects of the two libraries, over `HeapObjects` |
| `ClientObjects` | both together on one heap |
| `MC...` | small instances for TLC: model values, symmetry, constant functions |
| `PtrTableProofs` | lemmas about pointer tables, for both loaders |
| `KextRuntimeProofs`, `DyldProofs`, `LoaderProcessProofs` | theorems about the loaders, alone and in one process |
| `LockedQueueProofs` | theorems about the lock, the queue, and the two together |
| `IOKitProofs` | theorems about the dictionary, the service tree and registration |
| `BinfmtMachOProofs` | theorems about the binary format and the parser |
| `ObjectsProofs` | theorems about Metal devices and the objects on the heap |

Definitions named `Fault_...` are plausible bugs of the operation they stand
before.  They are not part of any specification: each shows that a property can
be violated by a mistake in the code it is about.

## 3. How state and actions correspond to the code

Names are the source's where TLA+ allows it.  A table is a function from
indexes; `PtrTable!Removed` is the search and the shift of the removal loops.  A
heap address or a client buffer is a model value.  History variables (`peak`,
`added`, `raced`, `overlapped`, `onlyMade`, `total`, `last`, `asked`, `stored`,
`born`, `registered`, `lastCall`, `misuse`, `book`, `spoilt`) are written and
never read by guards, except where a client's own discipline or a bound is a
guard.

**KextRuntime.**  One action per uninterrupted piece of a call.  A load of a
library with a start entry is `LoadCallsStart` up to the call, and
`StartSucceeds` or `StartFails` from its return; an unload with a stop entry is
`UnloadCallsStop` and `StopReturns`.  `calls` is the C stack of callbacks
now executing; any action may happen while it is not empty, and a call returns
only when it is innermost.  Calls rejected before they write are stuttering
steps.  The clients load into a buffer that is not in use and unload what they
loaded, once (`phase`).  The constructors and destructors that `dlopen` and
`dlclose` may run are taken not to call the loader: what is split is the call of
start and of stop.  As written, line 94 of the source has unbalanced
parentheses; the model takes the evident call of the stop entry.

**Dyld.**  `load` takes any address that is not allocated, as `calloc` may.  The
client is *disciplined* (adds once, removes before it unloads) or *free* (adds
twice, unloads what is registered, removes what it has already freed).  `Walked`
is what a caller of `get_all_images` can see: the slots before the first null.
`LoadFails` is a load whose library opens and whose image cannot be allocated.
`added` is the history as a client sees it: a sequence that an addition appends
to, and from which a removal takes the oldest entry of the image.

**LoaderProcess.**  `dlRefs` is one variable of both instances; a step is a step
of one loader and leaves the other's own variables.  Here one call may break the
rules of the kext loader, in a way it does not notice: an unload of a buffer
that is not loaded (`UnloadStale`), a load into a running buffer (`LoadOver`),
an unload through a copy that `LPnuKextList` returned (`UnloadCopy`).  A stale
unload with a stop entry would call into code that is not mapped and is left
out.  A copy is taken at the moment it is used; one kept from an earlier call of
`LPnuKextList` until after its kext was unloaded is not covered.

**IOLock.**  A thread is idle, spinning, between the read of 0 and the write of
1 (`"passed"`), or inside.  A read of 1 in the loop changes nothing.  The flag
is volatile, and the model takes reads and writes to be sequentially consistent.

**IODataQueue.**  `Enqueue` rejects only more bytes than the capacity; `head`
is taken modulo the capacity and `size` modulo the machine word.  Callers are
those for which the copy, which does not wrap, can be safe: one that asks for
size and capacity first, and one whose records divide the capacity.

**LockedQueue.**  `IODataQueue` and `IOLock` side by side.  A thread inside the
lock looks at size and capacity, remembers in `want` what it will enqueue, and
enqueues it in a later step, before it releases.  Every access to the lock's
flag is a step, so threads race through the lock here as they do alone; the
callers that need no lock use the queue by themselves.

**IODictionary.**  The string in a caller's buffer is separate from the pointer
the dictionary keeps.  A *stable* caller does not rewrite a buffer the
dictionary holds, a *careless* one does.  `arrays` says which of the two arrays
Create was given; a store into a missing one ends the process (`crashed`).

**IOService.**  Three pointer functions.  Destroy, AddChild and RemoveChild are
modelled as the code has them: they check nothing, and free or link whatever
live service they are given.  What keeps a tree in shape is the client.  A
*careful* one (`careful`) destroys a service only when no live service has a
link to it (`MayDestroy`), and adds a child only when it is in no list and the
parent is not below it (`MayAdd`).  These rules are the clients', not the
code's.  Note that a removed child stays in its parent's list, so a careful
client can destroy it only after the parent.  Other clients only pass services
that exist: they destroy services that lists lead to, whose addresses come back,
and add services that are in a list already, to the same parent, to another or
to themselves; their walks may follow freed pointers and run in circles.  `book`
is what a client has added to every parent, and `spoilt` the parents whose list
it has spoilt itself, by destroying a child of theirs or adding it again.
`Below`, what can be reached from a service, is the least set closed under the
links; `Children`, the walk as a sequence, follows it hop by hop.

**ServiceRegistration.**  The part of a service that is not its place in the
tree.  The state word is the set of its two bits that the code uses.  An address
together with its number of births tells services at one address apart.  A
*careful* client does not destroy what it has registered, since nothing takes it
off the list; a *free* one does.

**MachOReader, MachOParser, BinfmtMachO.**  A task either execs a file or has it
parsed.  Both readers allocate a cleared page, read the file into it with an
error path, look at the first word and free the page.  A file is its first word
and whether it is long enough to hold one; a file too short for a word leaves
the rest to what was in the page, and `Completed` says when that makes a magic
number.  The parser is told how much was read, the handler does not look.
`search_binary_handler` is external: it takes a module reference for the call of
a handler and goes on after `-ENOEXEC`; `rmmod` waits for references.  It is
that of the kernels that export it to binary formats (up to 5.7), as the call in
the handler needs: there it counts its own nesting and gives up with `-ELOOP`.
In the tree the file is placed in (`linux-7.0`) the search is static and the
limit lies in its caller, so that the call would not link, and nothing would end
the nesting if it did; every statement below that an exec ends rests on the
older search.  `binfmt_misc` is external as well: it may be switched on and off
(`misc`), comes first in every search, and looks for the last dot in
`bprm->interp`.  The handler sets that pointer to null before its nested search
(`interp`), so with `binfmt_misc` on the task is killed there (`SearchOopses`):
its handlers never return, and their references on the module are never dropped.
The file of the handler does not compile as it is: `LPNU_MACH_O_CIGAM64` is
undefined and `kernel_read` is given no file.  The model takes the byte-swapped
magic and `bprm->file`.

**MetalDevice.**  One action per access to `g_device`.  Creation stores the new
device or, when none was allocated, null (`CreateStores`), tests what it reads
back (`CreateTests`), writes the type and the name through what it reads back
(`CreateFills`), and hands out what it reads back (`CreateReturns`); release
frees (`ReleaseFrees`), compares (`ReleaseCompares`) and clears
(`ReleaseClears`). Unsynchronised accesses of two threads are a data race: at
each read of a creation a build may use the pointer it has just stored or reload
the global, and `ReadBack` is the choice.  So the model has a creation that
loses its device, that writes through a null or freed pointer, or that answers
success and null. After a write to memory that is not allocated (`broken`)
nothing happens any more.

**HeapObjects, MetalObjects, IOKitObjects.**  `heap` is the set of allocated
blocks, `kind` says what the structure at an address is, `owned` its further
blocks: the data of a buffer, the arrays of a dictionary.  Freed memory holds
garbage, so an object that was not cleared on creation would show it.  A
pipeline is a row of words: its buffers, its textures, and the word after the
structure.  A client destroys a buffer only when no pipeline has it bound.
`LPNUIOCommandPoolAllocate` answers with the start of the block every time, so
that two commands of one pool are the same memory.

## 4. Bounds of the runs

| Run | Bounds | Why they are enough |
|---|---|---|
| `kext` | 4 buffers, 3 libraries (one of each kind, two with one name), 3 slots, 2 nested callbacks | a removal shifts two entries; a fourth kext finds the table full; a callback unloads or loads under a load or an unload, and once more inside that |
| `dyld` | 4 addresses, 2 libraries, 3 accepted images, both kinds of client | two entries shift, the table is full, an address is reused while it is registered |
| `loader_process` | 2 buffers, 2 images, 2 libraries, 2 nested callbacks, one careless call | a library is held by either loader, by both, and twice by one; a careless call before, between and after careful ones |
| `locked_queue` | 3 threads, capacities 4 and 6, word 16, 40 bytes in all | two threads inside after a race and a third that waits or takes the lock one of them has released; several divisors, and a uniform caller's size wraps twice (`MaxTotal` bounds the behaviour; a caller that asks stops when the queue is full, so deadlock is not checked) |
| `iolock_mutex` | 4 threads | two suffice for the race |
| `dictionary` | 2 entries, 3 buffers, 3 strings, 2 values | a store finds an entry, a free slot, or neither; two entries may come to have one key. A store into a missing array ends the process, so deadlock is not checked |
| `service` | 4 services, 3 of them (all but `Spares`) for clients that are not careful | lists of three and trees of four levels; for the others the list of one service is spoilt, or runs through freed memory, beside those of two, and a service is in two lists, or twice in one |
| `service_registration` | 2 addresses, 2 births at each, 1 provider, 3 registrations, 2 slots | a registered service is destroyed and another born and registered at its address; the third registration finds the list full. Births and registrations run out (`MaxBorn`, `MaxCalls`), so deadlock is not checked |
| `binfmt`, `binfmt_executes` | 2 tasks, nesting 3 (6 in the kernels that have it), every magic number and files too short for it, `binfmt_misc` on and off | two tasks at different depths, or one in each reader, with failures at each |
| `metal_device` | 3 threads, 3 addresses | devices released in any order, also at the same time, and addresses reused while two others live; three creations overlap. A process that has written to freed memory stops, so deadlock is not checked |
| `objects` | 4 addresses, 2 slots, 2 entries and 3 stores per registry entry | a pipeline with a buffer and a texture; two objects of two blocks, a dictionary of three; a chain from a library to a compute pipeline; a store beyond the limit. A client may fill the heap with libraries and functions, which no operation destroys, so deadlock is not checked |

Buffers, images, services and heap addresses are interchangeable, so those runs
use symmetry; none of them checks a liveness property.

## 5. What the runs check

- **`kext`**.  `RefsBalanced`: the `dlopen` count of a library is the number of
  buffers that hold it.  `TrackedAreLive`: the table lists running or stopping
  kexts, each once.  `CallbackCodeMapped`: the library of every executing
  callback is open.  `LookupMapped`: a look-up by name answers with a mapped
  kext or misses none.  `LoadOrderKept`: no step reorders the kexts that stay.
  `ImplementsRegistry`: the loader refines `KextRegistry`.
- **`dyld`**.  `TableAsAdded`: whatever clients do, the table is what they have
  added and not removed, in order, an image added twice twice. `RegisteredLive`:
  clients that remove an image before they unload it never find a freed one in
  the table; for others the entry dangles, and nothing is said of it.
  `SentinelKept`, `WalkSeesPeak`: whatever clients do, a walk of the exported
  table ends inside it and covers exactly the slots that were ever filled at
  once; after a removal it still meets pointers that the shift left behind, and
  these need not live.
- **`loader_process`**.  `SharedRefsBalanced`, `ReachableCodeMapped`: neither
  loader gives back a reference of the other, and a careless call costs one
  library one reference, whatever follows.  `TableSurvivesMisuse`: the search by
  pointer keeps the table right through stale unloads and unloads of copies; a
  load over a running kext leaves at most one bad slot.
- **`locked_queue`**.  `GuardedCopiesInside`: the room a caller saw is there
  when it enqueues, so no copy leaves the buffer, unless threads raced through
  the lock.  `CheckedSizeHonest`: full, empty and no data mean what they say to
  a caller that asks.  `ExclusiveUnlessRaced`: the window between test and write
  is the only way in for a second thread.  `NeverLeaked`: the flag is never set
  without a holder, also after a race.  `SomeoneEnters`: a waiter is not left
  waiting for a lock that nobody holds.
- **`iolock_mutex`** expects a violation: two threads are inside at once,
  although the file's header says linking with pthread gives full threading
  support.
- **`dictionary`**.  `ImplementsMap`: for stable callers it is a bounded map
  that drops new keys when full.  `ReadYourWrite`: for any caller a look-up
  right after a store finds it.  `DistinctKeys`: no two entries have one key,
  for stable callers.  `HalfCreatedReadable`: a dictionary without its arrays
  can be looked up, and only its first store fails.
- **`service`**.  For careful clients `ImplementsForest`: the linked lists are
  the sequences of `ServiceForest`, a removed child included; and
  `TeardownPossible`: the lists never close a circle, so some service can always
  be freed of its last links and destroyed.  For all clients
  `UnspoiltListsKept`: damage stays where it was done.  A list that the client
  has not spoilt itself is walked through live services to its end, newest child
  first, whatever was destroyed, created at a used address or added twice
  elsewhere.
- **`service_registration`**.  `RegistrationsKept`: the list names the first
  registrations in order, and with careful clients the very services; with
  others an entry may dangle, and only the order and the limit are kept.
  `StartedAsCalled`: the state word follows Start and Stop, also at an address
  that is used again.
- **`binfmt`**.  `CodeStaysLoaded`: no exec is in the handler when the module is
  out.  `OneBufferPerReader`: neither reader loses a page.  `ShortIsUnknown`: a
  file too short for a magic number is never taken for a Mach-O file.
  `ParsedIsKnown`: what the parser accepts, the handler never calls unknown.
  `ExecReturns`: every exec and every parse returns, except that an exec of a
  file with one of the handler's magic numbers may be killed.  It rests on the
  nesting limit of the search (section 3).
- **`binfmt_executes`** expects a violation: an exec of a recognised Mach-O file
  ends in `-ELOOP`, although the configuration text says Linux executes them.
  `-ELOOP` is the outcome in kernels that export the search and with
  `binfmt_misc` off; the other outcomes, a killed task or an unlimited nesting,
  execute nothing either.
- **`metal_device`**.  `OwnUnlessOverlapped`: until a creation overlaps another
  call, devices and owners are one to one and nothing is written or freed that
  is not allocated, also while releases overlap.  `GlobalLiveUnlessOverlapped`:
  until then the global does not keep naming a freed device.
  `AnswersExistWhileOnlyMade`: however creations overlap, each answers a device
  that exists, if perhaps another's, as long as no allocation fails and nothing
  is released.
- **`objects`**.  `BlocksOwned`: every block belongs to one object; no path
  leaks or frees twice.  `ContentsApart`: memory that getters hand out is nobody
  else's.  `PipelineHoldsAsked`, `EntryHoldsFirst`: bindings and
  registry values are what was asked for, at and beyond the limits.

## 6. Fairness

`LockFairness` of `IOLock` assumes weak fairness of the accesses of a thread
that is in Acquire, between test and write, or inside: a runnable thread runs,
and critical sections end.  `LockedQueue!LockedSpec` adds that a thread that has
looked enqueues.  It does not assume that a thread calls the lock, and it
assumes no strong fairness, so no individual waiter is promised entry.
`BinfmtMachO!Spec` assumes weak fairness of the steps of an exec or a parse that
has begun: neither the readers nor the search ever wait.  A killed task takes no
steps.  It does not assume that anybody loads or removes the module or switches
`binfmt_misc`.  The other specifications state safety only: their operations are
calls that clients may or may not make.

## 7. What is proved

All theorems hold for every value of the constants under the named assumptions
of the modules: finite sets of buffers, images and services, null among none of
them, table sizes in Nat, constant functions of the right type, capacities above
zero and below the word, finitely many tasks.  Every safety property that a
passing run checks is a theorem, and so are the three refinements.  Each is
proved from an inductive invariant; TLC checked those on the instances of
section 4 before they were proved.

- **PtrTableProofs**: lemmas on the removal loop, used by both loaders: what it
  removes, that it keeps order, distinctness and the null tail, and how often a
  pointer is listed before and after.
- **KextRuntimeProofs** (`KextInvariant`, then type correctness and every
  property of the `kext` run, with the refinement `KextImplementsRegistry`).
  The properties are not inductive.  `KInv` adds that every frame of the
  callback stack belongs to a buffer of its own that is starting or stopping,
  that the table lists live kexts once each, and that a live buffer has a
  library.  The first is needed so that a return meets the buffer it left as it
  was; the others so that a removal takes out all there is and the counts change
  with the holders.
- **DyldProofs** (all properties of the `dyld` run).  `DInv` adds
  `FilledToPeak`: the slots below the peak hold images and those above are null.
  That the table is the sequence of additions needs that the search of the code
  and `RemoveFirst` find the same index (`WithoutFirst`, `RemoveUnlists`); that
  registered images live then follows from the clients' discipline about that
  sequence.
- **LoaderProcessProofs** (all properties of the `loader_process` run).  `LPInv`
  describes the table buffer by buffer: all are listed properly, at most once
  and only while running or stopping, except the one a kext was loaded over
  (`ListedOver`), which is listed at most twice, and at most once unless its
  load has succeeded.  `OneCopy` says that the frame of an unload through a copy
  is alone on the stack of its kind and that everything is in balance while it
  is there, so that its close is the first reference lost.  A later close that
  finds no reference left restores the balance and never takes it further off,
  because a holder was counted (`HolderRemoved`).
- **LockedQueueProofs**.  The lock: `LInv` adds that until a race at most one
  thread is in the window or inside, and that until then the flag is set exactly
  while the lock is held, so that nobody enters the window beside a holder.  The
  queue: `QInv`, a checked caller's size has not wrapped, because the capacity
  is below the word.  Both together (all safety properties of the `locked_queue`
  run): `LQInv` adds `WantHolds`, a thread that has looked is inside, and until
  a race the room it saw is still there, because nobody else is inside. For
  records of one size it adds that the position is a multiple of the size, as
  the capacity is, so a record that begins in the buffer ends in it.
- **IOKitProofs** (all properties of the `dictionary`, `service` and
  `service_registration` runs, with the refinements `DictionaryImplementsMap`
  and `TreeImplementsForest`).  For the dictionary, types and the two invariants
  are inductive together: distinct keys make the first match the only one, which
  the refinement needs.  For the tree `TreeInv` has a part for every client and
  one for careful clients.  The former, `BookInv`, adds to `UnspoiltListsKept`
  only that the book of a service that is gone or spoilt is closed: a step
  writes links of the services it is given, and those that an unspoilt list runs
  through are in its book (`WalkStays`).  The latter, `CareInv`, says that links
  of live services lead to live services, and has `ListsEnd`: every set of live
  services has a member that no link from the set leads to.  An unlisted service
  alone, as `TeardownPossible` has it, would not survive the destruction of that
  service; and a circle after AddChild would need the parent below the child.
  From `ListsEnd` it follows that the walk of a list ends: as many hops as there
  are services would meet one of them twice, and what lies between is a circle
  (`WalkEnds`).  A list is then the only sequence with its start and its links
  (`LinkedUnique`), and each step of a careful client changes one sequence at
  its head or none.  The recursive definition of the walk is shown to define
  something (`WalkExists`), and inductions over its hops are made by looking at
  the least hop that fails.  `RegistrationInv` adds `ListFollows`, the list is
  the beginning of the history, and `RegisteredStay`, a careful client's
  registered services are still those that were born then.
- **BinfmtMachOProofs** (all safety properties of the `binfmt` run).  `BInv`
  ties the two counters to what they count: the pages to the tasks between
  `kzalloc` and `kfree`, and the module references to the handler's frames on
  all stacks, a set of pairs of task and level.  `WordRead` says what is in a
  page, `Verdicts` what a nested search and a result say of the file; the latter
  lets two tasks with one file be compared.  `InterpLost`: only a task whose
  file was recognised has lost its `interp`, from which `BinfmtKilledInMachO`
  follows: no other task is ever killed.
- **ObjectsProofs** (all properties of the `metal_device` and `objects` runs).
  Devices: `MInv` says that until a creation overlaps another call (`Alone`) a
  creating thread finds in the global what it stored, and the global may name a
  freed device only while a release of it is in progress; and that while nothing
  has failed or been released (`Made`) whatever a creation can read back exists.
  Objects: `ObjectsInv` adds
  to the properties how many further blocks an object of each kind has, and that
  an address without an object has none, so that a destruction frees all it
  should; and that the memory of an object is of the type its operations write.

Only model-checked: the two liveness properties (`SomeoneEnters`,
`ExecReturns`), which rest on fairness and are beyond this prover.  The two runs
that expect a violation (`MutualExclusion`, `MachOExecutes`) state what does not
hold; how much of the former does is `LockExclusiveUnlessRaced`.

## 8. What is not modelled

- `LPNUIOServiceProbe`, `Match`, the iterators, `g_serviceRoot` and
  `g_initialized`: constant results, or state that decides nothing.
- IOKit timers, event sources, gates, DMA commands, notifiers and power
  connections: constant handles and constant results.
- The kernel KEXT layer: `lpnu/lpnu_kext.c` stores the helper pointer in an int;
  sequential undefined behaviour in one function.  Kernel VFS and entry files:
  messages and constant results.
- Clients outside the contracts of section 3, where noted there: a lock freed
  under its users, a queue of capacity 0, service calls given a freed service, a
  copy of a kext's info that is kept, library constructors that call the loader.
- What hazards do to those who run into them: a dangling entry of `g_images` or
  `g_serviceList`, a size word that has wrapped, a spoilt list.  The properties
  say who is safe from them and what they leave alone; `PROJECT.json` notes it
  at each.
- Maloader, APFS and HFS+: fetched by the workflows, not in the repository.

## 9. Plan

Done, in this order: the KEXT loader with its abstract registry and proofs, the
image loader, their composition, the lock, the queue, the dictionary, the
service tree, the binary format, Metal devices, and the heap objects; then
careless kext clients, service clients that are not careful, the locked queue
with its proofs, service registration, dictionaries whose arrays are missing,
getters, and the header parser beside the binary format with the proofs of both.

Nothing with state of its own is left to model.

The proofs followed: those of the loaders, the lock, the queue and the binary
format with their models; then the process with both loaders, the dictionary,
the service tree, registration and the heap objects.

What is left to prove is more than the runs ask: that the spin lock implements
an abstract mutex until threads race.  It would go beside the proofs of the
lock.
