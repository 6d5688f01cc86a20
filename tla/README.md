# Formal models of Genshin Impact NX

Genshin Impact NX runs the Android build of a Unity/IL2CPP game on Horizon, the
operating system of the Switch. The game's `libyuanshen.so` is loaded as it is;
`source/` supplies what it expects of Android: a C library, POSIX threads,
signals for its stop-the-world collector, futexes, descriptors, sockets, a looper,
OpenSL ES, JNI, Vulkan. Horizon has none of these, so they are emulated on libnx
with mutexes, condition variables, `threadPause` and polling. The models here
are of those emulations, since their interleavings decide whether the game
runs, hangs or loses data, and a test on a console reaches few of them.

All paths below are relative to `source/`. TLA+ names follow the C names;
`PROJECT.json` maps each definition to the lines it models.

## 1. Inventory

### Components with concurrency of their own

| Part | State | Operations | Correct when |
|---|---|---|---|
| Guest thread registry, `imports.c` 780-1664 | linked `NxGuestThreadRef` records: state, flags `detached`, `reap_claimed`, `reap_failed`, creator and child handshake, borrower count; pooled stacks and their byte count | `pthread_create`, `join`, `detach`, `exit`, `self`; detached reaper; `nx_guest_thread_acquire`/`_release`/`_snapshot` | a borrowed thread stays inspectable; one thread reclaims each record; a stack outlives its thread; exits and reaps complete |
| GC bridge, `libc_shim.c` 9005-9781 | suspension slots, references of the cycle, captured contexts, the four counters and flags inside the game's image | `pthread_kill_gc`, captures, dependency release, resume monitor | the world is stopped during a scan; no thread is stopped inside a protected section; each stop ends |
| Futexes, `libc_shim.c` 340-600 | hashed buckets of waiter records that live on the waiters' stacks | wait, wake, with bitsets and deadlines | what callers see is one queue per address; no wake, change or deadline is lost |
| Descriptors, `fakefd.c`, `libc_shim.c` 1155-1900, `genshin_compat.c`, `imports.c` 1990-2100 | table of fake numbers, aliases on host numbers, reference counts, route stripes, read-ahead windows | `open`, `pipe`, `eventfd`, `dup`, `dup2`, `read`, `write`, `close` | a number means one thing during an operation; exact references; replacement is atomic |
| Resolver, `libc_shim.c` 7960-8492 | job queue, in-flight list, pending count, cache, pool state | `getaddrinfo` with a deadline, workers | each job is freed once; a query is in flight once; no wake-up is lost |
| Pipes and eventfds, `fakefd.c` | ring buffers, counters | read, write, poll | a byte stream with atomic small writes; end of file; no lost wake-up |
| Sockets and poll, `libc_shim.c` 5378-5760, 7057-7388 | progress record per socket number, with a generation | receive, `dup`, `close`, `poll` with probes | data that stays queued is reported although Horizon loses notifications |
| Epoll, `genshin_compat.c` 258-570 | sets of registrations with generations | create, ctl, wait, close; `nx_epoll_forget_fd` | an event belongs to the description that was registered |
| File mappings, `libc_shim.c` 4300-4775 | fallback table, cache of read-only mappings, list of shared mappings | `mmap` of a file, `msync`, `munmap` | each mapping is backed; stores reach the file; nothing leaks |
| File sizes, `genshin_compat.c` 718-1118 | records with the size the game sees and the size on disk | open, write, truncate, size, close | the game's size is true; a preallocated tail is cut off |
| Asset pack, `asset_pack.c` | handles with pins and a closing mark, open files with positions; the pair of files on the card | open, `dup`, `dup2`, seek, read, close; build and install | a pinned handle keeps its file; nobody waits for ever; a complete release survives a power cut |
| Looper and window, `android_native_unity.c` | loopers with generations, registered descriptors, wake flag; sizes requested, applied and outdated | `pollOnce`, `addFd`, `removeFd`, `wake`, `forget_fd`; geometry transactions | no wake is missed, no later registration is taken away; no change of size is forgotten |
| Audio, `opensles.c` | players with reference counts, buffer queues, one audio callback | create, destroy, enqueue, play state, mix, shutdown | no player is mixed after it was freed; each buffer is consumed once |
| Memory arenas, `libc_shim.c` 2060-4241 | free extents, segments, sparse reservations, donor heap, Unity slab | `mmap`, `munmap`, `madvise`, `mprotect`, stacks | extents are disjoint and their backing is mapped once; failures roll back |
| Memory broker, `memory_broker.c`, `sbrk_extend.c`, `imports.c` 77-205 | owner of each block | the `malloc` families of host and guest | a block goes back to the allocator it came from |
| Thread-local keys, pthread storage, semaphores, `imports.c` 221-760, 1690-1810, `libc_shim.c` 8780-9003 | key generations, host objects behind zeroed storage, contended mark of a semaphore | key create/delete/set/get, lazy initialisation, timed waits | no value of a deleted key is seen; one host object per storage; no token beside a sleeper |
| Plug-in loader, `plugin_loader.c`, `so_util.c` | module entries and their state, image arena | `dlopen`, `dlsym`, recursive dependencies | a module that runs has its imports in images that run |
| JNI references, `jni_fake.c` | owner counts, tables of local and global references, messages | references, frames, arrays, exceptions, messages | a value lives as long as a reference that JNI promises |
| Account bridge, `combo_bridge.c`, `combo_auth.c` | queue of answers with pending slots; phase, secrets and prompts of a login | invoke, drain, one step per frame, captcha server | each accepted attempt gets one answer; a step has what it needs |
| Session store, `combo_session.c` | session file, temporary and legacy file | save, load, invalidate | the session survives a crash between two steps of a save (but see finding 13) |
| Lifecycle, `main.c` | start-up data, focus, surface, frame loop | prepare data, frame, shutdown | answers reach Unity only while it is active; the game runs on complete data |

### Parts without interesting control

JSON parsing, cryptography, JNI method tables, Vulkan pass-through, device identity,
path translation, import tables, diagnostics, fault capture: they are sequential
conversions or tables (see `components` in `PROJECT.json`).

### How they interact

* The GC bridge borrows records of the thread registry for a cycle, pauses their
  native threads, and wakes the game's GC service through the futex emulation. A
  thread's exit waits for its borrowers.
* `g_mmap_lock` is taken inside a GC-critical section (`mmap_broker_lock`), which
  makes a capture wait; other locks have no such section.
* Every descriptor call goes through the route stripes first, then to `fakefd`,
  the asset pack, epoll or the host; `close` and `dup2` also drop read-ahead
  windows and looper registrations.
* The resolver, the audio callback, the captcha server, the JNI handler, the GC monitor
  and the reaper are threads of the wrapper and are not in the registry of guest threads.
* The broker takes blocks, and thread creation takes stacks, from the arena; file
  mappings take memory of the small arena or of the heap.
* The frame loop runs everything else on the main thread: it enters Unity, drains the
  queue of answers after a render and takes one step of a login per frame.

### What is hard

Check-then-act around `threadPause`; acknowledgement counters shared with code
that is not in this repository; condition variables shared by threads that wait
for different things; locks given up in the middle of a `dup2`; sleeps cut into
slices; references that must outlive failed kernel calls; numbers, slots and storage that
are used again while somebody still holds them; roll-backs whose own calls fail; calls
into the guest that call back; power that goes between two renames. `hazards` in
`PROJECT.json` lists them at their lines with the properties that watch them.

## 2. Modules

| Module | Models | Step |
|---|---|---|
| `GuestThreads` | thread registry | a critical section of `guest_thread_lock`, or a call of the host's pthreads |
| `GuestThreads_proofs` | theorems about it | |
| `GcBridge` | GC bridge, with the game's collector and the kernel's pause as its environment | a critical section of `gc_suspend_lock`, a kernel call, or a read of a shared flag |
| `GcBridge_proofs` | theorems about it | |
| `FutexSpec` | what the futex system call promises: one line of waiters per address | a system call's visible effect |
| `Futex` | the emulation: buckets, records on stacks, slices | a critical section of a bucket lock |
| `Descriptors` | fake descriptors, aliases, stripes, windows | a critical section of a stripe, `g_lock` or `g_ra_lock`, or a host call |
| `Descriptors_proofs` | theorems about its stripes, numbers, windows, references and reservations | |
| `Resolver` | `getaddrinfo` with deadlines | a critical section of the queue's or job's lock, or a host call |
| `Resolver_proofs` | theorems about it | |
| `ByteStream` | what a pipe promises: bytes in order, small writes whole, truthful ends | a call's visible effect |
| `FakePipe` | the ring buffer of a pipe, its two ends, a `poll` of each | a critical section of `g_lock` |
| `FakePipe_proofs` | theorems about it, and the proof that it implements `ByteStream` | |
| `Arena` | page map, extents, segments, sparse pool, donor heap, slab | a section under `mmap_broker_lock` with the answers of its kernel calls |
| `MemoryBroker` | which allocator owns a block | one call of the `malloc` families |
| `FileMaps` | mappings of files | a critical section of one of the tables, or a read or write of the file |
| `PthreadStorage` | host objects behind guest mutexes, conditions and rwlocks | a critical section of the storage lock, or an access outside it |
| `ThreadKeys` | keys of thread-local storage | a call, or one slot of a destructor pass |
| `Semaphores` | bionic semaphores | a section of `g_sem_lock` up to its wait |
| `Epoll` | epoll on top of poll | a section of `nx_epoll_mutex`, or a poll |
| `NetworkPoll` | socket progress records and `poll` with probes, in ticks | a critical section of the tracker, or a host call |
| `AssetPack` | descriptors of the asset pack | a section of the handle lock, or a native call |
| `FileSizes` | logical and physical sizes of files | a section of the registry's or a record's lock, or a `SetSize` |
| `GameData` | extracted files, pack and metadata on the card | one change of the card |
| `SessionStore` | saved login on the card | one change of the card |
| `Looper` | loopers and `ALooper_pollOnce` | a section of `g_loopers_lock` |
| `WindowGeometry` | size of the native window | a section of the state lock, or the calls on the window |
| `AudioPlayers` | OpenSL ES players and the mixer | a section of `p->lock` or `g_reg_lock` |
| `PluginLoader` | `dlopen` on a stack of loads | a step between two calls into other code |
| `JniReferences` | owners of Java values | a call of the JNI, or the part of it inside or outside the lock |
| `CallbackQueue` | answers to managed invokes, and the stack of the main thread | an invoke, the begin or end of a `UnitySendMessage` |
| `LoginFlow` | extends it with the login of `combo_auth.c` | a handler of one phase, or a step of the captcha server |
| `FrameLoop` | extends it with the loop of `main.c` | the loop up to its next call into the guest |
| `ThreadServices_proofs` | theorems about `ThreadKeys`, `PthreadStorage`, `Semaphores`, `Futex` and `JniReferences` | |
| `EventServices_proofs` | theorems about `WindowGeometry`, `Looper`, `Epoll`, `AudioPlayers`, `FrameLoop` and `NetworkPoll` | |
| `DataServices_proofs` | theorems about `SessionStore`, `MemoryBroker`, `FileMaps`, `FileSizes`, `GameData`, `AssetPack`, `PluginLoader` and `Arena` | |
| `MCServices` | `Resolver` and the models from `Arena` to `FrameLoop`, side by side | a step of the one that `part` names |
| other `MC*` | values of the constants for TLC | |

**GuestThreads.** `pc[a]` is where thread `a` is inside the calls of the module;
`"guest"` is code of the game. Counts are sets of their holders: `borrowers[t]`
is the set whose size is `ref->borrowers`. Creation keeps both handshakes: the
child waits for `creator_published` and the creator for `child_ready`. A
`pthread_t` is never reused, since libnx may reuse one only after the record
has been removed.

**GcBridge.** `at[w]` says where the collector and the monitor are. A slot is
named by its target. `slot` keeps the values of `active` by name: `capturing`,
`stopped` (2), `releasing` and `abort`; a capture is check, pause, second
check, dump, commit, with the undo of each. The collector is external: it sends
a `pthread_kill` to each target, waits for `suspend_ack`, gives the service thread
a job, sets `resume_flag`, waits for `resume_ack`, as the comment at
`g_il2cpp_base` describes. Mutators enter and leave GC-critical sections and
contend for `g_mmap_lock`.

**Futex.** A waiter's record is `waiter[t]`. A bucket is the set of threads whose record
is linked in it, and `ahead[t]` is the set of records in front of `t`'s: the order of the list,
in a form that needs no walk along it. The 50 ms sleep is the time between two steps of `t`: each
of the ways out (woken, changed word, deadline, interrupted, clock error) is an action.
`FutexSpec` has a `line` per address and its order `before`; `ImplementsPromise` instantiates it
with the waiters of a bucket that have that address (`SameAddress`). The specification lets a wait
return for any of its reasons only when that reason holds.

**Descriptors.** `call[t]` is the continuation of a thread inside `close`, `dup2`,
`read` or `write`. The 128 stripes are a set with an owner, a `replacing` mark and
the set of tickets whose sequence is still valid. What a description carries is
reduced to whether it has something to read.

**Resolver.** A job's memory is one of `MaxPending` cells, free when its query is
`None`, so a use after a free or a leak shows as a wrong owner. The queue
condition variable is one set of sleepers of three kinds, and
`condvarWakeOne` takes any of them.

**FakePipe.** `buf` is the allocated array, a function on `0..capacity-1`; a byte is
its writer and position, or `None` for memory that nobody has written. `call[t]` is a
read or write between `fakefd_operation_acquire` and `_release`, with what it has
`wrote` and its answer; `refs[e]` is `FakeOpen.refs`, and 0 says `readers` or `writers`
is 0. `condvarWait` is membership of `asleep`, which every broadcast of `g_cond` empties.
A write that is longer than the room leaves a piece and sleeps within the same hold of
the lock, so both are one step. `poll_fake` looks in one critical section and sleeps in
another; only the end of its slice (`SliceEnds`) makes up for a broadcast between the two.
The route stripes above `fakefd` are left out, so calls meet in more orders than they
do through `nx_read` and `nx_write`. `Stream` reads the ring from `head` and
instantiates `ByteStream`, to which the ring, its size and all sleeping are invisible.

**Arena.** Pages, segments and granules keep their ratios at a small size. A *place* is
what one kernel mapping covers (a segment, a granule or a slab chunk), and `backing` maps
each mapped place to its donor units. `MapAll` maps several places from low to high addresses; what
each finds follows from the places below it (`MapInOrder`). It may be refused half-way, with the
undo of the code (`MapNothing`); an unmap may be refused too, and then the place stays accounted
(`stuck`). `oc_donor_try_shrink_locked` after each release may be refused. Only
`nx_alias_memory_arenas_prepare` works outside the lock, in three steps.

**MemoryBroker.** A block knows where it lies (newlib, an extension of newlib inside the pool,
the pool, a thread's stack) and which size its owner asked for. `inside` says that the
caller owns `g_mmap_lock` or is in the broker already, when the pool neither serves nor
answers. Each of the four reasons why a freed block stays allocated is kept in `why`.

**FileMaps.** `memory[p]` says whether a place is mapped and with which bytes;
`mapStep[t]` walks through `mmap_fake` (cache, allocation, read, registration) and
`munmap_fake` (retire, write back, give back). Tables that are full and reads that fail
take their exits.

**PthreadStorage, ThreadKeys, Semaphores.** In the first, `raw` is the word in the guest's
memory and `bound` the registry; recycled memory holds any bytes, and the program must
not destroy what is in use. In the second a key is named by its slot and the number of
its birth, so that a value knows for which key it was set. Generations wrap in the code after 2^32 keys
of one slot, and a value that survives them all would be seen again: the model stops short of that. In the third
the set `asleepOn` of `condvarWait` is shared by all semaphores.

**Epoll, NetworkPoll.** In both, a number and the description behind it are different things.
`Epoll` polls a copy of the registrations without the lock; `meant` is the description that
the registering caller saw. `NetworkPoll` counts ticks: a notification that follows an
earlier receive may be lost (`missed`), and `late` is how long data has been waiting
while a poll could have seen it. `proved` is a history: the call began on a number through which
bytes were received. `Doubted` ends it when the number is closed under the call, even if it is
opened for the same stream again, and when a late receive of another stream is credited to this one
(finding 9). With two threads and two sockets neither makes a difference; with three they do,
so the promise without them was false.

**AssetPack, GameData.** In the first, `doing[t]` is the rest of a call, `pins` the users of a
handle; the condition variable is a guard, since it is broadcast on every change that a
waiter looks at. In the second each step is one change of the card, and `Stop` may come
after any: `start` begins anew and sees what is left.

**FileSizes.** `truth` is a history of the game's calls alone, whatever the records say: a write that is granted its
room makes it reach to the write's end, a truncation and an open set it, and a refused extension leaves it alone. The
code's cut-back of the logical size (`CutBack`) goes to what is on disk, preallocated tail included, so
that after such a refusal the size that the game sees may be larger (finding 12). The history `refused` marks
these files until an extension is granted again, and `SizesTrue` then promises bounds only.

**SessionStore.** `stored` is the newest version whose store succeeded, `tried` the newest that was given to it;
`Crash` may come between any two file operations, and every rename and unlink may fail. A load
takes the file of the older release whenever the current one is missing, as `combo_session_load` does,
so an old session can come back. Two histories mark when: `gap`, a replacement has unlinked the
current session and none has been stored since (finding 13), and `cut`, an invalidation was cut short or refused
an unlink. `SessionSound` is exact otherwise, and bounds what is found after a gap.

**Looper, WindowGeometry, AudioPlayers.** A registration of a looper is known by its
generation, and `wanted` is the history of what the game registered and did not take
back. A geometry transaction is read, apply, record, and a roll-back that applies again.
The audio thread pins a snapshot of the players, and gives up the player's lock around
each callback, where any call of the game may come, the destruction of that player too.

**PluginLoader.** `calls` is the stack of `dlopen`, of dependencies, constructors and
`JNI_OnLoad` that one thread is in; `plugin` is the table of entries, in the states of
the code. A discarded image gives its place in the arena back only if it was the last. A dependency
is the address of an entry, as in the code, and means whatever image that entry holds by now, also after a
cached failure has been given to another library. An image is an entry with a serial number, which only
histories use: `bound` are the images in which imports were resolved, and `around` those whose own load was
under way when this one began. `PluginsSound` promises that what runs has its imports in
images that run, and lists only entries that hold such images. The exception is an image in `around`: a
library that is loaded on behalf of another and needs that other one finds it in the list, unfinished, and keeps
its imports and the entry's address if the outer load fails (finding 14). The exception names images, not
entries: a failure touches nothing that was placed outside the load that failed.

**JniReferences.** `owners[v]` is the count in a value's header. `promised[t]` is a history
of what JNI lets the guest rely on, frame by frame; the code cannot tell two references to one value
apart, and the history can. `free_ref` goes down a chain of fields; a release is modelled by what it
leaves, the least set of values that lose all their owners (`Released`). `ReleaseDetermined` proves that
there is exactly one such outcome, whatever the fields are.

**CallbackQueue, LoginFlow, FrameLoop.** One thread, whose stack `frames` is explicit: a call of the loop
into Unity at the bottom, drains and managed code above it. A phase of a login runs between two frames; its
RUNNING phase shows only while the captcha worker serves its page. `held` is the set of buffers and flags
that are filled, and what the services answer is a choice among the answers that the code tells apart.
`owed` is a history: the logins that were accepted, less those that ended while the queue was full. No guard
looks at it; `AttemptAnswered` compares it with what is in the queue (`Queued`) and with what Unity has or
is being given (`Sent`), so an end that queues nothing shows, failed, cancelled or successful.

## 3. Runs

| Run | Instance | Question |
|---|---|---|
| `threads` | 2 created threads, main, 1 borrower | safety of creation, exit, join, detach, reaping; exits and reaps complete |
| `threads_snapshot` | the same | finding 1 |
| `gc` | service thread and 1 mutator, 2 cycles, 2 kernel failures, 2 attempts, 1 protected section | stops, failures and the references between two cycles |
| `gc_live` | service thread and 2 mutators, 1 cycle, 1 failure | the world is stopped in a scan; each stop ends |
| `gc_stale_flag` | 2 cycles without failures | finding 2 |
| `gc_broker` | with a thread in the diagnostics | finding 3 |
| `futex` | 2 threads, 2 words in one bucket, 2 bits, words 0..1 | refinement of `FutexSpec`; progress |
| `descriptors` | 2 threads, 1 description, 2 files, numbers 0..2 and 10..11, 2 stripes | exactness and atomicity through `dup2`, `close`, operations, windows |
| `descriptors_blocking` | with blocking descriptions | finding 4 |
| `descriptors_race` | with opens in the window of a `dup2` | finding 5 |
| `services` | nineteen parts, see below | does each keep what its module promises? |
| `pipe` | 1 writer, 1 reader, ring of 2 or 4 bytes, writes up to 3 of which 2 are atomic, reads up to 2 | refinement of `ByteStream`; wake-ups; `poll` |

`services` explores each part from its own first state. The parts share no state, in the
code either, and `part` never changes: the state spaces add up instead of multiplying, and
`VIEW Moving` keeps only the variables of the part that runs. `MCServices` extends the parts, whose
properties hold in their first states too.

| Part | Instance | Property |
|---|---|---|
| resolver | 2 callers, 2 workers, 2 queries, 2 jobs | `JobsAccounted` (type, owners, limit, coalescing), `NoLostWakeup` |
| arena | 8 pages, segments of 4, granules of 2, 4 donor units, 2 allocations, 2 starters | `ArenaSound` |
| storage | 2 threads, a mutex and a rwlock, 3 host objects | `OneHostPerObject` |
| keys | 1 thread, 2 slots, 3 births each, 4 generations, 2 passes | `ValuesBelongToTheirKey` |
| semaphores | 3 threads, 2 semaphores, counts to 2 | `SleeperIsMarked` |
| audio | 2 players, rings of 2, 2 buffers between clears, 2 devices | `AudioSound` |
| looper | 1 slot, prepared again after a release or a takeover (generations to 4), 2 threads, 2 descriptors, 2 registrations | `LooperSound` |
| window | 2 modes, 2 requests, 5 generations | `GeometrySettled` |
| sizes | a bulk and a plain file, 2 threads, 1 record, extents of 3 from size 2 on, sizes to 4 | `SizesTrue` |
| session | 3 versions of which 1 is the older release's, any crash or failed call | `SessionSound` |
| frames | 3 indices, queue of 2, 3 pending slots, 4 kinds of invoke, nesting of 2 | `FramesSound` |
| epoll | 2 threads, 2 numbers, 1 slot, 2 descriptions | `EventsOfTheirFd` |
| network | 2 threads of which 1 polls, 2 numbers, 2 sockets | `QueuedDataIsSeen` |
| broker | 2 blocks, 3 sizes, pool of 4 pages, 1 extension | `BlocksKept` |
| plugins | 5 libraries with a cycle and a missing one, 3 entries, 4 loads | `PluginsSound` |
| files | 2 threads, 1 file, 1 arena and 2 heap places, 1 shared mapping | `MappingsSound` |
| data | 3 files, 2 metadata files, 3 releases for 2 clients, 3 packs, any power cut | `AssetsSound` |
| pack | 3 threads, 3 numbers, 2 handles, 2 open files | `PackSound` |
| jni | 1 thread and the handler thread, 2 values, 2 local references, 2 frames | `JniSound` |

Several invariants of a module are checked as one where a reader would want them
together: `CyclesClean` (type, `RefsOutlivePauses`, `IdleIsClean`), `AliasesExact` (type,
`RefsExact`, `AliasReserved`), `NumbersKept` (`OpKeepsTarget`, `Dup2Installs`),
`UnwokenWaitsEnd` (`ChangeObserved`, `DeadlineKept`), `TeardownEnds` (`ExitCompletes`,
`DetachedReaped`), and those of the table above. `TypeOK` of `GuestThreads` and `FakePipe`
is proved and not run.

**Bounds and why they are enough.** A race in the registry has two contenders for a
third party's record: two created threads and main give a joiner, a detacher and a
target, in both roles, and the reaper is a third contender. The bridge keeps one slot per target and never relates two
targets but through the counters, so two targets show each order of capture and
release; a second cycle shows what the first one left behind; two failures hit a
resume and its retry. Two words in one bucket are the collision; two bits give
disjoint, equal and containing sets; two threads let a waker meet a waiter, and
both wait at once. Two threads and two stripes give `dup2` in opposite directions, on one
stripe and across two; three host numbers leave room for a source, a target and the
holder of an alias. A ring of two or four bytes
wraps, grows and shrinks with bytes in it; writes of three come in pieces and those of two
do not; reads of up to two leave part of a write behind. The code's capacities are 4096 to 1 MiB in
steps of 4096. `nx_read` and `nx_write` hold the stripe of their number, so one writer and
one reader are what a number meets; the proofs take any number.

In `services`, two callers of the resolver meet a job each of two workers, or one job of the same query, and
fill the limit. Eight pages hold two segments with an allocation inside one and across both, and four
granules; four donor units are fewer than both pools want, so that the donor runs dry, grows and shrinks.
One looper slot with generations to 4 is prepared for one thread, given up and prepared for the other, while
cookies and polls of the first are still about; that is the reuse the generations are for, and so are three
births in a slot and two descriptions behind one number. Extents of 3 from size 2 on leave a tail on disk
behind sizes 1 to 4 that a second extension has to pass, so that its refusal finds a tail. A queue of 2
answers is full with one login's end still to come, and takes two ends in any order. Two players in a full
registry and rings of two show a full queue, a reused block and a mixer that pins one player while the other
goes. Three files in `GameData` are one that marks a staging set, one that is required and one that is
neither; two releases for one client make stale metadata. Five libraries are a cycle of two, a third that
needs one of these and imports a symbol of a library that nobody needs, and one that is missing; with three
entries the registry is full after the cycle and one more, and a failed entry is used again while its
address is still among somebody's dependencies. Three packed threads are two that cross and one whose use
both wait for. Two Java values make a field and its owner; two entries of a table are two references to one
value.

`MaxCycles`, `MaxFaults`, `MaxAttempts`, `MaxSections`, `MaxWord`, `MaxAliases`,
`MaxPending`, `MaxSize` and `MaxRead`, and in `services` `MaxDynamic`, `Touched`, `MaxBirths`, `MaxCount`, `MaxBuffers`,
`MaxRegs`, `MaxWakes`, `MaxLives`, `MaxRefs`, `MaxGen`, `MaxSockets`, `MaxDepth`, `MaxObjects`, `MaxStamp`, `MaxExtensions`,
`MaxLoads`, `MaxStores`, `MaxPacks` and `MaxQueue` are the bounds; `MaxAttempts`, `MaxAliases`, `MaxPending`,
`MaxSteps`, `MaxExtensions`, the capacities and the sizes are constants of the code with smaller values.

Symmetry is used in `descriptors*`, which check invariants only. The views of five parts forget
what nothing reads or tells apart: which caller or worker of the resolver, which thread of a looper and
which packed thread is in which call (`Moving`, `PackView`), which callback index is which,
beside what is recorded of it, and the index and method of a login that is over (`FrameView`), and, after
the arena is in use, which starter lost the race for it (`Builders`). Threads and indices are alike there: no
step compares two of them or picks one by its value.

**Deadlock.** `futex`, `descriptors*`, `services` and `pipe` check that some step is
always possible. The parts keys, looper, epoll, broker, plugins and data stop where a bound
on births, lives, stamps, extensions, loads or packs is spent; `BoundsSpent` is the
stutter that stands for it. The bounded runs of `GcBridge` and the runs of `GuestThreads`,
where all threads may end, stop legally.

**Fairness.** `GuestThreads`: the scheduler runs each thread that can run, and a
holder of a reference gives it back, as collections and captures do; the game
need not create, join, detach or exit. `GcBridge`: threads that the kernel lets
run do run, protected sections end, and the collector finishes the protocol it
began; a mutator enters a bounded number of protected sections, since with
unboundedly many a capture could be deferred for ever, which the code accepts.
`Futex`: a slice ends and a deadline passes; nobody is obliged to store or wake.
`FakePipe`: a poll that can run does, and its slice ends; nobody is obliged to read, write
or close.
`Descriptors` and the parts of `services` state safety only. Where waiting is the
hazard, the invariant says it: `StripesAccounted`, `NoLostWakeup`, `SleeperIsMarked`,
`LooperSound` and `PackSound` say that nobody waits for a mark, a wake-up or a thread that will not
come, and `QueuedDataIsSeen` puts a bound on a wait. A blocked host call may last for ever.

**Assumptions about the environment.** In `Descriptors` no program closes or replaces a
number that it has not been given, and the host's `close` of an open number
succeeds. `WindowRaces` and `Blocking` are switched on only in the runs of findings 4
and 5, since each breaks the other properties by itself: `descriptors` shows that
nothing else does. `gc_live` runs one cycle: with two, the stale flag of finding 2
breaks `WorldStopped`.

In `services`: a program destroys a mutex, deletes a key or closes a looper's thread only
when no call uses it, as POSIX and the NDK ask. `Epoll` marks a registration that raced with the
close of its own number (`raced`) and promises nothing for it.
In `AssetPack` a thread does not name as the target of a `dup2` a number that another
thread is just being given. In `FileSizes` a file is open under one number, and appends to bulk
files are left out (finding 8). `FileMaps` has one shared mapping at a time (finding 10), each thread one
mapping. `AssetsSound` leaves out a removal that was interrupted
(`half`, finding 11). `NetworkPoll` polls from one of its threads; a late receive
credits a recycled number, as in the code (finding 9). `JniReferences` has one calling thread beside the handler thread;
the tables of locals belong to their threads, so what two threads share is the global
table and the queue. Horizon's file system renames onto no existing file in `GameData`, and may or
may not in `SessionStore`, whose code tries it first.

## 4. Findings

1. **A joined thread is missing from a collection** (`imports.c:1034`). `nx_guest_thread_snapshot`
   skips claimed records, and `pthread_join` claims its target before it blocks, while the
   target still runs guest code.
2. **A resume flag read in the previous stop** (`libc_shim.c:9623`). The monitor
   keeps draining slots on one reading of `resume_flag`; a slot of the next stop is
   released and acknowledged.
3. **A stopped owner of `g_mmap_lock`** (`libc_shim.c:3744`). The diagnostics leave
   the critical section right after `mutexTryLock`.
4. **Blocking I/O under a stripe** (`genshin_compat.c:1354`). A read that waits for an
   eventfd or a pipe keeps the stripe's mutex that a write to the same number needs.
5. **A `dup2` that is not atomic** (`fakefd.c:301`). The target is closed on the host
   before it is replaced, and an open in another thread can be given its number.


Nine more have no run of their own. The models state the code as it is, and the
properties say what holds in spite of it:

6. **Blocks of newlib that nobody frees** (`memory_broker.c:265`). An extension of the heap lies in the
   sparse pool, and `__wrap_free` returns early for every address of the pool.
7. **A drain without a render** (`unity_jni.c:1167`). `login_switch_role` sets the render flag and drains.
8. **An append past the preallocated tail** (`genshin_compat.c:1291`). `O_APPEND` takes its offset from the
   size on disk.
9. **A late receive credits a recycled number** (`libc_shim.c:6240`). The record's generation is not looked
   at.
10. **A write-back of bytes that nobody stored** (`libc_shim.c:4385`). The whole range of a shared mapping goes
    to the file.
11. **A remainder that hides a complete pack** (`main.c:737`). Files left by an interrupted removal count as a
    new staging set.
12. **A refused extension that grows the file** (`genshin_compat.c:996`). The size is cut back to the size on disk, which
    includes the preallocated tail: the write answers `EIO`, and the game's file ends where the tail does.
13. **A session lost in its replacement** (`combo_session.c:160`). The current file is unlinked before the second
    rename. If that fails too, or the power goes, no session is left, or the one of the older release is loaded again.
14. **Imports in a discarded image** (`plugin_loader.c:399`). A dependency that was loaded for a library and has its
    imports in it stays ready when that library's load fails, and its dependency is the address of an entry that
    another library may get.

The exact lines and the comments they disagree with are in `PROJECT.json`.

## 5. Proofs

`GuestThreads_proofs` proves, for any sets of threads, hosts and borrowers:

| Theorem | Property |
|---|---|
| `TypeCorrect` | `TypeOK` (proved only) |
| `BorrowSafety` | `BorrowedThreadRuns`: a borrowed record is linked and its native thread runs |
| `ReclaimSafety` | `OneReclaimer`: no two threads tear one thread down |
| `StackSafety` | `StackOutlivesThread`: stack and record go after the host's join |
| `AccountingCorrect` | `StackAccounting`: the byte count equals the created and unreclaimed threads |

Assumptions: `ThreadAssumption` (threads, hosts, reaper and `None` are different
things) and, for the accounting, `FiniteThreads`. None of the four invariants is
inductive. `IInv` adds what they rest on: `Targeted` (a call in progress knows its
thread), `Lifecycle` (how record, handshake and native thread advance together),
`Creation` (a creator's child cannot run guest code or be joined before it is published)
and `Teardown` (where a reclaimer is tells what has been joined and unlinked, and
that the claim is held throughout). `Step` proves that each action keeps `IInv`;
the theorems follow with temporal logic. The accounting has its own step on top
of `IInv`, with the cardinality of the counted set.

`FakePipe_proofs` proves, for any sets of writers and readers, sizes and capacities:

| Theorem | Property |
|---|---|
| `TypeCorrect` | `TypeOK` (proved only) |
| `WakeupSafety` | `NoMissedWakeup`: no blocked call sleeps while it could go on or fail |
| `StreamRefinement` | `ImplementsStream`: the ring implements the byte stream |

Assumption: `PipeAssumption` (writers and readers are different threads and finitely many;
the largest capacity is a multiple of the atomic size, as 1 MiB is of 4096). The inductive
`IInv` adds to the two invariants `References` (`refs` counts the open number and the calls of
an end, so no end is gone under a call), `CallShape` (how far a pending call has come: an atomic
write has not begun), `EmptyWhenGone` (the buffer is freed with both ends, so a new pipe starts
empty) and `OneCall` (a thread is in one call, and sleeps in one). The wake-ups rest on
`BlockedIsStuck`: a sleeper is stuck, and a step that would free a stuck call empties
`asleep`. The refinement rests on three lemmas about a ring with any head, length and
capacity, whose arithmetic is proved first: `BytesPut` (both `memcpy` append), `BytesTake`
(a read removes a prefix) and `BytesMove` (a new size keeps the bytes). `StepMaps` then maps each
action to a step of `ByteStream` or a stutter.

`GcBridge_proofs` proves, for any mutators, cycles and attempts and any failures of the kernel:

| Theorem | Property |
|---|---|
| `TypeCorrect` | `TypeOK`, a part of `CyclesClean` |
| `StopSafety` | `StoppedNotProtected`: no thread stays stopped in a GC-critical section or with the lock taken in one |
| `ReferenceSafety` | `RefsOutlivePauses`, a part of `CyclesClean`: a cycle's references stay while one of its threads is paused |
| `SlotExclusion` | the collector and the monitor never work on one slot at once (proved only) |
| `CycleSafety` | `CyclesClean`: a collection ends with every target running and nothing of it left |
| `FirstStopSafety` | `WorldStopped` in the first collection, `cycles <= 1` |

Assumption: `MutatorAssumption`. `IInv` adds to the properties `OwnerHolds` (the owner of
`g_mmap_lock` is in a critical section), `Reserved` (while an agent works on a slot the slot is in
the state that reserves it for that step, so the other agent's guards fail), `StillRuns` (before
its pause and after its release a thread runs) and `PausesKnown` (a paused thread has a slot that
says it must be resumed, and the cycle refers to every thread with a slot). The step that needs
them is the commit: the second look at the thread's `gc_critical` count comes after the pause, so
what it sees cannot change any more.

`CyclesClean` rests on what the guest compares. `Counts` says that `resume_ack` is the number of
targets whose slot is free again and `suspend_ack` that of the committed ones, up to the one that
an agent has yet to count. When the last `resume_ack` is seen no slot is left and nothing waits to
be counted, so the monitor is between two targets (`LastAck`). `Books` has what else this needs: a
target is signalled once per stop (`Targets`), a slot that becomes free has no context and no
thread to resume (`Leftovers`), the last slot takes the cycle with it (`References`), and an idle
collector has left the monitor nothing to do (`Places`). `FInv` does the same for the scan of the
first collection: before `resume_flag` is set the monitor drains nothing, so whoever is committed
stays paused with its context. From the second collection on the monitor may still be draining on
the old flag when a stop begins: the finding of `gc_stale_flag`.

`Resolver_proofs` proves, for any callers, workers, queries and limit:

| Theorem | Property |
|---|---|
| `TypeCorrect` | `TypeOK` (proved only) |
| `JobSafety` | `JobsAccounted`: a job is freed once by its last holder, the limit counts what is pending, a query is in flight once |
| `WakeupSafety` | `NoLostWakeup`: the single wake-up of a new job reaches a worker whenever all of them sleep |

Assumption: `ResolverAssumption` (callers and workers are different threads and finitely many).
`IInv` is `Shape`, `PoolStarts` (one caller starts the workers), `OneHolder`, `Flying` (what is in
flight is in the queue or with a worker) and `Lives`: a job that is allocated is held by its
caller, by the queue or a worker, or by both, and who frees it is the last. `WInv` gives the
wake-ups: a caller that sleeps for a coalesced query knows that this query's worker is awake or
will be woken, so of all sleepers of `g_resolver_queue_cond` the one that `condvarWakeOne` picks
is a worker when no worker is awake (`WorkerWakes`). The count needs the cardinality of the jobs
and reservations, step by step (`PendingCount`).

`Descriptors_proofs` proves, for any threads, numbers, descriptions and assignment of stripes:

| Theorem | Property |
|---|---|
| `StripeSafety` | `StripesAccounted`: each lock and mark of a stripe belongs to one call that takes it back |
| `StripesApart` | no call uses a number whose stripe a close or dup2 has marked (proved only) |

Assumption: `DescriptorAssumption`. `IInv` is `Shape` (types, and which calls have which numbers),
`Marks` (a mark is one replacement's), `Locks` (a lock is held where its holder is) and `Apart`.
A call that waits for a mark has let go of both stripes, so the marks need no order.

Its second part proves, for the same constants:

| Theorem | Property |
|---|---|
| `NumberSafety` | `NumbersKept`: a call works on the description its number denoted, and a dup2 installs what it pinned |
| `AliasSafety` | `AliasReserved`, a part of `AliasesExact`: an alias sits on a reserved native number |

Both assume `~WindowRaces`: the host does not give out a number between a dup2's close of it and
the move of the holder to it; the run `descriptors_race` shows what comes of it otherwise.
The stripes alone are not enough, as a dup2 lets go of them and holds
numbers that no stripe covers. `NInv` adds to `IInv` that the duplicate and the holder of a dup2
are open, denote what was pinned and are known to this call only (`Pinned`, `Owned`), that a number
has no alias while its native side is closed or moved (`Vacant`), and that a number has one
alias, on a reservation that is nobody's private number (`Aliases`). `StepKeeps` reduces each step
to its own call: a step changes numbers that are vacant, its own or the one that it replaces
(`Foot`), and `StripesApart` keeps the others off the latter.

Its third part proves, under the same assumption:

| Theorem | Property |
|---|---|
| `WindowSafety` | `WindowReadsItsFile`: a window refills from the file it was opened for |
| `RefsSafety` | `RefsExact`, a part of `AliasesExact`: the count of a description is the number of those that refer to it |
| `TableSafety` | `AliasesExact`: types, counts and aliases together |

`Windows` says that a window is over the file it was opened for, that a number about to be
replaced and a private one have none, and that the number of an open that has not returned is
nobody else's; by `Foot` the file under a number changes only where it is vacant, private or being
replaced, and a refill holds `g_ra_lock`. `Refs` is the count itself: `RefsMove` reduces each step
to the one high number, the one alias and the one call that it changes (`OneChange`, on the
cardinality of finite sets). `Reservations` finds the owner of each reservation of the host: an alias, a
holder, or a call between the two. A dup2 therefore never pins a reservation, as it would have to
be on a stripe that it has not marked. The tables are finite in `DescriptorAssumption` for the counts.

`ThreadServices_proofs` proves, for any threads, slots, objects, semaphores, addresses, bits and values:

| Theorem | Property | Assumptions |
|---|---|---|
| `KeySafety` | `ValuesBelongToTheirKey`: a key gives back only what was stored through it | `KeyAssumption`: slots are numbered, and no slot has as many keys as there are generations |
| `StorageSafety` | `OneHostPerObject`: one host object per guest object, and none lost | `StorageAssumption`: the values of a word are told apart |
| `SleeperSafety` | `SleeperIsMarked`: whoever sleeps has left the mark -1, so the next post wakes everybody | `SemAssumption`: 0 is no semaphore |
| `QueueSafety` | `QueueIntegrity`: a record is in its bucket exactly while its thread waits and nobody has woken it | `FutexAssumption`: the bound of words is a number, `None` is no record |
| `FutexRefinement` | `ImplementsPromise`: the buckets implement one line of waiters per address | the same |
| `JniSafety` | `JniSound`: a value has the owners that its count says, and a frame keeps what JNI promises | `JniAssumption`: threads and values are finitely many, values are positive, `MaxLocals` is a number |
| `ReleaseDetermined` | a release has exactly one outcome, cycles of fields included (proved only) | the same |

The keys rest on `generation = births`, and on `Stores`: a `setspecific` that has read its slot
stores the pair that it read. `StorageIInv` gives every allocated host object one holder: the storage
of one object, or one initialisation under way, and says for each use what it has looked up
(`UseSound`, `ObjectSound`, `HostSound`). For the refinement, `FutexIInv` adds to `QueueIntegrity` that
whoever is awoken or due waits. `Enqueue`, a return and `Wake` map to `Wait`, `Return` and `Wake` of
`FutexSpec`; that `Wake` takes the first matching records of the address, and not of the bucket,
needs the order of a bucket restricted to an address to be the order of the line.

`JniIInv` is `HoldersTyped`, `OwnersExact` and `FramesKept`. `OwnersExact` says that the count of a value
is the number of its places in the tables of locals, the pending exceptions, the references owed to a
caller, the globals, the queue, the handler's hand and the fields (`Counted`); between the steps of one
call it also counts what is loose. Each action is a chain of three such moves: a retain makes one owner
loose (`RetainCounts`), an entry of a table gives up or takes in a loose one (`OwnersMove`, `TableMoves`), and
a release leaves none (`ReleaseLeaves`). The last rests on `Released`: what the freed values had in their
fields is let go of with them, and the set is the least one, so nothing is freed that still has an owner.
`FramesKept` says of each thread that the marks are ordered and within its table, that what is promised grows from
frame to frame, and that what a frame is promised is in the table below the mark at which the next one
begins (`FramesFit`). The order is why a delete that moves the marks down keeps the promises of the outer
frames: with the marks left where they are the run `services` finds the loss.

`EventServices_proofs` proves, for any sizes, threads, descriptors, players, callback indices and intervals:

| Theorem | Property | Assumptions |
|---|---|---|
| `WindowSafety` | `GeometrySettled`: while the flag says that nothing is left to do, the size recorded as applied is the wanted one; between transactions the record is the window's size or nothing. Of the wanted size nothing is said while the flag is set | `WindowAssumption`: `NoTxn` is no transaction |
| `LooperSafety` | `LooperSound`: owners, registrations, references and wakes agree | `LooperAssumption`: finitely many slots, `Nobody` is no thread or looper |
| `EpollSafety` | `EventsOfTheirFd`: an event belongs to the description that was registered | none |
| `AudioSafety` | `AudioSound`: players freed once, buffers played once and in order, one device | `AudioAssumption`: capacities are numbers, `NoPlayer` is none |
| `FrameSafety` | `FramesSound`: callbacks in an active Unity only; an accepted login that is over has its answer queued or sent unless the queue was full, and no answer twice; no step without what it needs | `QueueAssumption`: indices are positive |
| `SocketSafety` | `QueuedDataIsSeen`: data is reported before two intervals are over | `NetAssumption`: intervals are positive, and none is longer than the one for small streams |

`LooperIInv` says what each place of a poll knows (`PollOf`): that the looper is still the one it asked
for, that the thread owns it, and which registration each response of a batch stands for.
`EpollIInv` keeps the number and stamp of each registration, so a copy that is still current is of the
same descriptor. Audio has three invariants of their own variables, for players, queues and devices, so
that a step needs only the one whose variables it changes.

`FrameIInv` is `StackShape` (one call of the loop at the bottom, drains above it, each event of an answer
taken by one of them), `LoopShape` (a table of the flags at each place of the loop, and of which call
belongs to it), `QueueShape` (an index has one slot or one event until it is answered) and `LoginShape`
(what each phase holds, that an attempt keeps its slot, and that every other accepted login
has its answer queued or sent). The queue's theorems need the loop's: a
drain runs only while the bridge has the focus, which the loop gives and takes.

`NetIInv` bounds a wait: `PollsSliced` says that a promised call polls an open number with progress in slices,
and `AskedInTime` that no number of the stream has received since the data came, that either somebody
is about to ask or the number was last asked before the data came, and that the slice
ends in time. A call that ends its slice and does not ask finds the reason here: the last receive or the
last question is less than an interval ago, so the data has been waiting for less than an interval.

`DataServices_proofs` proves, for any versions, blocks, files, builds, handles, libraries and arenas:

| Theorem | Property | Assumptions |
|---|---|---|
| `SessionSafety` | `SessionSound`: what is loaded was stored whole, and is the newest unless a replacement or an invalidation was cut short | `SessionAssumption`: versions are positive |
| `BlockSafety` | `BlocksKept`: a block goes back to its allocator | `BrokerAssumption`: sizes are numbers, a page has bytes |
| `MappingSafety` | `MappingsSound`: each mapping has memory of one owner, and stores reach the file | `MapAssumption`: places of arena and heap differ |
| `SizeSafety` | `SizesTrue`: both sizes of a download are true, and bounded after a refusal behind a tail | `SizesAssumption`: `Nothing` is none, sizes are numbers |
| `DataSafety` | `AssetsSound`: a complete release survives a power cut | `DataAssumption`: the marker is required, releases are numbered |
| `PackSafety` | `PackSound`: handles keep what is used, nothing leaks, nobody waits in a circle | `PackAssumption`: handles and threads are finitely many |
| `PluginSafety` | `PluginsSound`: no overlap, and what runs rests on images that run, but for what was being loaded around it | `PluginAssumption`: each library has a list of needs and a size |
| `ArenaSafety` | `ArenaSound`: no page and no donor unit is lost or handed out twice | `ArenaAssumption`: sizes are positive, `SparseAlign` is a multiple of `SegmentPages` |

`MapIInv` and `PackIInv` are about whose a thing in hand is: a place that is being filled, a number just opened, a
handle waiting to go belong to one call (`PlacesSound`, `CallHolds`, `CallsApart`). The counts of
handles need cardinalities, one element at a time (`CountOne`). `SizesIInv` says for each place of a write what
the record is to become (`Promises`), and between calls that the record lies between `truth` and the disk and meets
`truth` unless the file is in `refused` (`FileQuiet`); a call on one file changes no other. `SessionIInv` says in
which steps of a store the old file is gone, which is when `gap` is set, and in which steps of an
invalidation a file is still there. `DataIInv` follows the places of a start
(`StartSound`): the extracted files are there until the pair is complete and verified. `PluginIInv` relates
the stack of loads to the table: calls and entries correspond (`Stacked`, `StackedOnce`), entries under way lie at
the end of the arena in the order of their calls (`Nested`, `Apart`), and what an image under way lists or is bound to
runs, or is `around` it (`Depends`, by entry; `BoundStays`, by image; `Waiting`). Only the innermost load can fail, and
what is found in the list and does not run was loading around it (`FoundStays`). A failure frees the entry of
an image that is around everything placed since, so an address of that entry that is left, and the next image at
that address, are covered by what `around` says.

`ArenaIInv` adds four things to `ArenaSound`. `OneStart`: nothing is handed out before one of the starters has
published, which then fills in the tables again. `SparseWhole`: reservations begin and end where segments do.
Without it, an allocation could back a segment that reaches into a reservation (`OffReserved`). `PlacesTyped` and
`HeldTyped`, the types that the arithmetic needs. Pages and donor units are both runs with an owner, and every action
adds a run where nothing was (`RunsAdded`), takes some away (`RunsTaken`), or exchanges runs for others
that cover the same (`RunsExchanged`): a cut of a free extent exchanges it for the rest and the
allocation (`ConsumeKeeps`), a release joins the run with its free neighbours (`ReturnKeeps`).
Places that one call maps lie apart because each is put where those below it are not; the
proof takes the lowest place at which this would fail, which exists because the numbers are
well-founded (`LeastNat`, `MappedApart`). `live` counts the overlap of a segment with all allocations
(`OverlapSum`), so that a release unmaps a segment only when no other allocation has a page in it.

Only model-checked is all liveness: `WakeDelivered`, `UnwokenWaitsEnd`, `TeardownEnds`, `CollectionEnds` and
`PollReports` (temporal reasoning with fairness is outside the prover's reach). Every safety property of the
passing runs has a theorem.

## 6. Not modelled

Inside the modelled parts:

* GC bridge: `nx_gc_context_capture_begin`/`_end` (no caller), the limit of 256 suspension
  slots, the comparison of `tpidr` after a dump (one of the failures of a capture), the
  unused slot state 9. A release that fails after its reference is gone (`libc_shim.c:9314`)
  and the answer `EAGAIN` after 64 attempts (`libc_shim.c:9753`) leave the next step to the
  game's collector, which is not in this repository.
* Descriptors: the generic `dup2` onto packed and epoll numbers, seeks through a window.
* Pipes and eventfds: the counter of an eventfd, the random descriptor, a failed allocation of a
  pipe's buffer.
* Sockets: `select`, polls of several descriptors, socket options, addresses.
* Asset pack: the parsing of an index, the cache of an open file.
* Plug-ins: relocation formats, patches, dispatch stubs, the counts of `dlopen`.
* JNI: tables of classes, methods and fields; strings and primitive arrays.
* Login: the bytes of requests and answers, encryption, the text of prompts.
* Lifecycle: console set-up, patches of the game's binary, Vulkan.
* Allocations that fail where the code only answers an error.

Whole components: those in `PROJECT.json` with status `not_modelled`. They are stateless
conversions, constant tables, parsers or pass-through calls.

## 7. Plan

1. `GcLocks`: `GcBridge` with the futex buckets and the registry's lock, for the
   locks that no critical section protects.
2. The counter of an eventfd beside `FakePipe`, and its composition with the operations
   of `Descriptors`.
3. `select`, and polls of several descriptors.
4. The relocations of the ELF loader as a decoder against a reference definition.
