# A TLA+ model of LLFIO

LLFIO is a C++ library for file input and output.  Most of it wraps system
calls and keeps no state worth a model; what can go wrong in ways that tests
hardly reach is in its algorithms, which coordinate threads, processes and
machines through files, locks and counters.  This directory models those
algorithms in TLA+, checks the models with TLC and proves what matters most
with TLAPS.  The modules follow the POSIX implementation, and the Linux one
where they differ.

## Inventory

| part | state | operations | what is hard | what makes it correct |
|---|---|---|---|---|
| `algorithm/shared_fs_mutex/base.hpp` | what each guard holds | `lock`, `try_lock`, `unlock` | – | entities are granted whole, never in conflict |
| `.../byte_ranges.hpp` | byte range locks of a file | the same | byte by byte, in any order, with failures half way | exclusion, nothing left locked, nobody asleep with a lock |
| `.../atomic_append.hpp` | a file of lock requests, a header, cached headers | the same, opening and closing | stale headers, backward scans, appends in between, the first opener | exclusion in the order of the requests, the header passes no live request, nobody starves |
| `.../memory_map.hpp` | a lock file naming an index of spinlocks | the same, opening and closing | first and last users, collisions, crashes | users of one index exclude each other, users find the current index |
| `.../safe_byte_ranges.hpp` and `.ipp` | a map of entities per process beside the byte range locks | the same | the mutex is given up around waits; nesting | threads and processes are excluded, map and bytes agree |
| `.../lock_files.hpp` | one file per entity | the same | files left by the dead, opposite orders | no file is left behind or unlinked by others |
| `traverse.ipp` | lists of directories per level, counts of threads | run by worker threads | the end of the traversal, late threads, failures | every directory once, and nobody uses the state afterwards |
| `dynamic_thread_pool_group.ipp`, the group | flags, lists of work items | `submit`, `stop`, `wait`, completion | flags read without the lock, items that submit and stop | an item is executed by one thread at a time and called back, `wait` means complete |
| the same, the pool | queues, lists of active and sleeping threads | submission, the threads' loop | lost notifications, leaving threads | queued work has a thread |
| `reduce.ipp` | counters, the visitor's clock | rounds of `traverse` | entries come, go and move meanwhile, some cannot be removed | every round achieves something, nothing is left or counted twice, it ends |
| `posix/fs_handle.ipp` | the name space, the inode a handle remembers | relink, link, unlink, the containing directory | others rename files and directories between any two system calls | no file is lost or replaced, calls return |
| `clone.ipp` | up to three handles and names of one file | `relink_or_clone_copy_unlink` | a step fails after others have succeeded | the file ends with one name |
| `programs/key-value-store` | an index in shared memory with a lock per key, small files | transactions, opening | crashes while writing, conflicts, locks that outlive processes | transactions are whole, an update replaces the value it was based on, commits do not deadlock |
| `summarize.hpp`, `contents.hpp`, `difference.hpp` | counters, a visitor of `traverse` | one traversal | – | – |
| `map_handle.ipp`, both | address, reservation and length of maps; the cache of maps by size | map, truncate, commit, close; get, add, trim, disable | threads, maps that fail, large pages | every page has one owner, the cache knows what it has |
| `mapped_file_handle.ipp` | reservation, section, map | reserve, truncate, update | others change the file between reading its length and using it | the map covers what the handle says |
| `byte_io_multiplexer.hpp` | states of i/o operations | begin, complete, cancel | callbacks against cancellation | each completes once |
| handles, paths, sockets, TLS, utilities, Windows | kernel objects | wrapped system calls | – | – |

Interactions: `byte_ranges`, `safe_byte_ranges`, `atomic_append` and
`memory_map` use the byte range locks of `lockable_byte_io_handle`
(ByteRangeLocks); all five algorithms implement the interface of `base.hpp`
(SharedFsMutex).  `reduce`, `summarize` and `contents` are visitors of
`traverse`; Reduce uses of it what Traverse shows.  `relink_or_clone_copy_unlink`
calls `relink`, `link` and `unlink` of three handles, and RelinkOrClone is
composed of FsHandle in the same way.  A mapped file
has one map, made in the address space that MapHandle describes: MappedFileHandle
extends it.  The group hands its items to the pool by `_submit_work_item`, and
the pool calls back `_timerthread` and `_workerthread`.

`PROJECT.json` lists every part with the reason if it is not modelled, the
source lines of every definition, the hazards, the runs and the theorems.

## Modules

**SharedFsMutex** is the promise of `shared_fs_mutex`: one variable, `held`,
what each guard holds; `Acquire` grants a whole request that conflicts with
nobody, `Release` gives everything back.  Failed locks leave no trace.

**ByteRangeLocks** has the lock table of the kernel: locks belong to an open
file, a new lock replaces an old one of the same owner, an unlock takes away
whatever is there.  It also has the outcome of one `lock_file_range` call for
each kind of deadline, and the deadline the algorithms derive for one byte.

**ByteRanges**: `Lock` enters `_lock()`, `TakeByte` and `Contend` are one turn
of its loop, `Undo` one of the scope guard, `TimeOut` and `Retry` the end of an
attempt (entities are shuffled, the contended one first), `GiveByte` one turn
of `unlock()`.  `Interrupt` is a signal, `Exit` the end of a process.

**AtomicAppend**: records and header of the file, and for each instance the
cached header and the position of its scan.  Record *k* stands for 128 bytes.
The actions are the reads, writes and locks of `_lock()`, `unlock()` and of
opening, each one step; a torn read fails its hash and is repeated, so reads
are whole.  `LockFails` is a system call of `_lock()` that fails once the request
is in the file: the call returns through the scope guard, as after a time out.
`BumpFails` is a read or a write of the header's bump that fails, which
`unlock()` ignores.

**SafeByteRanges**: the mutex `_m`, the map `_thread_locks`, the bytes.  A
guard may nest with others of its thread.  The actions are the pieces of
`_lock()` between two points where `_m` is given up or the kernel asked.
Two history variables, which no action reads, remember where the code has gone
wrong (`Remember`, beside every action): `crossed` has an entity of a process from
the step in which the kernel grants its byte to one thread while another thread
of the process has it or was granted it too, until nobody of the process uses it;
`wild` has a process that wrote through an invalid iterator.  An entity is
`Orderly` for a process in neither case, and that is what the properties
ask for, not that requests are of some kind.

**MemoryMap**: the two bytes of the lock file, the path in it, the indices,
their spinlocks.  Opening, closing, locking and unlocking step by step; system
calls fail, processes die, power is lost (`Reboot`).  Spinlocks are external.

**LockFiles**: `files` says who created the file of each entity.  A process
that dies leaves its files.

**Traverse**: all of `state` in `traverse()`, the thread that calls it and the
workers.  `Subdirs` is what an enumeration finds; the visitor may pass over a
directory, and it, the system and the start of a thread may fail.

**DynamicThreadPoolGroup**: flags and lists of a group, of which the flags are
read without the lock where the code does.  Users and items call `submit()`
and `stop()`, users call `wait()`.  What is scheduled is a multiset of items.

**DynamicThreadPool**: how the Linux pool takes scheduled items.  Items are
counted, threads are in the lists `active` and `sleeping`.  What the thread
metrics measure is left open: a thread may be told that enough, too few or too
many run.  Time is not modelled: any sleep may end, any thread may have been
idle for long enough.  A look into the queues is one step.

**KeyValueStore**: the index (magic, counters, histories of the keys, their
locks), the small files and the byte range locks on both.  A process opens the
store, looking for a small file nobody has claimed; it fetches, stages and
commits: `commit()` looks up all keys under shared locks, takes exclusive ones
in the order of the keys, appends the records and then writes the index, key by
key, each a step.  A process may be killed at any step: the kernel's locks go,
those in the index stay.

**FsHandle**: names are leaves of directories, directories have names of their
own.  A handle is open on a file and the kernel tracks the name it was opened
by.  `Path`, `OpenDir` and `Stat` are the three system calls of
`containing_directory()`; `Relink` is `renameat2()`, `LinkAt`, `Reopen` and
`UnlinkAt` what follows on file systems without `RENAME_NOREPLACE`.  Others
rename and remove files, and rename directories, between any two of them.

**RelinkOrClone**: `relink_or_clone_copy_unlink()` as a client of FsHandle, one
action for each call it makes (`Invoke`) and each result it looks at.  Users
call relink, link and unlink on their own handles meanwhile.  What is in a file
(`data`) is what the properties follow, as a copy is another inode.

**Reduce**: `reduce()` and its visitor.  A directory is known by its path from
the top, as `traverse()` opens it.  `Remove` is one `unlinkat()`; `not_removed`
is whether any of the three counters of failures is above zero, `begun` and
`late` are the visitor's clock.  Others reach the tree by path until it has its
random name, and later through what they have open (`Held`).

**MapHandle**: the address space as a function from pages to what they show, the
maps of the handles, the cache as a set of items.  A look into the cache, a
`mmap()` and the return of a map are steps of their own (`Get`, `Remap`,
`NewMap`, `Close`, `Recycle`), so that other threads trim and disable the cache,
take and add maps in between.  Which maps `trim_cache()` finds old enough is left
open.  Addresses are pages and sizes bytes, so that all rounding is there.

**MappedFileHandle**: `_reserve()` and `truncate()` in two steps, before and after
the length of the file is read, with others that resize it in between.

The MC modules give the constants their values; the Proofs modules are about
the module in their name, DynamicThreadPoolProofs also about the group and
TreeProofs about Traverse and Reduce, whose variables and actions therefore have
different names.

## Runs

| run | instance | checks |
|---|---|---|
| `byte_ranges` | 2 threads, 3 entities, orders that cross, all kinds of deadline | `NoResidue`, `NeverSleepsHolding`, refinement, `UtcLockReturns` |
| `atomic_append` | 2 instances, 2 overlapping requests for 2 entities, 3 records, buffers of 2, a bump every 2, deadlines, spinning and sleeping, system calls that fail | `NoOvertaking`, `KnownGood`, `NoOrphan`, refinement, `LockReturns` |
| `safe_byte_ranges` | 2 processes, 4 threads, 2 entities, five workloads: nested locks, processes, threads, and twice threads beside another process with both kinds of lock on the same entities | `Exclusion`, `Backed`, `Accounted` |
| `memory_map` | 2 instances, 2 indices, 3 entities of which 2 collide, crashes | `IndexExclusion`, `OneIndex`, `Accounted` |
| `lock_files` | 2 instances, 2 entities, deaths | `FilesOwned`, refinement, `TimedLockReturns` |
| `traverse` | 2 threads, 6 directories on 4 levels, failures | `Complete`, `Quiescent`, `TraverseReturns` |
| `thread_pool_group` | 2 users, 2 items, 2 threads, 2 submissions | `NeverConcurrent`, `WaitMeansComplete`, `Completes` |
| `thread_pool` | 2 threads, 2 clients, 4 items, threads that fail to start | `Accounted`, `WorkIsDone` |
| `key_value_store` | 2 processes, 2 keys, 2 small files, 2 revisions, 4 openings and commits, 1 crash | `Serialised`, `UpdatesBased`, `RecordsIntact`, `CommitReturns` |
| `relink_or_clone` | 2 directories on 2 file systems, of which 1 knows `RENAME_NOREPLACE`, 3 files, 1 call, a user, 2 moves of others and the user | `NoLoss`, `MovedOnce`, `NeverReplaces`, `CallsReturn` |
| `reduce` | 2 threads, a deep and a wide tree, something that cannot be removed or nothing, 2 moves of others | `FailsForAReason`, `Tally`, `Progress`, `Terminates` |
| `mapped_file_handle` | a mapped file and another handle, 4 pages of 2 bytes, small and large pages, a cache for up to 2 of them, 3 lengths of the file, system calls that fail | `Accounted`, `Within` |

Most modules have a `TypeOK` beside these, and some a further invariant that
says how the parts of the state fit together (`Exclusion` of ByteRanges, which
the refinement implies, `InLists` of the pool, `QueueSound` of Traverse, `Listed`
of the group, `SleepsEmptyHanded` of SafeByteRanges, `HonestMagic` of
KeyValueStore); they hold in the same instances, but no run asks for them.

Why the bounds are enough.  A conflict, an undo and a retry need two lockers
and two entities in opposite orders; a third entity makes the undo and the
shuffle longer than one.  `atomic_append` scans backwards in buffers, so
buffers of 2 with 3 records have a full and a partial one, and a bump every 2
records happens with live records on both sides.  With 3 instances one may bump
while another scans and a third appends: that instance (`Insts = {i1, i2, i3}`,
`Requests <- TwoEntities`, `MayFail = {}`, `Deadlines = {"none"}`, `Spins = {FALSE}`, `MaxRecords = 4`, `SYMMETRY Symmetry`
and `SPECIFICATION Spec`) satisfies `NoOvertaking`, `KnownGood` and `Refines` too
(419,038 states).  `traverse` needs a tree
in which one thread is two levels below another while a third list is not
empty; 4 levels and 2 threads beside the caller do that.  The group needs two
items so that one finishes while the other submits, and two submissions so
that one overlaps with the completion of the other.  The pool needs two
threads so that one sleeps while the other leaves.  The store needs
two keys for a transaction that can be seen in part and for locks in opposite
orders, two revisions for a history that is shifted, and a crash so that a lock
in the index is left behind.  A move needs two file systems for the copy, one of
each kind for both ways of relinking, two random names for a copy that is
linked and relinked, and two acts of others: one to take a name away and one to
put another file there.  A reduction needs a directory below a directory for a
round that only prepares the next, and two threads so that one empties what the
other could not remove.  Four pages have room for two maps of two pages: one that
a thread has and one in the cache or of the file, also where the room between
them is too small, and one large page at either end.  File lengths below, within
and above the reservation of 4 bytes meet every comparison of the two; with a
third handle (`Handles = {h1, h2, mh}`, `SYMMETRY Symmetry`: 2.2 million states)
the properties hold as well.  `CHECK_DEADLOCK FALSE` is given where the system may
stop: when all records, items, calls or moves are used up.

The models have bounds in their guards only for what would not end:
`MaxRecords` (requests in a file), `OpenFirst` (everybody opens before anybody
locks), `MayFail` (the instances whose system calls may fail; all in the run), `MaxSubmits`, `MaxNext` and `MaxItems` (submissions and further work),
`MaxCalls`, `MaxCrashes`, `MaxJobs` and `MaxMoves` (calls, kills, and what others
do), and `OpenSerially` (one process at a time opens the store).

### Fairness

- ByteRanges, LockFiles: a thread in the code takes its next step, and time
  passes (weak).  Nothing is assumed of holders: the properties are about calls
  with a deadline.
- AtomicAppend: the same, and the kernel does not pass over a waiter for ever
  (strong, for the two actions that wait for a byte).  `LockReturns` also
  assumes that holders unlock; a call returns with the lock or, after a time out
  or a failure of its own, without.
- Traverse: strong per worker, because a worker that waits for `state.lock` is
  not passed over for ever.
- DynamicThreadPoolGroup: threads take scheduled items and calls proceed
  (weak), `operator()` returns in the end (strong, for it may call `submit()`
  and `stop()` in between), `wait()` polls (weak).
- DynamicThreadPool: threads run, submissions proceed and timers fall due
  (weak).  A sleep has a time out, so waking up is among the steps of a thread.

- KeyValueStore: a process that is alive takes its next step (weak).
- RelinkOrClone: the algorithm and users' calls proceed and deadlines pass
  (weak); nothing is assumed of others, whose acts are bounded.
- Reduce: the caller and each thread proceed and time passes (weak).

Time outs of `lock()` are weakly fair only where a property is about them.

## Proofs

| theorem | says |
|---|---|
| `ByteRangesProofs!TypeCorrect` | `TypeOK`, also for threads that share an instance |
| `ByteRangesProofs!ExclusionHolds`, `NoResidueHolds`, `NeverSleepsHoldingHolds` | exclusion, and the invariants of the run |
| `ByteRangesProofs!Refinement` | `byte_ranges` implements SharedFsMutex |
| `LockFilesProofs!TypeCorrect`, `FilesOwnedHolds` | `TypeOK`, and the invariant of the run |
| `LockFilesProofs!Refinement`, `ExclusionHolds` | `lock_files` implements SharedFsMutex, which excludes conflicting holders, and so does `lock_files` |
| `DynamicThreadPoolProofs!TypeCorrect`, `AccountedHolds`, `InListsHolds` | `TypeOK`, the invariant of the run, and that every thread is in one list |
| `DynamicThreadPoolProofs!NeverConcurrentHolds`, `WaitMeansCompleteHolds` | the invariants of the run of the group |
| `AtomicAppendProofs!KnownGoodHolds`, `NoOvertakingHolds`, `NoOrphanHolds` | the invariants of the run |
| `AtomicAppendProofs!Refinement`, `ExclusionHolds` | `atomic_append` implements SharedFsMutex, and exclusion |
| `TreeProofs!CompleteHolds`, `QuiescentHolds`, `QueueSoundHolds` | the invariants of the run of `traverse()`, and that the counter by which threads go to sleep is right |
| `TreeProofs!TypeCorrect`, `FailsForAReasonHolds`, `TallyHolds`, `ProgressHolds` | `TypeOK`, and the invariants and the action property of the run of `reduce()` |
| `SafeByteRangesProofs!TypeCorrect`, `AccountedHolds`, `BackedHolds`, `ExclusionHolds` | `TypeOK`, and the invariants of the run |
| `MemoryMapProofs!OneIndexHolds`, `AccountedHolds`, `IndexExclusionHolds` | the invariants of the run |
| `KeyValueStoreProofs!TypeCorrect`, `SerialisedHolds`, `UpdatesBasedHolds`, `RecordsIntactHolds` | `TypeOK`, and the invariants of the run |

They hold for any number of threads, entities and requests, under the named
assumptions on the constants (requests are not empty and name an entity once;
special values are different from the others; the pool has finitely many threads
and clients, and they differ; `traverse()` has at least one thread, and they, the
directories, the entries there may be in a tree to reduce, the users of a
`memory_map` and the processes and keys of a store are finitely many).  All theorems of
ByteRangesProofs but the first also assume `Separate`: no two threads use one
instance.  Those of AtomicAppendProofs assume `Orderly`: all open the file before
anybody locks, as a late opener resets a file in use (item 1 of the observations),
and records have hashes, as without them a torn or foreign record is taken for the
own.  `IndexExclusionHolds` assumes `AllEntered`: every entity of a request finds
its slot in the table, which `_hash_entities` does not ensure when one that is new
follows a collision (see the observations); the requests of the run have collisions
and satisfy it.  `RecordsIntactHolds` assumes `OpenSerially`: of two processes that
open the store at once one may truncate a small file that the other has claimed and
written to since; the other theorems about the store need no such assumption.
Those of SafeByteRangesProofs assume nothing about the workload: threads of a process
and other processes may ask for the same entities, in both kinds.  Where the code goes
wrong is named in the properties instead, by what has happened and not by what was
asked for: they are about the entities that are `Orderly`, that is all but those whose
byte the kernel granted to a thread while another of its process had the entity
or was granted it too (item 2 of the observations and the next list), from then until
nobody of the process uses them, and all of a process that wrote to freed
memory.  In the run 62,961 of the 119,737 states, and 17,994 of the 50,901 of the two
workloads that mix threads, processes and kinds, are `Orderly` for all entities and
processes, and others for some; each of the three properties is violated if its
`Orderly` conjuncts are left out.

*byte_ranges.*  Exclusion alone is not inductive: it says nothing of a thread in
the middle of a loop.  The invariant is
`TypeOK /\ InLoop /\ HasOwned /\ HasOnlyOwned /\ Compatible`.  `Owned(t)` are
the indices whose byte thread *t* has: those before the loop index while it
locks or undoes, those from it on while it unlocks, all when it holds.
`HasOwned` and `HasOnlyOwned` say that the lock table is exactly that, and
`Compatible` is what the kernel guarantees of the table.  Exclusion follows as a
guard owns all its indices.  Each action that moves an index gives or takes one
byte (lemmas `GiveBack` and `TakeByteStep`); all others leave ownership
alone (`SameOwnership`), the shuffle because nothing is owned then.

*safe_byte_ranges.*  A thread gives up the mutex to wait for a byte, so what it knew
of the map may be wrong when it comes back.  The invariant `SInv` says of each entity
of each process what can be relied on, and when.  Without condition: a thread does one
thing at a time (`OneThing`), the kernel grants no conflicting locks to two processes
(`Compatible`), an entry is there for somebody (`Shaped`), what a thread saw in the
map about itself when it gave up the mutex is still so when it comes back (`Asking`:
others neither add nor remove its marks), and the history is complete
(`Remembered`, `Noticed`).  If the entity is `Orderly` then `Good` holds: a writer shares
with nobody else (`Alone`), a thread has as many marks as guards on the entity
(`Counted`), of the kind they asked for (`Labelled`), and the byte is locked as the map
says, or as the one thread asked that is about to change the map (`Locked`).  What makes
it inductive is the return from the wait: if the entity is still `Orderly`, nobody
else has had it or was granted it since the kernel granted the byte, so a new entry
or a new writer is right, and no second thread drops a superfluous lock.  Each action
is shown to keep `Good` of the entity it is about and, as `crossed` shrinks only when
nobody uses an entity and `Good` is then trivial, of all others (`Unused`).  Between
threads of one process `Exclusion` follows from the map; between processes from the
kernel and `Locked`.

*lock_files.*  The same argument with `files` for the table.  `PathsDistinct`
and `PathsCover` relate the list of paths, made once, to the entities, which
are shuffled after a collision while the paths are not: what matters is that
both are about the same entities.

*Refinement.*  `held` is what guards hold, so only the step that ends the loop
of `_lock()` is an `Acquire`, which needs the invariant to show that it
conflicts with nobody; the start of `unlock()` and exits are `Release`; all
else stutters.

*The pool.*  `Accounted` is inductive with the types of the counters alone.  It
compares a number with the sizes of two sets of actors, those that have queued
an item but not counted it and those that have taken one still counted, and each
action adds one member, removes one, or leaves both as they are (`OneMore`,
`OneLess`, `Moves`).  `InLists` is inductive with `TypeOK`: only a wake up takes
a thread from the middle of a list, and `RemoveFacts` and `RemoveDistinct` say
what is left; all steps of awake actors keep both lists (`StaysAwake`).

*The group.*  `NeverConcurrent` is about the lists only, but what keeps an item out
of two hands is where it is between them.  Each active item is in one place
(`OnePlace`): queued once with the pool, with one thread that executes it or puts it
back, or with one scheduler that has work for it.  So it must be that a thread has
no item in hand it was not given (`InHand`), that two submissions have no item in
common (`Apart`), and that what is being submitted has no parent and is on no
finishing list (`Unowned`).  `WaitMeansComplete` is inductive only with what orderly use
means at every step (`Ordered`): nothing is put aside, a group is stopped only if
nothing is owed, and a user submits alone; then what is awaited is owed until it is
done (`Awaiting`), and who calls `group_complete()` has the lock and finds the lists
empty (`Completion`).

*reduce.*  The top directory is found not empty at the end only if others have put
something in it `unseen`.  What makes it inductive is who is responsible for what
is in it while a round runs: as long as no counter of failures is above zero, the
top is settled (empty, or others put something there unseen), or it is still in
`todo`, or some thread `Watches` it, that is has yet to read it or holds all of it
in `contents` (`Pursued`).  A removal takes the same entry from both; one that fails
raises a counter, and the round after it starts with the top in `todo` again.  A
round without failures ends with nobody left to watch, so the top is settled when
it is unlinked (`Cleared`).  `Quiet` and `Ended` say what the stages mean.

`Tally` compares a counter that several threads raise with the set of what is gone.
Each removal by `reduce()` raises it, and only others remove without: the lower
bound.  For the upper one no removal may be counted twice, though a file that is no
longer there counts as removed.  The invariant (`TInv`) says that what was counted is
gone and in nobody's `contents` (`Counted`).  That needs that no two threads have one
entry in hand (`OneHand`).  If nobody moved an entry, each has one home that the
tree, all paths and all threads agree about (`Homes`), so that a path is known by its
end (`OnePath`); and of the paths to visit or being visited none is a prefix of
another (`Separate`), as a thread that leaves a directory replaces its path by
longer ones.  So an entry in two hands would mean two threads in one directory.
`Known` says that nobody's entry is one that others can still add elsewhere.

`Progress`, that an undisturbed round that leaves something also removes something or
meets something nobody can remove, is proved by what is so while a round is in `Vain`:
nothing was removed, nobody disturbed the tree, nothing in it is stuck.  Then what
threads have read is still so, and no directory to visit below the top is empty
(`Fresh`).  So what set `not_removed` was a directory with something in it, and as
long as it is set such a directory is still to be gone through by somebody
(`Owing`): when all threads are done with an empty `todo`, it cannot be.

*atomic_append.*  Three things in the file must agree with what each instance
remembers of it: the header and every copy of it that somebody holds or will write
back (`HeaderInFile`, `Completed`: whatever is before *any* copy is completed, so a
stale one does no harm), the own record (`HasRecord`, `Owned`: exactly one for each
instance from its append to its zeroing, and no record without an owner), and how
far the backward scan has come (`Scanned`: what is between it and the own record is
not in the way, and stays so, as records are only appended or zeroed).  Before all
have opened the file, the one that resets it keeps the others out (`StaleFile`).
`NoOvertaking` is `Scanned` of those granted; the refinement needs `Owned` too, for
two that hold have different records, and the later one has scanned the earlier.

*traverse.*  A directory that was found is in exactly one place: in one of the
lists, in the `newwork` of a worker, being visited, or visited (`Apart`, `Once`,
`Tracked`), and the two counters count those places (`Counts`), unless a visit has
failed (`Lost`).  The threads: `threads_sleeping` counts the sleepers, and when the
last one goes to sleep nothing is queued (`Slept`); from then on, if nothing was
lost, nobody works and nothing is in anybody's hands (`Drained`).  `done` seen by
all with nothing queued or carried is `Complete`.  The lists before
`workqueue_base` are empty (`Levels`), which is why the search of `run()` from there
misses nothing: `QueueSound`.

*memory_map.*  The part about the lock file (`FInv`): where an instance is tells how
it has the in use byte locked (`LockedAs`) and which index it has open (`Opened`);
the kernel grants no conflicting locks (`Granted`).  Whoever changes the path or
unlinks the index has the byte exclusively, so nobody has it shared then.  The part
about spinlocks (`SInv`): each `Cell` has as many readers as there are users that
have taken it so, and a writer exactly if there is one, where nobody died with the
index; elsewhere it is at least as locked as that.  This needs that no slot is twice
in a table (`Distinct`, kept by the shuffle), and that the table `unlock()` makes
anew has the same entries as the shuffled one that `lock()` went through
(`InCall`).  Exclusion follows for the dead as well: what they leave locked stays
locked.

*The store.*  The locks in the index outlive the processes, so the invariant counts
only the living: `SharedBy` and `Holding` read off where a process is in `find()` or
`commit()` which keys it has locked, and `LocksRight` says that the lock of a key is
at least as taken as that, that no two processes hold one key, and that what is
locked is in the index.  From this, a key nobody living holds that can be locked
shows what the log says last (`Serialised`); `Pending` says the same of keys that are
held and not yet written, or written, and that what a writer in the middle of its
loop has still to write is what it put into the log when it began.  A process that
dies while writing leaves the keys it has not written locked for good, and so
unseen.  `Rechecked` carries the comparison made under the exclusive lock to the
step that begins to write: it stays true because nobody else writes a held key.
`UpdatesBased` follows at that step, the only one that adds to the log.  `Placed` and
`Keyed` have what the loops rely on: indices in range, a small file that is claimed,
one item for each key.  For the records: every revision in the index points at a
record with its key and counter (`Pointed`); what a process is about to put into the
index is in its file where it computed, because the length it read stays the length
while it has the claim (`Appending`); files only grow, or have padding filled, once
they can be found (`Unclaimed`), for which one process at a time must open the store.

Only model-checked: everything about liveness, which is out of the prover's reach,
RelinkOrClone, MapHandle and MappedFileHandle.  `NoLoss` of RelinkOrClone is about
one call: with a second one the system may give the inode of the first copy to the new file, and the history
variable that says what users have put where no longer tells the two apart.
`Accounted` and `Within` of MapHandle are sums of rounded sizes over sets of maps,
for which the library has no lemmas that can be instantiated here.

## Observations

Seen while modelling.  Those marked (m) are reachable in the models; to see
them, check the property named with the constants named in place of those of
the run.

What the code or its documentation promises and the model does not keep:

1. (m) `atomic_append`: the first opener locks the last byte of the header
   shared over its own exclusive lock on the header, and then unlocks the header,
   the last byte included (`atomic_append.hpp:242`).  The next opener believes to
   be the first, truncates the file in use and is granted the same lock
   (`Exclusion` with `OpenFirst = FALSE`).
2. (m) `safe_byte_ranges`: an exclusive request for an entity with readers
   is granted although other threads of the process share it
   (`safe_byte_ranges.ipp:310`): byte range locks do not conflict within a
   process (`Exclusion` of SafeByteRanges without its two `Orderly` conjuncts).
3. (m) The pool: threads are started or woken for the last item of a submission
   only, and not if it has no work (`dynamic_thread_pool_group.ipp:1929`): the
   others then wait for the next submission if the pool has no thread
   (`NeverAbandoned` with `MaxItems = 3` and `Faults = FALSE`).
4. (m) The key value store: the second pass of `commit()` compares counters for
   updates only (`key_value_store.hpp:922`), so a removal commits although its
   key was updated since it was fetched; `:679` says that commit throws
   (`FetchedIsCurrent` with `Calls <- Single`).  And an `update()` of a key that was
   fetched as absent is an insertion: if another process inserts the key and commits
   after the second pass has looked for it, `insert()` returns that entry, the code
   takes it without a look at whether it is new (`:938`), and overwrites what the
   other has committed.  That update is lost (`InsertionsNew`, in the instance of the
   run).  `UpdatesBased` is about updates of entries that the first pass found.
5. (m) `relink_or_clone_copy_unlink`: "`src` on return is the relinked handle"
   (`clone.hpp:89`), but after a copy `_replace_handle` (`file_handle.hpp:57`)
   exchanges the descriptor only: the inode that `src` remembers stays the old
   one, and the path of a descriptor opened with `O_TMPFILE` is a deleted one, so
   that the next relink or unlink by `src` fails or looks for ever
   (`HandleFollows` with `SPECIFICATION Spec`).
6. (m) The deadline of the look for the containing directory "must succeed, else
   `errc::timed_out` will be returned" (`fs_handle.hpp`): it is not looked at when
   the directory or the name is gone (`fs_handle.ipp:131`, `:151`), so a call goes
   on while others keep renaming (`CallsReturn` with `Restless = TRUE` and
   `MaxJobs = 0`).
7. (m) Maps: the length of a map "is used by `read()` and `write()` to prevent
   reading and writing off the end of the mapped region" (`map_handle.hpp:317`).
   Three calls set one that is larger than what is mapped: `truncate()` of a
   section's map to a smaller reservation limits it by the old one
   (`posix/map_handle.ipp:531`), `truncate()` of a mapped file to the length the
   file already has, beyond the reservation, skips the new reservation
   (`posix/mapped_file_handle.ipp:132`), and `update_map()` after a `reserve()`
   that failed sets the length of no map (`:183`).  `NoOverrun`; with
   `Faults = FALSE` and `Sizes = {}` the second alone.
8. `reduce`: "entries which cannot be unlinked are attempted to be renamed into
   the base directory" (`reduce.hpp`), but `renameat` is given source and
   destination swapped (`reduce.ipp:253`), so it always fails.  Reduce models the
   failure.

Others:

- `byte_ranges`: (m) `try_lock()` of an entity somebody holds sleeps until it is
  unlocked: the deadline derived for the byte has `nsecs = 0`, which counts as
  none (`TryLockNeverSleeps` with `Requests <- OneEntity`).  A duration that is
  positive becomes an absolute time in the past, so `lock()` spins until its
  time out.  Threads that share an instance do not exclude each other, while
  `byte_ranges.hpp:58` promises it.
- `atomic_append`: with `skip_hashing` a torn record is taken for a good one.
  `unlock()` reads more than 48 records in one buffer, and the search for the
  own record reads past the buffer if more than 48 requests come between.  The
  guard of the own request is local to `_lock()`, so waiters of a granted
  request do not sleep on it but spin.  The dead block everybody until all have
  closed the file.
- `safe_byte_ranges`: (m) two threads that find no entry both lock the byte; the
  second drops its guard and unlocks the byte of the first (`.ipp:225`; `Backed` without
  its `Orderly` antecedent).  (m) The iterator of an entry is used after a wait in which
  the entry may have been erased (`.ipp:304`; `wild = {}` is not invariant).
  Locking twice reports a deadlock
  where `safe_byte_ranges.hpp:96` allows it.  Nobody notifies `_changed`
  (`.ipp:342`), so sleepers wait for their time out.
- `memory_map`: (m) the first user loses its lock on the in use byte as it is
  assigned over the exclusive one (`memory_map.hpp:263`); the next makes an index
  of its own (`Exclusion` with `Requests <- OneExclusive`), and whoever leaves
  last aborts in its destructor (`:170`).  (m) After a collision the entities that
  follow are merged wrongly (`:290`, `IndexExclusion` with
  `Requests <- CollidingFirst`).  A user that opens while the last one closes
  gets `no_lock_available`.
- `lock_files`: the paths are not reordered with the entities after a collision
  (`lock_files.hpp:204`), so opposite requests may collide for ever.
- The group: (m) `submit()` clears `_stopped` before it has the lock
  (`dynamic_thread_pool_group.ipp:1371`), and a completion that comes between
  leaves it set with items active: `wait()` returns at once (`WaitMeansIdle`).
  (m) An item resubmitted from `group_complete()` is refused with
  `address_in_use`, because it has a parent since it was put aside, all those
  put aside are dropped and the group stays stopping; `dynamic_thread_pool_group.hpp:315`
  says one can resubmit it.  (m) `stop()` that overlaps with the completion
  leaves an idle group stopping for good.  (m) If all items of a submission to
  an idle group have no work nobody completes it.  (m) Items are put aside
  without the lock, also after the completion has looked at them.  An invalid
  deadline half way through a submission removes items from a list they are not
  in.
- The pool: (m) a thread that saw nothing leaves although an item was queued
  since by somebody who saw it active, and two threads told to quit both
  leave.  The sleep until a relative timer is computed as `now - earliest`
  (`:1586`), which is negative, so the thread spins.
- The key value store: (m) opened by two processes at once, one may truncate a
  small file that the other has claimed since (`key_value_store.hpp:239`;
  `RecordsIntact` and `HonestMagic` with `OpenSerially = FALSE`).  If the second
  pass of `commit()` aborts after it inserted a key the loop that takes the key
  out again starts at the end of the list (`:908`), and the process dies with the
  locks of the index held, which nobody can take again.  `update_unsafe()` of a
  key that exists, and `update()` of one that was removed, always abort.  A lookup
  in a small file made after this process opened the store ends in `abort()`
  (`:503`).  Whoever is alone in the store resets `writes_occurring` (`:315`),
  also after a crash.  A removal of a key that is not there reads an empty
  optional.  Read only stores map the index copy on write, so their locks exclude
  nobody.
- `relink_or_clone_copy_unlink`: without a leaf the destination is the absolute
  path of the source, so the destination directory is ignored (`clone.ipp:43`,
  `:121`).  If the source cannot be unlinked after the copy has its name the copy
  cannot be removed again, as its handle knows no name: both remain, with an
  error.  Any failure of the first relink, also that the file was deleted or its
  time is up, leads to the copy.
- `relink` without `RENAME_NOREPLACE`: if the file reopened by its new name is
  another one by then the handle is open on that, with the inode of the first:
  later calls without a deadline loop for ever.
- `reduce`: a round takes at least one level off the tree, and the clock starts
  with the first: a tree whose later rounds take more than the time out fails
  though each of them makes progress.  `begin` is not reset, so a visitor used
  again has no time left.  (m) An entry others move within the tree may be visited
  and counted twice (`Tally` without its exception).  On file systems that do not
  give types with names, a file others remove after it was enumerated makes the
  whole traversal fail (`traverse.ipp:329`).
- Maps: (m) if `do_mmap()` fails on a map from the cache its address is lost and
  never unmapped (`map_handle.ipp:262`, `NoLeak`).  (m) A section mapped at an
  offset that is no multiple of the page size takes a page more than is unmapped or
  committed later, and its address is that of the page, not of the offset
  (`Accounted` with `Offsets = {1}`).  (m) Memory in large pages that must be zeroed
  is rounded to small ones (the `FIXME` in `posix/map_handle.ipp:451`), so that it
  cannot be unmapped, and `trim_cache()` aborts the process (`Accounted` with
  `Requests <- AskedHalf`).  (m) `truncate()` of a mapped file that others have
  made longer than the reservation discards pages past the end of the map, which
  may be anybody's (`posix/mapped_file_handle.ipp:139`, property `DiscardsOwn`).
- The multiplexer: see below.

What holds in the passing runs holds beside these: the runs with constants that
leave out the cases say so (`OpenFirst`, `OpenSerially`, the requests of MemoryMap),
the properties of SafeByteRanges exclude the entities that are not `Orderly` at the
moment, `UpdatesBased` removals and insertions, `WaitMeansComplete` and `Completes` are about groups
used in an orderly way (`orderly`: users submit when all before is complete, some
item of a submission to an idle group has work, and nothing is submitted from
`group_complete()`), `WorkIsDone` excludes a pool
without a thread (`Abandoned`), and `Within` the maps in the cases of item 7 (`beyond`).

## Not modelled

- Windows and Grand Central Dispatch back ends.
- In the group and the pool: nested groups and their priorities, the order
  within queues, invalid deadlines, measuring the threads, destruction of the
  pool.  `Completes` is about a pool that takes what is scheduled; when it does
  is the subject of DynamicThreadPool, and the two are not composed.
- The registry that gives all users of an inode one `threaded_byte_ranges`.
- `byte_io_multiplexer`.  On POSIX its only back ends are in the tests.  The
  reading of `null_multiplexer.ipp` and `byte_io_handle.hpp` shows a protocol that
  is not settled: the state of an operation may be destroyed while another thread
  that completes operations holds a pointer to it, a blocking call that times out
  leaves its state on the stack in the list, a coroutine resumed by the visitor
  of an operation may reuse the state before it is detached, and completed
  operations are counted twice.  A model would state little else.
- In the store: read only access, `fetch` of old revisions, more than one thread
  per process.  A first entrant that finds a store which is not empty reads
  `_indexheader` before it is set (`key_value_store.hpp:312`): the model goes on, as
  a build does that removes the read, whose value is not used; one that keeps it
  dies there, which is a kill at that step.  One step in the model and several in
  the code are: unlocking the in use byte and trying to lock it exclusively in the
  destructor (`:364`, `:365`), the end of `commit()` (the `fetch_sub` at `:978` and
  the release of each entry's lock), and the append of the records, which the code
  writes in batches of 8 items (`:889`), so that a record file with a part of a
  transaction is not seen.
- In AtomicAppend: a write that fails in `unlock()` (`atomic_append.hpp:505`).  The
  failure is ignored, the request stays in the file, and whoever conflicts with it
  waits until all have closed the file: `LockReturns` and `NoOrphan` are about
  files that can be written.  Failures before the request is in the file leave
  nothing behind, and one in the search for the own record ends the process (`:320`).
- In LockFiles: an `unlink` that fails in `close()` (`lock_files.hpp:158`, `:224`).
- In FsHandle: handles to directories; file systems without `O_TMPFILE` or
  links; a copy of which only some extents are written.
- In Reduce: links to directories, visitors other than the default one.
- In MapHandle: contents and protection of pages, i/o through maps, barriers,
  `release()`, failures of calls that change nothing.  The call that discards what
  is in a map (`map_handle.ipp:293`) and its addition to the cache (`:312`) are one
  step (`Recycle`).  In MappedFileHandle: zero, reopen, i/o; closing the old map and
  making the new one is one step (`Reserve`), so no other thread takes the room in
  between.
- The cache of parent directories (`cached_parent`), planned below; handles, paths,
  sockets, TLS and utilities, which wrap system calls.
- Contents of files other than those the algorithms keep their state in.

## Plan

1. Models: the cache of parent directories.  Group and pool composed, so that `Completes` includes the pool.
2. Abstract specifications: a work item's life for the group (idle, accepted,
   executing, complete); a set of directories to visit for Traverse, which
   Reduce then uses by name; a store of one step transactions for KeyValueStore,
   refined with the first key written as the step.
3. Proofs: `Accounted` of MapHandle, in parts (one owner for each page, and the
   bytes in the cache, which needs the sum over a set without one element).
