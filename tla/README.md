# A TLA+ model of ESFS

ESFS is a FUSE file system that mirrors a directory and keeps snapshots of it.
A snapshot is created with `mkdir snapshots/ID` and costs nothing at first: when
a file is changed afterwards, its old attributes and the old blocks that the
change destroys are saved in the latest snapshot (copy on write). The earliest
snapshot is removed with `rmdir snapshots`.

This directory models the parts of ESFS on which the snapshots depend, checks
them with TLC on small instances, and proves with TLAPS, for instances of any size,
that the lock table and the block arithmetic are correct, that no snapshot loses a
block of a file or its attributes, and that reading in a snapshot returns what was
there when it was taken, under conditions that are stated below. Paths and lines
refer to `src/`.

## The system

| Part | Source | State | Operations | Module |
|---|---|---|---|---|
| lock table | `mflock.c` | label, mutex, want, MOD mutex of each slot | `mflock_lock`, `mflock_unlock` | `MFLock` |
| saving of blocks | `block.c` | `.map` pointers, `.dat` blocks | `b_write`, `b_truncate` | `CopyOnWrite` |
| file handles | `mfd.c` | `mfd_t`: sn_number, mapfd, datfd, map header, block cache | `mfd_open_sn`, `mfd_validate`, `mfd_close_sn` | `CopyOnWrite` |
| requests on a file | `fuse_path_open.c`, `fuse_path_write.c`, `fuse_fd_write.c`, `fuse_fd_close.c` | the main file | open, create, write, ftruncate, truncate, unlink, release | `CopyOnWrite` |
| reading in a snapshot | `mfd.c`, `block.c`, `fuse_fd_read.c` | `sn_steps_t` | `mfd_get_sn_steps`, `b_read`, read | `CopyOnWrite` (one block at a time) |
| snapshots | `snapshot.c`, `util.c`, `util_locking.c` | directories, `.hid` pointer files, sn_is_any, sn_lat_dir, sn_number | `sn_create`, `sn_destroy`, `sn_get_paths_to`, mount | `Snapshots` |
| names and attributes | `fuse_path_write.c`, `fuse_path_open.c` | the tree of the main space, map headers | mkdir, rmdir, create, unlink, chmod, chown | `Namespace` |
| looking into a snapshot | `fuse_path_read.c`, `fuse_fd_read.c`, `mfd.c` | `sn_steps_t`, names seen | getattr, access, opendir, readdir | `Namespace` |
| directories in a snapshot | `util_locking.c` | directories below a snapshot | `mkpath`, `recursive_remove` | `Namespace` |
| block arithmetic | `block.c` | locals of the loops | `B_CALC_BLOCKS`, loops of `b_read`, `b_write`, `b_truncate` | `Blocks` |
| paths | `util.c`, path macros | none | `decompose_sn_path`, lengths of path names, which request goes where | `Paths` |
| unsupported operations | `fuse_path_write.c`, `fuse_path_read.c` | none | rename, link, symlink, xattr | `Paths` |
| operations in comments | `fuse_unused.c` | none | lock, ioctl, poll, flock | not modelled |
| lock labels | `util.c` | none | `string2locklabel` | not modelled |
| build, tests | `compile.pl`, `test.pl` | none | | not modelled |

How they interact. Every request that changes a file sets up a handle for the
latest snapshot (`mfd_open_sn`: create or load the map file under the file's
lock) or validates the one it has (`mfd_validate`: has sn_number changed?), saves
blocks (`b_write`, again under the file's lock), and only then changes the main
file. Reading in a snapshot looks for a block in the snapshot's dat file, then in
those of later snapshots, and last in the main file. The order of the snapshots
is a chain of pointer files on disk.

What is hard about it: libfuse runs requests in parallel; the table of locks is
searched without a lock and its counters are not atomic; pointers are read first
without and then with the lock; a handle may be validated before, and used after,
a snapshot is created; the process may die, or a system call fail, between any
two steps. The list of such hazards, each at its line, is in `PROJECT.json`.

## Modules

* `LockSpec`: what the lock table promises. One variable, the holder of each
  label; two actions, `Acquire` and `Release`.
* `MFLock`: the table of `mflock.c`. A step is one access of shared memory or one
  mutex operation; the scan of the table takes one step per slot, `want++` a load
  and a store. `want` counts modulo `WantMod` as an unsigned int does.
  `ImplementsLockSpec` says that it implements `LockSpec`, with the holder of a
  label being the thread that is sure of it (`Holds`).
* `CopyOnWrite`: one file of the main space, its map and dat files in each
  snapshot, threads that change it, threads that read it in a snapshot, creation
  and removal of snapshots, death of the process and failing system calls. It uses
  the actions of `LockSpec` as locking calls, so that `MFLock`'s refinement is
  what connects the two. The unit of data is the block, its content one of two
  values; attributes are reduced to existence and size. `taken[s]` is a history
  variable, the file at the moment snapshot `s` was taken; `faults` has the deaths and
  failed calls so far, whether an open handle was left without its map file (`stale`),
  and whether a request was served while a snapshot was created (`raced`).
* `SnapshotList` and `Snapshots`: the list of snapshots, and the directories,
  pointer files and memory that implement it. One thread creates or removes, one
  walks along the pointers. Every system call may fail, those that clean up after
  another one included: `faults.left` are the names whose pointer file could not be
  removed, `faults.adopted` says that one of them was made the first snapshot, with the
  pointer file still there.
* `Namespace`: a small tree in the main space, the directories and map files that
  changes of it leave in each snapshot, one request that looks into a snapshot, and
  the removal of the earliest snapshot, one system call a step. A node is its kind
  and its attributes; what is in the files is the business of `CopyOnWrite`. The
  history variable `taken[s]` is the tree when snapshot `s` was taken, `moved[s]` the
  directories made or removed since.
* `Blocks`: one call of `b_read`, `b_write` or `b_truncate` with any offset and
  sizes in bytes: how it is cut to the file's size, which blocks the loop goes
  through, and which bytes are copied where. A byte of the file is a block and a
  place in it, so that a copy that runs over the end of a block is seen.
* `Paths`: what a request does with its path: is it in `/snapshots`, what does
  `decompose_sn_path` make of it, is the request let through, do the names that are
  put together fit into their buffers. A path is a short sequence of characters; one
  of them stands for the word `snapshots`.
* `MCMFLock`, `MCCopyOnWrite`, `MCSnapshots`, `MCNamespace`: symmetry sets and small
  trees for TLC. `MCPure`: `Blocks` and `Paths` side by side.
* `BaseProofs`: theorems about the parts that stand by themselves, `MFLock`, `Blocks`
  and `Paths`. `SnapshotsProofs`, `NamespaceProofs`: those about `Snapshots` and
  `Namespace`.
* `CopyOnWriteInv`, `OpenSnProofs`, `BWriteProofs`, `ReaderProofs`, `CopyOnWriteProofs`:
  theorems about `CopyOnWrite`. The first has the inductive invariants and what one
  step of a thread may do to the others; the next three have a lemma for each step of
  `mfd_open_sn` and `mfd_validate` (and the start of a request), of `b_write` and the
  change that follows it (and the snapshots, deaths and the first mount), and of the
  readers; the last combines them into the theorems.

Definitions keep the names of the source: `OpenSn...` are the parts of
`mfd_open_sn`, `BWrite...` those of `b_write`, `R...` those of `mfd_get_sn_steps`
and `b_read`. Operators marked as mutants are plausible mistakes in the code which
the properties detect; the specifications do not use them.

### The environment

The kernel, libfuse and POSIX are not part of `src/`; the models assume

* the kernel asks for `create` only if the file does not exist, and serialises
  `mkdir` and `rmdir` of snapshots (it locks the directory concerned);
* libfuse does not forward an `unlink` of an open file, and runs unlink and rmdir
  exclusively with other requests on the path and below it;
* a handle serves one writing request at a time;
* a mutex is granted to one thread at a time, in any order, and a system call on a
  file is atomic, except an append that is cut short;
* files that are open stay usable after they are unlinked;
* the kernel holds the lock of a directory while an entry is made in it or removed
  from it, and that of a node while it is removed or its attributes change, so no
  two requests of `Namespace` work on one path;
* one call of `getdents` returns the whole of a small directory (`Namespace`).

Undefined behaviour is a choice over what can come out: the test of an
uninitialised `st_mode` (`mfd.c:357`), an uninitialised size (`mfd.c:775-777`),
the `exists` field of a map header that is never loaded for a directory
(`fuse_path_read.c:70`, `143`), and, in `Snapshots`, reading `sn_lat_dir` while it is
being copied. Two such cases are left out: in `CopyOnWrite`, `mfd_open_sn` reads `sn_lat_dir` in one step; and
the number of a closed map or dat file, which a handle keeps after a failed set-up,
is taken to be unused, although the process may have another file under it by then.
So using it, and closing it again, fails (`BWriteNoMap`, `ValidateFails`).

## What the runs check

| Run | Instance | Shows |
|---|---|---|
| `lock_table` | 3 threads, 2 labels, 2 slots, want modulo 2 | mutual exclusion, one slot per label, labels change only under both mutexes, refinement of `LockSpec` |
| `cow_writers` | 2 threads, 1 block, 1 snapshot, 1 removal | `SnapshotIntact`, `SavedOnce`, `OldBlockThere`, `CacheCoherent`, `SavedForever` under all interleavings |
| `cow_blocks` | 1 thread, 2 blocks, 2 snapshots | `SnapshotIntact` where blocks are spread over two snapshots and the main file; `ValidMeansLatest`: a handle that passes `mfd_validate` belongs to the latest snapshot |
| `cow_crash` | 1 thread, 1 block, 2 snapshots, 1 death, 1 failing call | `IntactDespiteFaults`, `SavedDespiteFaults` and `SavedForever` when any system call of `mfd_open_sn` or `b_write` fails; `RequestsEnd`: every request ends, with the lock free |
| `cow_readers` | 1 writer, 1 reader, 1 block, 2 snapshots | `ReadsSnapshot`: reading in a snapshot during changes, through handles that know the map file of the latest snapshot if there is one |
| `sn_chain` | 3 names, 4 creations per mount, 2 deaths, 2 failing calls, MAX_SNAPSHOTS 3 | the pointer files implement the list; walks find what is there and follow it without gaps; only a failed cleanup leaves a pointer file without its directory |
| `ns_tree` | 2 threads, 1 look, a directory with two files, 2 snapshots, 1 removal, 3 requests | `AttributesIntact`: the files and attributes of each snapshot can be told from the disk; `GetattrRight`, `ListingRight`: getattr and readdir do tell them; `MkpathResilient`: parallel runs of `mkpath` do not fail |
| `pure` | blocks of 4 bytes, sizes up to 13; paths up to 6 characters, buffers of 9 | `BufferRight`, `SavesExactly`: the copies and blocks are those of a byte-by-byte definition; `SnapshotsReadOnly`, `DecomposeRight`, `PathsFit` for all paths, with the two exceptions that `PathsFit` states |

The bounds. In `lock_table` three threads are needed for one to meet a handover
between two others, and two labels in different MOD classes suffice for a slot to
change its label; `want` wraps at 2 so that lost updates and the wrap-around meet
often, and the theorems hold for every width. In `CopyOnWrite` the code treats
blocks one by one, so two blocks show the loop, the cache of the last saved block
and ranges that are partly saved; two snapshots show blocks found in a later one.
Two writing threads meet at every step of `mfd_open_sn` and `b_write`; three, and
two threads with two snapshots or with failing calls, have not been checked.
`cow_crash` has one block only. `IntactDespiteFaults` was also checked once, with no
violation, on larger instances that are not kept as runs (the last two take minutes):
two blocks with one snapshot, one death and one failing call (2.2 million states,
`SavedForever` as well), two snapshots and one death (5.8 million), two snapshots and
one failing call (20 million). These cover a range of which only the first block is
saved. `sn_chain` lets names be used again and the chain reach `MAX_SNAPSHOTS`; its two
failing calls are what it takes for a call of `sn_create` and the cleanup after it to fail.
In `ns_tree` one path can be a directory or nothing and has two files below it, so
that two threads run `mkpath` for the same directory; of the three requests at most
one comes before the first snapshot, and at least two can race. In `pure` sizes of up
to 13 bytes give requests that lie in one block, begin or end at a boundary, or span
four blocks; the theorems hold for every size. Paths of 6 characters reach three
names and a slash at the end, and buffers of 9 make each name that is put together
fit, just not fit, and fail by far.

Deadlock is not checked where the system may really stop: in `lock_table` and
`lock_hang` the code can hang (see below); in `sn_crash` the file system cannot be
mounted any more; in `ns_tree`, `ns_directories` and `pure` the bounded requests
come to an end.

What the passing runs take for granted:

* `Quiet = TRUE`: snapshots are created only while no request on the file is being
  served, so `faults.raced` stays false. The code does not ensure this, and
  `cow_racing_snapshot` drops it. So does `cow_blocks` with
  `Quiet = FALSE`: then `ValidMeansLatest` fails, because `mfd_validate` stamps the
  handle with a number that it reads after the handle was set up (`mfd.c:508`).
* `IntactDespiteFaults` and `SavedDespiteFaults` say nothing once an open handle could
  not be set up again (`faults.stale`). With `SavedBeforeChange` in their place
  `cow_crash` shows why: `mfd_open_sn` stamps the handle before it can fail
  (`mfd.c:233`), so the retried write finds it valid and overwrites blocks that were
  not saved.
* `ReadsSnapshot` is about handles that have the dat file of the latest snapshot open, if
  that snapshot has a map file of the file (`HandleCurrent`).
  Without that condition it fails: a handle opened in a snapshot before the first
  change of the file goes on to read the main file.
* `TornCrash = FALSE`: the process does not end while `snapshots/.hid` is empty,
  between its truncation and the write or after a failed write. `sn_crash` drops
  this.
* `ChainWhole` is about executions without failing calls. `WalkFollowsChain`, `WalkFinds`
  and `ImplementsList` say nothing once mkdir has made a first snapshot of a name whose
  pointer file was left behind by a failed cleanup (`faults.adopted`): the chain then goes
  on to what that file names (below).
* `GetattrRight` and `ListingRight` are about paths on which no request worked while
  the snapshot was looked at; `AttributesIntact` about names that are never used for
  directories. `ns_directories` shows what becomes of those. In `Namespace` snapshots
  are taken only between requests, as with `Quiet`.

Liveness. `RequestsEnd` assumes weak fairness of the steps of each thread that serves
a request (`FairSpec`): such a thread runs straight on, and the only thing it ever
waits for is the lock of its file, which `LockSpec` grants as soon as it is free.
Nothing is assumed of new requests, snapshots, deaths or failures. So it says that no
way out of the functions forgets the lock. Whether the table behind `LockSpec` really
grants locks is another question: `LockGranted` is checked for `MFLock` with weak
fairness of all steps, a release by everyone who has a lock, and strong fairness of
the mutexes (a mutex that comes free again and again is given to each thread that
waits). It is violated, see `lock_hang`.

## Disagreements between the code and what it says

Runs that end in a counterexample:

* `lock_hang`: after a failed handover `mflock_lock` starts over but keeps the mutex
  (`mflock.c:229-231`), against `mflock.c:127` and `270`. When all slots are lost in
  this way, the next call searches for a free slot for ever, although two threads
  with one label and two slots should never be short of one.
* `cow_racing_snapshot`: `truncate` sets up its handle and saves blocks
  (`fuse_path_write.c:188`), and then truncates the file (`:194`). A snapshot created in
  between does not get the blocks that the truncation destroys, against
  `README.md:103-104`. In the trace it is the first snapshot, and the blocks are saved
  nowhere. A write can be overtaken in the same way between `mfd_validate` and `pwrite`
  (`fuse_fd_write.c:66-71`).
* `sn_crash`: `sn_set_latest` truncates `.hid` before it writes it
  (`snapshot.c:301`); after a death in between, mounting fails.
* `ns_directories`: `rmdir` saves nothing (`fuse_path_write.c:112`), so a directory
  removed after the snapshot was taken is gone from the snapshot too, against
  `README.md:10-11`.

Others, met while modelling, without a run of their own. The first three can be seen
with the changes described above.

* `mfd_validate` stamps the handle with a number read after it was set up
  (`mfd.c:508`), against `fuse_fd_write.c:65`.
* `mfd_open_sn` stamps the handle before it can fail (`mfd.c:233`).
* A handle opened in a snapshot before the first change of the file reads the changed
  main file, against `README.md:10`.
* getattr takes no lock: while a request works on the same path, it may find a map file
  that has no header yet, and fail, or look at the main space after the change although
  it passed the snapshot before its map file was there. Without `calm` in `GetattrRight`,
  `ns_tree` shows the first.
* A handle that keeps the number of a closed file after a failed set-up can never be set
  up again once a later snapshot is there: closing the number again fails
  (`mfd.c:499-502`), and so does every request on it.
* Whether getattr and access find a directory of a snapshot depends on a value that
  was never set (`fuse_path_read.c:70`, `143`).
* A directory made after the snapshot was taken may be shown in it, and directories
  that `mkpath` has made have the mode `S_IRWXU`, not the one of the main space.
* A thread that saves into a snapshot that is being removed may make its directories
  again, and `recursive_remove` fails or leaves them behind.
* Descriptors are lost when steps are closed without a first file (`mfd.c:553`) and
  after an error in `util.c:456`.
* readdir allows a name one byte longer than its buffer (`fuse_fd_read.c:168`; the
  others leave room for the final zero).
* The path of a first snapshot is not tested for room for an extension
  (`snapshot.c:358-361` tests only later ones). If it nearly fills the buffer, the room
  left for the path of a map file is negative, is compared as a `size_t`, and the test
  lets every path pass (`util.c:226`).
* `sn_create` ignores the result of the `unlink` and `rmdir` that clean up after an error
  (`snapshot.c:404`, `420`), and for a first snapshot it does not look for a pointer file.
  If the `unlink` fails, `ID.hid` stays. While there are snapshots, mkdir of that name
  fails; once there are none, it succeeds, and the new first snapshot points to the one
  before the failure, which may not exist, or may be made again later: then the pointers
  form a cycle, and `rmdir`, or a walk to another name, gives up at MAX_SNAPSHOTS.
* utimens saves nothing, by configuration (`types.h:57`).
* Lost updates of `want` (`mflock.c:221`, `223`) leave a label in the table that
  nobody uses, against `mflock.c:54-56`; its slot stays taken.
* A thread that looks for a free slot holds its MOD mutex (`mflock.c:245-277`); if
  no slot is free, the threads that would free one may wait for that mutex in
  `mflock_unlock`, and it searches for ever. Three threads reach this with two slots
  and three labels of one MOD class.
* `b_write` frees its buffer only after an error (`block.c:462`).
* A file created `O_WRONLY` is opened with these flags (`fuse_path_open.c:293`;
  compare `:194-195`), and its blocks cannot be read when they have to be saved.
* A file that was empty when the snapshot was taken takes its size in the snapshot
  from a later version (`mfd.c:775-777`, against `mfd.c:586`).
* `sn_destroy` does not change `sn_number`: a handle of a removed snapshot goes on
  saving blocks, and fails when the main file has lost them (`block.c:407`).
* If `recursive_remove` fails for the only snapshot, `.hid` is gone and
  `sn_is_any` still set: every later `rmdir` fails (`snapshot.c:460`).
* A process that dies while creating or removing a snapshot leaves a directory
  that is in no chain, and whose name cannot be used again; one that dies before
  the header of a map file is written leaves a file that cannot be changed until
  the next snapshot (`mfd.c:132-154`).
* `sn_get_earliest` copes with MAX_SNAPSHOTS snapshots, `sn_get_paths_to` with one
  less, `sn_create` does not count.

## What is proved

`BaseProofs` proves of `MFLock`, for any sets of threads and labels, any number of slots and
any width of `want` (`TableAssumption`: at least one slot, `WantMod` is not 0, labels
are numbers other than 0, `NoThread` is not a thread):

* `TypeCorrect`, `Exclusion`, `Uniqueness`: `TypeOK`, `MutualExclusion` and
  `LabelsUnique` always hold;
* `UnderMutexes`: labels change only under both mutexes (`LabelledUnderMutexes`);
* `Refinement`: `MFLock` implements `LockSpec`.

They rest on one inductive invariant, `LockInv` (`Inductive`). Mutual exclusion is
not inductive by itself: two holders are excluded because a holder's slot carries
its label (`HolderLabelled`), a label is in one slot (`LabelsUnique`), and a holder
owns the slot's mutex (`OwnsMutex`). That a label is never added twice needs to
know that the thread which adds it has seen the whole table without it, while
nobody else could add it: it has the label's MOD mutex (`OwnsMod`, `SeenAbsent`).
There is one lemma per conjunct with a case per action. The invariant does not
mention `want`, so mutual exclusion does not depend on its lost updates; nor does
it say that a thread outside the functions owns no mutex, which is false.
For the refinement, `Invisible`, `Acquires` and `Releases` reduce each step to
what it changes in `Holds`.

It proves of `Blocks`, for every block size and every bound on offsets and sizes
(`BlockAssumption`: a block has at least one byte):

* `ReadsRight`: each byte that `b_read` copies is the one that belongs in its place,
  and all of the request is copied (`BufferRight`);
* `SavesRight`: `b_write` and `b_truncate` go through the blocks that hold a byte
  which changes, and through no other (`SavesExactly`).

Their inductive invariant `Inv` says where the loop is: the blocks from `First` to
`blockoffset - 1` are done, `blocknumber` counts those from `blockoffset` to `Last`,
and `copyto` is the distance of the current block from the offset. The provers know
little about division, so `DivMod`, `Multiples`, `Order` and `DivUnique` state what is
needed of it, once.

And it proves of `Paths`, for paths, buffers and extensions of every length
(`PathAssumption`: lengths are numbers, and an extension is shorter than a buffer):

* `SnapshotsAlwaysReadOnly`: what is carried out in the main space is not below
  `/snapshots`, and there only mkdir of a second name and rmdir of the first change
  anything (`SnapshotsReadOnly`);
* `DecomposeAlwaysRight`: the number of names decides what `decompose_sn_path` finds, the
  id is the second name, and the parts give the path again (`DecomposeRight`);
* `PathsAlwaysFit`: what is put together fits its buffer, and nothing is refused that
  would (`PathsFit`), but for the two exceptions above: map and dat paths in a first
  snapshot, and the entries of readdir.

That the answer is the one computed from the request is immediate (`AlwaysAnswered`); the
work is in the lemmas about the operators: `NextSlashIs` (the first slash from
a place on), `InSnRight` (the test of `$$_IS_PATH_IN_SN` is whether the first name is
`snapshots`) and `DecomposeParts`, one case for each way out of `decompose_sn_path`. They
rest on there being no two slashes in a row, which libfuse sees to.

`CopyOnWriteProofs` is about any number of threads, readers, blocks and snapshots, with
snapshots created and removed, deaths of the process and failing system calls in any
number (`BoundAssumption`: the bounds are numbers; `ValueAssumption`: `Zero` is a content
of blocks; `ThreadAssumption`: threads and readers are different, and `NoThread` is none of
them). Without further conditions, so with snapshots created at any time:

* `Coherence`: what an open handle has cached of a map file, its header and the block
  saved last, agrees with the map file (`CacheCoherent`);
* `Forever`: headers, pointers and blocks that are saved are never changed
  (`SavedForever`).

Until an open handle is left without its map file (`faults.stale`), or a snapshot is
created while a request on the file is served (`faults.raced`):

* `SnapshotsIntact`: the file as it was when each snapshot was taken can be told from the
  disk (`IntactDespiteFaults`);
* `SavedBefore`: and nothing is destroyed in the main file that is not saved
  (`SavedDespiteFaults`);
* `BlockThere`, `ValidLatest`: and `b_write` finds the block it has to save in the main
  file (`OldBlockThere`), and a handle that `mfd_validate` lets through belongs to the
  latest snapshot (`ValidMeansLatest`);
* `ReadsRight`: and reading in a snapshot, through a handle that has the dat file of the
  latest one open if there is a map file (`HandleCurrent`), returns what was there when it was taken
  (`ReadsSnapshot`);
* `AlwaysIntact`, `AlwaysThere`, `AlwaysLatest`, `AlwaysReads`: without deaths and failing
  calls (`MaxCrash = 0`, `MaxError = 0`) no handle is ever left without its map file, and
  `SnapshotIntact`, `OldBlockThere`, `ValidMeansLatest` and `ReadsSnapshot` hold as long
  as no snapshot is created while a request is served.

These theorems do not assume `Quiet`: they are about every execution, up to the first such
event. Both conditions are needed: `cow_racing_snapshot` shows what happens after a race,
and `cow_crash` what happens when an open handle could not be set up again (above). The
code ensures neither, so the theorems say how far its promise goes.

There are three inductive invariants, one on top of the other. `Inv` (`Invariance`) says
where each thread is: what it has set up of its handle, that it has the file's lock where
it must, that its handle agrees with the map files. A step is in order (`StepOK`) if it
keeps this for its own thread and leaves alone what is not its own (`Frame`): other
threads, the map files unless it has the lock, and whatever is saved. `OthersInv` and
`Combine` show once that such a step keeps the invariant of all other threads, so each
action is only looked at from its own thread, in a lemma `...OK`. `Intact`
(`IntactAlways`) links each snapshot to the next one: what snapshot `s` has saved is as it
was taken, and what it has not saved was the same when `s + 1` was taken, or is so now if
`s` is the latest (`Linked`). That changes of the main file keep the last link needs the
rest: the handle of a thread that saves belongs to the latest snapshot (`Handled`), the
blocks of its range are saved up to the one it works on (`SavedTo`), and the block in its
buffer is the old one (`Copied`). Each action has a lemma `...Intact`. The property follows
along the chain: of the snapshots from `s` on, the first to have saved a block has it as it
was at `s`, and if there is none the main file has. `ReaderInv` says the same of a handle
in a snapshot: it has opened every dat file that a pointer of an earlier snapshot refers to,
and while it reads the main file, with the lock, no snapshot has the block (`Reading`).
The invariants were checked with TLC before they were proved.

`NamespaceProofs` proves, for any number of threads and snapshots and any tree
(`PathAssumption`: what is above a path is a directory; `NameAssumption`):

* `Typed`: type correctness (`TypeOK`);
* `AttributesAlways`: kind and attributes of the files of each snapshot can be told from the
  disk (`AttributesIntact`), and `GetattrAlwaysRight`: getattr does tell them
  (`GetattrRight`);
* `MkpathAlwaysResilient`: `mkpath` does not fail except in a snapshot that is being removed
  (`MkpathResilient`).

Its invariant (`Invariance`) has the same chain from snapshot to snapshot (`Linked`), and says
that the directories of a snapshot are closed under going up (`Closed`), that a map file
without a header is being written by a thread that is at that point, and for each request
which directories on its way exist (`Served`). `Looks` is the part about getattr: no snapshot
from the one asked for to the one before the current step has a map file (`Unsaved`).

`SnapshotsProofs` proves, for any set of names, any MAX_SNAPSHOTS from 2 on and any number
of failing calls and deaths (`SnapshotAssumption`):

* `TypeCorrect`: type correctness, and that no walk is longer than MAX_SNAPSHOTS (`TypeOK`);
* `ChainAlwaysWhole`, `PointersHaveDirs`: as long as no call fails, snapshots of the chain
  have all their files (`ChainWhole`); and a pointer file outlives its directory only if
  the `unlink` that cleans up after an error has failed for it (`PointerNeedsDir`);
* `WalksFollow`, `WalksFind`: until mkdir adopts such a pointer file (`faults.adopted`), a
  walk of `sn_get_paths_to` goes along the chain as it was when it started
  (`WalkFollowsChain`), and finds every snapshot of it that MAX_SNAPSHOTS allows
  (`WalkFinds`);
* `Refinement`: if the process does not die while `.hid` is empty (`~TornCrash`), the pointer
  files implement the list of `SnapshotList`, again up to then (`ImplementsList`).

The chain is not computed by recursion but described: of the sequences that start with the
latest snapshot and in which each one's pointer file names the next (`Linked`), it is the
longest (`ChainFrom`). The invariant (`IndInv`, in `Invariance`) has two parts. `Base` holds
in every execution: types, which names may have a pointer file without a directory, and that
nothing is left behind or adopted without a failed call. `Inv` holds until a pointer file is
adopted. It says that the chain ends at a snapshot without a pointer, has none twice, and that their directories exist (`ChainOK`), what memory and
`snapshots/.hid` have to do with it (`MemoryOK`), how far `sn_create` and `sn_destroy` have
come (`CreatingOK`: the new directory is not in the chain, and its pointer names the former
latest snapshot; `DestroyingOK`: the one to be removed is the last of the chain, or has
been taken off it), and that the chain a walk started from still stands, with the walk on
its way along it (`WalkingOK`). That a sequence of this kind is the chain is shown once
(`ChainIs`), and so is what becomes of it when a snapshot is put in front (`LongerChain`) or
the last one is taken off (`ShorterChain`).

Only model-checked:

* the type invariant of `CopyOnWrite`: `Inv` has the types of all that threads use, but not
  the result of a read, which may be anything after a race;
* `SavedOnce`: it compares the length of a dat file with the number of pointers set, and no
  invariant here counts them;
* `ListingRight`: its invariant would need, for each name, what readdir has seen and shown;
* `RequestsEnd`, since liveness is out of the prover's reach;
* the runs that end in a counterexample.

That `CopyOnWrite` may use `LockSpec` in place of the table rests on `Refinement` of
`BaseProofs`, on different files having different labels, and on no call of `mflock_lock`
waiting for ever.

## Not modelled

* Lock labels are djb2 hashes of paths (`string2locklabel`). Two files with the same
  hash share a lock; a thread never holds two of them, so this costs only time.
* The permission bits that access tests, times and utimens, fsync, handles of the main
  space that are opened for reading only, listings of the main space and of
  `/snapshots` itself: these forward a system call and change no state of ESFS.
* Failing system calls in requests that only read in a snapshot: they end the request.
* The number of open descriptors and the memory in use; sizes near the limits of
  `off_t`.
* The contents of a file of which the size is no multiple of the block size: the last
  block is saved as a whole block in `CopyOnWrite`; `Blocks` has the bytes.
* The command line, the log, `compile.pl` and `test.pl`.

## What could come next

1. A proof of `ListingRight`, along the lines of `GetattrRight`: for each name, what readdir
   has seen and shown so far agrees with the map files it has passed.
2. A proof of `SavedOnce`: a pointer is set to the length of the dat file, so that it differs
   from those set before, and the set of blocks saved grows by one.
