# TLA+ models of llbt

llbt keeps copy-on-write pages in one memory-mapped file: one writer at a time,
any number of readers on snapshots, several processes that share a lock file, and
commits that survive a crash. This directory models it from the file up to the C
interface, checks the models with TLC and proves what matters most with TLAPS.

`PROJECT.json` says which lines of the source each definition stands for, which
properties each run checks, and the hazards they are about. Every action has an entry; a small
helper whose lines another definition covers may have none. `tlc -config X.cfg M`
repeats a run, `tlapm M.tla` a proof.

## The system and the modules

| Part | Source | Module |
|---|---|---|
| Which blocks a commit may reuse | `group_writer.cpp`, `db.cpp` | PageReuse |
| Where in the file arrays go; growth, free lists, evacuation | `group_writer.cpp` | FileSpace |
| The windows a commit writes through | `group_writer.cpp` | WriteWindows |
| Durability: journal, recovery, file header | `core/commit_journal.cpp`, `core/commit_recovery.cpp` | CommitJournal |
| Opening a file: validation, conversion, backups | `alloc_slab.cpp`, `group.cpp`, `backup_restore.cpp` | FileAttach |
| Version list and read locks | `db.cpp` | VersionList |
| Sessions: open, join, commit, compact, close, die | `db.cpp` | Sessions, on VersionList; Snapshots is its contract |
| Write lock with tickets | `db.cpp` | WriteLock |
| Asynchronous writes | `transaction.cpp`, `db.cpp` | AsyncCommit |
| Group commit, `Store::write` | `core/store.cpp` | GroupCommit; WriteService is its contract |
| Slab allocator | `alloc_slab.cpp` | SlabAlloc |
| Mappings of a growing file | `alloc_slab.cpp`, `alloc.hpp` | ReaderView |
| Translation of refs without a lock | `alloc.hpp`, `alloc_slab.cpp` | RefTranslation |
| Encrypted mappings | `util/encrypted_file_mapping.cpp` | EncryptedPages |
| Files and streams | `util/file.cpp` | FileIO |
| Emulated file lock, interprocess mutex, condition variable | `util/` | FileLock, ProcessMutex, ProcessCondVar |
| B+-tree | `bplustree.cpp` | BPlusTree; ElementList is its contract |
| Packed arrays, searches in them | `array.cpp`, `array_with_find.hpp` | PackedArray, ArrayWithFind, both on PackedWords |
| Leaves of strings, blobs and typed values | `array_*.cpp` | BlobLeaf, TypedLeaves |
| Decimals, mixed values, text search | `decimal128.cpp`, `mixed.cpp`, `string_data.hpp`, `unicode.cpp` | Decimal, MixedOrder, TextSearch |
| Transaction log | `impl/transact_log.hpp` | TransactLog |
| Store, roots, cursors, C interface | `core/store.cpp`, `c_api.cpp` | StoreApi |

How they fit together. A commit is grouped with others (GroupCommit), holds the
write lock (WriteLock, or AsyncCommit), takes free blocks that no reachable
snapshot uses (PageReuse; their places are FileSpace's), writes them through
windows (WriteWindows), appends a journal record or moves the header
(CommitJournal) and publishes its version in the lock file (VersionList,
Sessions). Readers map the file as it grows (ReaderView, RefTranslation).
After a crash the file is opened again (FileAttach), perhaps from its journal.

Conventions. A module's state is its VARIABLES, an operation of the code is one
action, or one action per section between two points where other threads can
interfere. A definition that stands in front of another one and is marked
`mutant`, or is used by nothing, is that one with a plausible mistake in it;
`PROJECT.json` names the property that catches it. Names of functions are the
code's where TLA+ allows it.

**PageReuse.** The file is a set of equal blocks. `used[v]`, `free[v]` and `at[v]`
are the arrays and the free list of snapshot `v`, `owner[b]` is the version that
last wrote block `b`, which is what a reader would see. A write goes through
`StartWrite`, `PurgeVersions`, `WriteGroup`, any number of `BackdateEntry` and
`Publish`. Any set of available blocks may be taken.

**CommitJournal.** The journal is an array of words and a record fills several, so
that new records can partly cover old ones. `cells`, `hdr`, `pages` are what
processes see, `disk`, `hdrDisk`, `pagesDisk` what a power failure leaves for
certain; it keeps any part of the difference. `FaultSets` selects what may go
wrong in a behaviour. Checksums are one attribute of a record. `Found` is what opening
the file would find in the present state, whether or not anybody opens it.

**GroupCommit** goes through `write()` and `lead_batch()` thread by thread, the
sections under the mutex being actions. Closures, begins and commits may fail, and
a commit that failed may be durable or not. Other writers are the `Other...` actions.

**Sessions** is DB::open, transactions, low_level_commit, compact and close step by
step, over **VersionList**, whose counters wrap at `Word`. A process may die between
any two steps. Nothing takes Full read locks, so they are left out.

**WriteLock** has tickets that wrap at `Wrap`, waits with time limits, `try` calls
and writers that are turned away. **AsyncCommit** has the helper's fields in one
record, a program point for its thread (`worker`) and one for the thread of each
transaction (`blocked`). A transaction may acquire the write lock itself, wait for it in
the helper's queue, or try for it (`TryPromote`); the history variable `mixed` remembers
that a lock got by trying was completed through the helper, see Findings.

**FileAttach** and **WriteWindows** keep what the device holds apart from what
processes see, and a crash may happen in every state. In FileAttach the journal of a file
is the chain of its records and what older records left behind it; a commit is journaled
or a checkpoint, as the code decides.

**RefTranslation** goes through the loads and stores of a translation one at a time: the
base of a cross-over mapping is stored before its address, and another thread may read the
entry in between.

**EncryptedPages** has a page of four cells and a table with two initialisation vectors
per page; cipher texts and HMACs are symbolic. A flush writes the table and then the page,
and processes read at any moment, with the retries and the time-out of `AESCryptor::read`.
Nothing orders the two writes on the disk: a power failure keeps any part of what was not
synchronised. The history variables `early` and `lost`, and the mark `excused` of a read
that threw, name what meets one of the cases under Findings.

**FileIO** cuts every read and write short at any byte.

**StoreApi** lets a call break off, where nothing has changed yet or between two of its
steps: `AddRootBreaks` and `RemoveRootBreaks` are the states between and behind the changes
of the three arrays of the registry, `AddedBefore` those inside a bulk append. **BlobLeaf** does the same for a packed leaf that meets a value too large for a
block (`Taken`). Single insertions into and removals from an array happen or do not; the
FIXME at `node.cpp:113` is outside the model.

**Data structures.** BPlusTree, PackedArray and BlobLeaf implement ElementList: the
refinement mapping reads the elements back out of nodes, words and bytes. Sizes are
scaled down and named: nodes of 4, words of 16 bits, a 6-digit decimal, a 9-digit
integer in the log. The scaled constants keep the order and the boundary cases of
the code's (a value that just does not fit, a block that is just full).

## What TLC checks

Five runs put several modules side by side: the variable `active` (`piece` in
MCDurability) picks one of `Pieces` in the initial state and only that module moves, so
that each module is checked as if alone. A property of such a run is often the conjunction
of what the module promises; the conjuncts have names and comments of their own.

| Run | Instance | What holds |
|---|---|---|
| `durability` | 4 blocks, 2 readers, 4 versions, symmetry; 1 DB object, 6 words of journal, records of 1 or 3 words, 4 commits, with power failures, or deaths and failing calls | no block of a snapshot in use is overwritten (`SnapshotsIntact`); the assertions on free lists hold (`FreeListsSound`); records stay intact unless back-dating happened (`IntactUnlessBackdated`); in every state recovery comes past every acknowledged commit before it ends, also where it refuses the file, and the two reasons to refuse are named (`AcknowledgedSurvive`); it settles only on complete snapshots (`RecoveredComplete`) |
| `commit_journal_refused` | the same journal, 6 commits, no fault | **violated**: see Findings |
| `group_commit` | 3 threads, batches of 2, 4 calls, 1 foreign commit | nodes are never lost or dangling, nobody sleeps without a leader, calls commit once and in order, a failure hits only its own call; implements WriteService |
| `group_commit_live` | 3 threads, 3 calls | every call returns |
| `sessions` | 2 DB objects, one with 2 transactions; or 1 transaction each and a death; 3 versions | counters are exact, pinned versions stay, the list is settled between commits; implements Snapshots |
| `async_commit` | 2 transactions (1 where any thread may unlock the mutex), another process, 2 versions; 3 without the other process and `TryPromote` | one writer at a time and the helper's assertions (`WriteMutexKept`); the version on disk stays pinned (`PinnedUnlessOutdated`); requests are granted and waits end (`NobodyStarves`) |
| `platform` | 3 files; 3 threads, mutexes in both builds; 3 waiters in three builds; 3 writers that block, or 2 that do everything, tickets modulo 9; deaths and time-outs | exclusion, nobody overlooked by a notification, the oldest ticket is served (`ServedIsOldest`), every call comes back, that of a writer included (`CallsComeBack`) |
| `values` | words of 16 bits, 6-digit decimals, short texts, 2 logged calls, files of up to 8 units and 2 openings | searches and sums equal element-wise ones; decimals are nearest and ordered; `like`, except for patterns that end in `**`, and `contains` agree with their definitions; the log replays what was called; an opening ends at the newest commit |
| `structures` | nodes of 4 with up to 8 elements; arrays of up to 18; leaves of 4 blobs; 2 transactions, leaves of 3 behind the C interface | each structure is the list or store it stands for, through all changes of representation; a call that fails or breaks off reaches no other root, transaction or version |
| `memory` | see `MCMemory.cfg`; encrypted pages: three mappings of one process, two and a power failure or death, or a reader and a writer of two processes, 2 versions | slabs, file space, windows, mappings, translation, encrypted pages and files are sound |
| `encrypted_pages_stale` | the two processes of `memory` | **violated**: see Findings |
| `file_attach_shrink` | as `values`, with `JournaledShrink` | **violated**: see Findings |

Why the bounds are enough. With two readers one can join the other on an old
version; four versions let one be purged above the oldest and be back-dated. Three
threads and batches of two give a batch that leaves someone out. Four commits with
records of 1 and 3 words fill the journal, force a checkpoint and append over old
records. Three versions and a list that starts with one entry make the version list
grow while a reader is in it. Nine tickets wrap with three writers. Two arrays on
either side of a section's end and two threads race for a limit that falls short. A
tree of 8 elements has three levels with splits, merges and general inner nodes.
`Max...` constants and call counts only cut behaviours short. Deadlock is checked except where a behaviour ends
when its calls are used up (the merged runs).

Fairness. Weak fairness of a thread inside an operation: the operating system
schedules it. Strong fairness where somebody else can take the mutex in between;
in GroupCommit and AsyncCommit the tickets justify it (`platform` shows that where writers
only block they make the write mutex fair with weak fairness; where writers also time out
and try, the mutex is assumed fair), in ProcessMutex, FileLock and ProcessCondVar the
mutexes of the operating system do. Weak fairness of the end of a
write transaction or a critical section: nobody keeps a lock for ever. Nothing is
assumed of time-outs in ProcessCondVar; in WriteLock a wait with a limit ends.

## What the instances leave out on purpose

Some constants are switches. The passing runs set them so that a behaviour described
under Findings does not hide the rest.

- `JournaledShrink = FALSE` (FileAttach): no journaled commit lowers the logical size
  below that of the last checkpoint. `file_attach_shrink` sets it to TRUE.
- `OpenReads = FALSE` (Sessions): `close(true)` is called with no read transaction open.
- `Unconfined = {t1}` (AsyncCommit): in builds where any thread may unlock the mutex,
  one transaction is asynchronous at a time.
- `failures` is at most 1 in the scenes of EncryptedPages: a second crash before the page is
  written again is under Findings.
- `FaultSets` and `Participant` (CommitJournal): one DB object; a behaviour has power
  failures, or deaths and failing calls, not both; the last `fsync` of a checkpoint, after
  which the header may or may not be on the disk, does not fail.
- `PinnedUnlessOutdated`, `IntactUnlessBackdated`, `AcknowledgedSurvive`, `WriteMutexKept`
  and `NobodyStarves` (`mixed`), `CopyWhole`, and `SnapshotDecrypted` and `ReadsSucceed` of
  EncryptedPages name their exceptions themselves.

## Findings

Shown by a run:

- `commit_journal_refused`: a checkpoint clears only the first word of the journal
  (`core/commit_journal.cpp:205`). When the records written since end exactly where an older
  one begins, recovery takes it for the next, finds that it does not continue the chain and
  refuses the file (`core/commit_recovery.cpp:89`). Nothing has to fail for that. After a
  power failure the same leftovers make it report corruption inside the chain (`:115`).
- `encrypted_pages_stale`: `get_iv_table` remembers a table before the read has found that
  the page still has its old text (`encrypted_file_mapping.cpp:351`, `:497`). A process that
  reads between the two writes of another one takes the old text for current later.
- `file_attach_shrink`: a journaled commit that lowers the logical file size below the size
  in the checkpoint makes the file unopenable (`alloc_slab.cpp:737`). The next session takes
  the newest top from the journal and cuts the file to its size; the following attach reads
  the header, whose top array has the larger size, and `validate_top_array` throws.

Met while modelling; without a run of their own:

- `promote_to_write(nonblocking)` locks behind the helper's back, also while a request of
  the same transaction waits (`transaction.hpp:321`). If the lock is then used as if the helper
  had acquired it, the assertions at `transaction.cpp:389` or `db.cpp:2106` fail; without
  assertions nobody gets the write mutex any more. This is `mixed`; `promote_to_async` is
  the documented way.
- The smallest integer divided by -1 is not guarded (`mixed.cpp:576`).
- Bulk calls are not atomic, though `c_api.h:262` and `:268` say so: `add_from` leaves values
  in the last leaf that the size does not count, `set_many` and `erase_many` leave a part, a
  packed leaf keeps the blocks before a value that is too large. The three arrays of the
  registry can get out of step, or a root can dangle (`core/store.cpp:110-133`). A rollback
  removes all this, a commit keeps it.
- `File::copy` does not truncate a longer target, except where `std::filesystem` is used
  (MSVC; `file.cpp:1441-1475`). A backup over a longer `.part` that was left behind is not
  the "1-1 copy" of `backup_restore.cpp:190`.
- Replaced mappings are to be kept until "no transaction can refer to them anymore"
  (`alloc_slab.cpp:1166`). The stamp that decides it follows the commits of one process, so
  with several writing processes it may lag; `NothingDangles` is about one.
- Encrypted pages: a reader that has seen no writer in five calls (`db.cpp:846`) trusts a
  table from before the last write and reports a sound page as corrupt, against the comment
  at `encrypted_file_mapping.cpp:408`; so may a read that races a write. There is no barrier
  between table and page (FIXME at `:589`), so that a power failure can lose committed data
  of the page. A second crash before the page is written again can make it unreadable.
  `do_sync` ignores the result of its `fsync` (`:968`).
- Back-dating an entry of the free list can make a block available that a journal record
  still names (`group_writer.cpp:808`, against the comment at `db.cpp:2543`). The theorem
  `JournalSafeWithoutBackdating` says it is the only way.
- Two DB objects of one file append to the journal independently, and a commit that one
  acknowledged can be covered by the other (`db.cpp:1234`).
- `close(true)` with an open read transaction releases it as another lock type than it was
  taken with (`db.cpp:2327`).
- When a deferred synchronisation fails and another process has committed meanwhile, the
  version on disk may no longer be pinned (`transaction.cpp:196`, `:470`).
- Two asynchronous transactions share the flag `m_waiting_for_write_mutex`, and one wake-up
  can be lost where the mutex is not confined to a thread.
- A crash between the preallocation and the first header leaves a file of zeros, which is
  rejected rather than created anew.
- Values of more than 16 MB in a chained blob are read back as null, and one of 16777169 to
  16777176 bytes makes `Store::compact()` throw (`core/store.cpp:410`).
- `read_int` reads an integer below -1 into an unsigned type by wrapping (`transact_log.hpp`).
- A decimal leaf of width 0, equal decimals of different width, and -0.0 stored over 0.0
  are found or kept incorrectly (`array_decimal128.cpp`, `array_basic_tpl.hpp`).
- The pattern `a**` does not match the text `a` (`string_data.cpp:47`).
- The comment that a branch of the condition variable is unreachable is wrong, and so is
  the sign in its invariant (`interprocess_condvar.cpp`); a waiter that dies leaves a byte
  in the pipe, and a notifier that dies in `notify_all` loses wake-ups.

## What is proved

All theorems hold for every value of the constants that satisfies the module's named
assumption.

**PageReuseProofs** (`PageReuseAssumption`: some version exists, the first free blocks are
not used). `SnapshotIsolation`, `FreeListsAreSound`, `JournalSafeWithoutBackdating`,
`TypeCorrect`. None is inductive alone. `IInv` adds: reachable versions lie between the
oldest and the newest; if a block is free in a snapshot since version `r`, no reachable
snapshot from `r` on uses it (`FreeSince`); a block beyond the end of a snapshot's file is
not used by it (`NotBeyond`); during a commit the same holds of the writer's tables
(`Written`, `WrittenGroup`); and without back-dating a record's blocks are used or were
released after the checkpoint (`JournalHeld`). So a block released no later than the
oldest reachable version is used by no reachable snapshot (`FreeSpaceUnused`), which is
the heart of snapshot isolation. Back-dating keeps `FreeSince` because the free list it
consults is that of the next older reachable version.

**GroupCommitProofs**, with GroupCommitInvariant and GroupCommitBatches
(`GroupCommitAssumption`: a batch holds at least one call). `NodesAreAccounted`,
`SleepersAreNotified`, `CommitsAreSound`, `WriteTypeCorrect`, and `ImplementsService`: the
safety part of the refinement of WriteService. Everything rests on one order: the calls in
the log, then those of the leader's batch that have not run to their end, then those in the
queue, have increasing numbers. A batch is a prefix of the queue and is committed as a whole
or from its front, so the log only grows by larger numbers. The proof is split so that
each module deals with the actions that touch one part of the state.

**WriteLockProofs** (`WriteLockAssumption`: finitely many writers, more than twice as many
tickets). `TicketsAreServedInOrder`. `InLine` says that tickets out are the numbers from
`next_served` on, without gap or repetition, modulo the range; where writers give up
(`rough`) tickets are passed over and the theorem claims nothing.

**PlatformProofs** (`FileLockAssumption`, `MutexAssumption`, `CondVarAssumption`).
`ExclusiveIsAlone`: whoever is past the `flock` has it, and a shared lock is an open pipe.
`MutexExcludes`: a thread inside has the lock of its build, through deaths.
`NotificationsReachAll`: bytes in the pipe, suspended threads and the two counters balance,
and the notifier's position is never past a process with a waiter.

**TranslationProofs** (`TranslationAssumption`: arrays do not overlap). `TranslationIsSound`.
At most one array crosses the end of a section, no limit passes its start (`LimitBelow`), a
published cross-over mapping is that array's (`EntryFinal`), its base is stored before its address, a
thread asks for it only after it has seen the limit there (`Informed`), and a second table is a copy of the first or
newer (`Copied`).

**AsyncCommitProofs** (`AsyncCommitAssumption`). `WriteMutexIsKept`: at most one
transaction writes or has commits that are not on disk, and then its process has the write
mutex; the assertions of the helper thread hold, but for a sync without the mutex once `mixed`; for
any number of transactions. `AInv`
says that the stages of a transaction fit the point its thread is at (`Coherent`), that each
request and claim waits for the helper once, unless `mixed` (`Lines`), that only one transaction has the write
lock or is about to get it from the helper, and who holds the mutex for it (`Owned`), and what
the helper has been asked to do at each of its program points (`Tasks`).

### Only model-checked

- Liveness and everything under fairness: the prover has no rule for ENABLED.
- CommitJournal: recovery is a scan defined by recursion over the journal, and what it
  returns for every journal needs induction over data.
- Sessions and its refinement of Snapshots: releasing the versions of a process that died is
  a fold over the version list, which needs the same induction.
- `PinnedUnlessOutdated` of AsyncCommit, a claim about a history that spans the failure of a
  synchronisation and a foreign commit.
- Modules with recursive operators, about which the prover cannot reason: ArrayWithFind,
  BPlusTree, BlobLeaf, Decimal, PackedArray, SlabAlloc, TextSearch, TransactLog, TypedLeaves.
- FileAttach, FileSpace, WriteWindows, ReaderView, EncryptedPages, FileIO, MixedOrder and
  StoreApi: their properties are conjunctions over data whose interest lies in boundary
  cases, which the instances choose.

## Not modelled

Identifiers, time stamps, hashes and encodings are pure conversions of fixed-size data.
Errors, logging and metrics change no state of the store. Directories, paths and branches
for other platforms than POSIX are left out of FileIO, decimal arithmetic in the external
library out of Decimal. `PROJECT.json` lists every part with its status, and the hazards no
property covers with the reason.
