# A TLA+ model of zfsd

zfsd runs the ZFS storage code in a user-space daemon.  `src/src/fs/zfs` is the
ZFS code of illumos; `src/src/lib/libspl` replaces the kernel services it needs
(locks, condition variables, task queues, memory) by pthreads and the C
library; `src/src/cmd/zfsd` starts both.  This directory models the parts whose
correctness rests on the order in which threads run, on what a power failure
leaves behind, or on several data structures agreeing with each other.

`PROJECT.json` lists every part of the system with its status, the lines each
definition models, the hazards (what can go wrong that a test would hardly
reach), the runs, and for every property a mutation of the model that breaks it.

## The parts and how they interact

A transaction (`dmu_tx.c`) enters the open txg with `txg_hold_open`, files its
changes and its commit callbacks under that txg, and leaves.  The quiesce thread
closes the open txg and waits for its holders; the sync thread runs `spa_sync`
on it, which executes the queued sync tasks, writes the changes, and commits them
with labels and uberblocks.  Commit callbacks then go to a task queue.  Between
two txgs `zil_commit` makes single operations stable through the intent log.
All of this writes through the I/O pipeline to blocks of a metaslab, on mirrors
whose dirty time logs say what a disk missed.  Send and receive read and write
datasets from outside, each with two threads and a blocking queue.

| part | source | modules |
|---|---|---|
| transaction group pipeline | `fs/zfs/txg.c` | `Txg`, abstract `GroupCommit` |
| transactions, write throttle | `dmu_tx.c`, `dsl_pool.c` | `DmuTx` |
| sync tasks | `dsl_synctask.c`, `dsl_dataset.c`, `dsl_destroy.c` | `DslSyncTask` |
| snapshots, clones, deadlists | `dsl_dataset.c`, `dsl_destroy.c`, `dsl_deadlist.c` | `Snapshots`, `Deadlist` |
| intent log | `zil.c` | `ZilCommit` (who commits), `Zil` (what is on disk) |
| labels and uberblocks | `vdev_label.c`, `uberblock.c` | `LabelSync`, abstract `AtomicCommit` |
| allocator | `metaslab.c`, `space_map.c` | `Metaslab` |
| dirty time logs, resilver | `vdev.c`, `dsl_scan.c`, `spa.c` | `Resilver` |
| per-txg object lists | `txg.c` | `TxgList` |
| I/O pipeline | `zio.c` | `Zio` |
| send and receive | `dmu_send.c`, `bqueue.c` | `SendStream`, `RecvStream`, `Bqueue`, composed in `Replication` |
| task queues | `lib/libspl/taskq.c` | `Taskq` |
| locks | `rrwlock.c`, `zrlock.c`, `spa_misc.c`, `lib/libspl/rwlock.c` with `ck_rwlock.h` | `Rrwlock`, `Zrlock`, `SpaConfigLock`, `KRwlock`, abstract `RWLock`; `LockThreads` declares the threads |
| file range locks | `zfs_rlock.c` | `RangeLock`, abstract `RangeLocks` |

How they are put together.  `Txg` promises `GroupCommit`; `DslSyncTask`, `DmuTx`,
`Zil`, `Metaslab` and `TxgList` take that for granted and reduce the pipeline to
the txgs their part sees (open, quiescing, syncing).  `LabelSync` shows why a
commit is one step for the others, `ZilCommit` why `Zil` may have one commit at a
time, `RWLock` what `DslSyncTask` uses of the configuration lock.  `Replication`
composes the two ends of a stream.

## How the modules read

A section of code under a lock is one action, from the lock or the wake-up to the
next wait or unlock; code outside a lock is split wherever another thread could
see or change what it uses.  State variables bear the names of the fields.  A
condition variable is a set of sleepers, `cv_signal` wakes one chosen at random,
`cv_broadcast` all, and a sleeper may wake for no reason.  Time is not counted:
a timer may end at any moment.  The build defines `_KERNEL` and `__zfsd__`, and
assertions are live: an assertion of the code is an invariant here or part of
one.  What a module leaves out:

* **Txg**.  `spa_sync` picks up the slot's changes (`SyncWrite`) and makes them
  durable (`SyncFinish`); changes that syncing context makes itself are part of
  the first.  `txg_sync_stop` is called when the pool has no users left, as
  `spa_unload` does.  `txg_sync_waiting` only reads.
* **Taskq**.  `KM_SLEEP` is 0 in libspl, so `tqflags & KM_SLEEP` is never true and
  the timed wait behind it is unreachable; the model has neither.  `task_alloc`
  and `task_free` drop the lock around the allocator, which may fail.  A task is
  dispatched once.
* **Locks**.  Every access to `zr_refcount`, and every atomic operation of
  `ck_rwlock`, is an action.  The fences of `ck_rwlock` make memory sequentially
  consistent.  In `KRwlock` a thread has one read hold at a time.  In
  `SpaConfigLock` a thread asks for further locks in ascending order only, which
  is the discipline its callers keep.
* **RangeLock**.  Offsets are few and small; the parts of `zfs_write` and
  `zfs_trunc` that appending and growing depend on are included: the offset limit,
  writes in several pieces, and the refusals of `zfs_grow_blocksize`.
* **DmuTx**.  The estimates of `dmu_tx_hold_*` and the result of
  `dsl_dir_tempreserve_space` are outcomes, and a hold may fail; delays may take
  any time.
* **DslSyncTask**.  Snapshots, creation and destruction by name, in one directory;
  the check functions are those of these operations, and a snapshot in use is not
  destroyed.
* **Snapshots**.  A sync task is an operator on the pool.  A block has size 1;
  quotas, properties, holds and old pool formats are left out.
* **Zil**.  A log block holds `Fit` records; the data of an indirect write is
  written before the log block that refers to it.  Replay may fail: it is tried once
  more after the txg, and then the rest of the log is given up.  Sizes and the
  freeze of ztest are left out.  `zil_close` is not modelled.
* **ZilCommit**.  Suspension comes with a cookie and without one; a log that was not
  replayed refuses it with EBUSY, and `zil_create` may find no space.
* **SendStream, Replication**.  In this build `vn_rdwr` is a stub that returns
  ENOSYS; the model has the pipe that the code is written for.
* **Zio**.  Null, read and write I/Os with one parent each; gang blocks,
  deduplication, checksums and transforms are left out.  The I/Os to the devices
  are counted, not named.
* **LabelSync**.  A power failure loses, tears or completes each cached write on
  its own.  Writes and flushes may fail; a flush that fails leaves the writes in the
  cache, and its result is ignored where the code ignores it.  What a label says is
  the txg of its configuration.
* **Metaslab**.  One metaslab, blocks of one size; a range tree is a set and a
  space map the set it leaves allocated, so merging of ranges is not seen.  The
  choice of a metaslab is left out.  A restart continues from one uberblock, and
  the older ones are not protected until newer txgs replace them (`kept`).
* **Resilver**.  One mirror; the order of the traversal and its bookmark are left
  out, so a scan visits its blocks in any order.  `partly` records the disks that
  the scan in progress does not serve in full, `skipped` those of completed scans.

## Runs

Some runs exercise several modules side by side: the MC module has a variable
`part`, every behaviour picks one part in its first state, and the variables of
the other parts stay as they are initialised.  Properties are then conjunctions
over the parts.

| run | instance | what it shows |
|---|---|---|
| `txg_ranges` | 2 CPUs, 1 transaction, txgs 4..8 and the two of shutdown; 3 threads on a volume of 3 offsets, a file of 2 | no txg syncs under a holder, synced is durable, callbacks run with their txg, clean shutdown, `GroupCommit`; the tree of proxies is exact, `RangeLocks`, appends overwrite nothing |
| `txg_live` | 1 CPU, 1 transaction, 1 waiter | waiters return, shutdown completes |
| `taskq` | 2 workers, 2 clients, 4 tasks, limit 2 | destruction, recursion and waiting, every call returns |
| `taskq_limit` | as `taskq` | **violated**: a `TQ_SLEEP` dispatch is refused (see below) |
| `locks` | 3 threads, 2 tags, 2 locks per array, 1 I/O | each lock implements `RWLock`, counts are exact, writers get in |
| `replication` | 4 blocks, queues of size 3, failures anywhere | a prefix is applied, success means all, queues are not used after they are gone, both ends return |
| `dsl` | 3 callers, 1 reader, 1 crash; a snapshot in use; 1 block, 4 datasets, 2 directories; 2 transactions crosswise on 2 dnodes; 3 throttled transactions | callers are told the truth, lookups are whole, blocks are freed exactly when unreferenced, a dnode is in one txg, dirty data is accounted, every transaction is assigned or refused |
| `zil` | 2 committers, 2 suspenders; create and indirect write with 2 crashes; write and remove with 1; 2 log blocks, failing allocations, data and replay | what `zil_commit` reported survives in order and is applied once, every commit returns |
| `zio` | 3 I/Os in 3 trees, 2 slots, 1 fault | one executor, blocks exact after reexecution, errors reported, every I/O completes |
| `spa` | 2 blocks, 8 txgs, 1 crash, failing writes; 2 vdevs, 7 txgs; 5 plans for a mirror | the allocator, the lists of dirty vdevs, honest dirty time logs |
| `labels` | 2 disks, as two vdevs or one mirror, 2 labels, rings of 3; up to 4 txgs, 2 errors, 2 power failures | a restart finds an uberblock with all its data, and a label; `AtomicCommit` |
| `spa_dtl` | the mirror of `spa` | **violated**: a log is emptied although a repair failed (see below) |

Why the bounds are enough.  The four slots of the txg ring are reused: the runs go
beyond the fourth txg.  Two CPUs are the least with which the quiesce thread can
have some open locks and not others.  Four tasks on a limit of two reach the
limit, the free list and the allocator.  Three threads on a lock are a holder,
one who waits and one who overtakes; two locks of an array are enough to have one
and wait for the other.  Two transactions that take two dnodes crosswise, one
of them twice, reach every refusal of `dmu_tx_try_assign`.  Of three
throttled transactions two sleep at once, so that the first to wake must wake the
next.  With two labels there is an even and an odd one; a ring of three keeps the
last two uberblocks, and the fourth txg uses it again.  The plans of the mirror
pair what can meet: a crash with a failing repair, a scrub with an attach.  Two
log blocks are a block and the one it names.  One fault sets in at any moment and
stays until the pool is cleared.  Every bound is a constant with that remark.

Deadlock is not checked where a bounded scenario ends (`CHECK_DEADLOCK FALSE`);
that nobody is left waiting is stated by the liveness properties instead.

Fairness.  Every thread that can run does so (weak fairness), the body of a
critical section, a task, a transaction or an I/O ends, the power stays on when
it has failed often enough, faults end and a suspended pool is cleared.  Strong
fairness is assumed where a mutex or lock that is free again and again must be
taken: the open locks in `Txg`, the configuration lock of the sync thread in
`DslSyncTask`, and the release of what a thread has in `SpaConfigLock`.  pthreads
does not promise this; without it a stream of others could keep the thread out
for ever, in the code as in the model.  Nothing is assumed about new calls, timers
or spurious wake-ups.

## Two disagreements in the code

`taskq_limit`: `task_alloc` (`taskq.c:105`) returns NULL when `tq_maxalloc`
entries exist, whatever the flags.  Its comment says that a dispatch that may
sleep is delayed by up to a second and then allocates; `kmem.h:35` says of
`KM_SLEEP` "success guaranteed".  `txg_dispatch_callbacks` (`txg.c:441`) creates
its queue with a limit of twice the CPUs and ignores the result of the dispatch:
when the callbacks of earlier txgs are still running, those of a CPU are lost.

`spa_dtl`: `vdev_dtl_reassess` (`vdev.c:1833`) empties `DTL_MISSING` up to the end
of a completed scan when `scn_errors` is 0.  Its comment says that the scrub log is
folded in if there was no reboot, and "Otherwise, leave the dtl as-is if there was
an error".  A repair that fails is recorded in `DTL_SCRUB` only (`vdev.c:2927`),
which is in memory, and `scn_errors` counts failing reads only.  When the power
fails after that, the resumed scan does not come back to the block, ends without an
error, and the log forgets a block that the disk does not have.

## What the passing instances stay clear of

With other constants the same modules reach situations in which the code does not
do what its comments say.  The properties above claim nothing about them:

* `LabelSync` with a ring of two, or after as many idle txgs as the ring is long:
  the next uberblock goes to the slot of the only current one.  A power failure
  after a flush that failed may leave an uberblock without its data, because
  `vdev_config_sync` does not look at the result of the flush (`exposed`;
  `RestartWhole` claims nothing then).  After an error, or with two power failures
  both during `vdev_config_sync`, a disk may be left without a label that is not
  newer than the uberblock: that the labels agree is claimed for one power failure
  and no error.  `MayMiss` lets an older uberblock of the same txg win, because
  timestamps start again at every boot (`uberblock.c:58`).
* `DmuTx` with three throttled transactions of which one is refused: the chain of
  wake-ups of `dsl_pool_dirty_delta` ends there (`dsl_pool.c:453`).
* `ZilCommit` with `Fresh`: `zil_suspend` returns while the first log block is
  being created (`zil.c:1962`).
* `Zil` with renames (a rename may reach the log before the data, `zil.c:1286`),
  with removals assigned behind the commit list (`zil.c:1125`: the property
  excepts removed objects), and with failing writes of log blocks (`zil.c:914`).
  When the replay of an operation fails twice the log behind it is given up
  (`given_up`), committed or not; `CommittedSurvive` excepts it.
* `Snapshots`: rolling back a clone without snapshots of its own resets the unique
  space of its origin (`dsl_dataset.c:3039`).
* `Zio`: an I/O that fails with another error than ENOSPC after `zio_resume` leaves
  the caller of `zio_resume` waiting (`zio.c:3705`); a root with a failing read
  and a write that is reexecuted loses the read's error, which is why
  `ErrorsReported` is checked on trees that do not mix the two.
* `Resilver`: a completed scan empties the dirty time log of a disk that it did not
  serve in full when the disk was down meanwhile (`vdev.c:1781`), when a failed
  repair was forgotten in a crash (`vdev.c:1833`, the run `spa_dtl`), and when a
  scrub that was requested first takes the place of the resilver of an attached disk
  (`dsl_scan.c:204`).  The mirror's plans reach all three; `HonestIfPresent` excepts
  exactly the disks in `skipped`.

## Proofs

The proofs hold for every value of the constants that satisfies the named assumption
of the module (`TxgAssumption`, `MetaslabAssumption`, ...): finite sets of threads,
numbers that are numbers, names that do not clash.  Where two components share a
proof module one of them is an instance in it (`Dt` of `DmuTx`, `Zc` of
`ZilCommit`), and its assumption is the hypothesis of its theorems.  The bounds in
the guards are arbitrary.  Each rests on an inductive invariant that TLC checked
first on the small instances; the safety properties alone are not inductive.

**`TxgProofs`.**  `TxgInv` says: the places of the two threads
determine which txgs exist, so the active ones are an interval of at most three
(`PipelineInv`); an entering transaction has its CPU's open lock and the quiesce
thread a prefix or suffix of them (`LockInv`); `tc_count` counts the holders
(`CountInv`); a holder is in an active txg that is not quiesced and not in the
closing txg on a CPU already drained (`HoldInv`); what is filed under a slot
belongs to the one active txg with that slot (`DataInv`).  Consecutive txgs, at
most three, have different slots of four.  From it follow `NoHolderSyncs`,
`SlotsSuffice`, `ActiveAreConsecutive`, `SyncedDurable`, `CallbacksDispatched`, the
action properties `SyncsInOrder` and `CallbacksOnTime`, and `Refinement` to
`GroupCommit`.  `StopsClean` needs one thing more, `StopInv`: once `txg_sync_stop`
has read `tx_open_txg` nobody files anything, all that is filed is in a txg up to
its target, and the threads are told to exit only when that target is synced.

**`DurabilityProofs`, the allocator.**  `MsInv` says, block by block, where a block
is and why: the trees of the open txgs hold the blocks born in them (`Births`); the
metaslab is on the lists that will write and finish it (`Dirty`); what the space map
in core and on disk holds at each step of `metaslab_sync`, while it is being
condensed too (`Map`); a block is in use, on its way back or deferred, never two of
these (`Apart`); the free tree is the rest (`Free`); what the last three uberblocks
that are still protected and the intent log refer to is in use or not yet back
(`Old`, `Logged`).  From it
follow `FreeUnused` (nothing that a restart could need is allocated again) and
`SpaceMap` (the map is what the uberblock refers to, and the trees partition the
blocks).  `CondenseStable` shows that while `metaslab_condense` has
dropped the lock nothing is allocated from the free tree it writes, and that nothing
is added but a block of a later txg whose write failed (`metaslab_unalloc_dva`).

**`DurabilityProofs`, the intent log.**  `ZilInv` says: there is at most one writer
and it commits the batch before `zl_next_batch` (`Batches`); who waits for a
committed batch has stable records, who waits for the batch being written has them
among those collected (`Records`); `zl_suspend` counts the suspenders, and a writer
that uses the log began before the suspender in charge joined a batch (`Suspended`).
`CommitStable` follows, for any threads, suspenders and numbers of calls, and with a
log or without one at first.

**`TransactionProofs`, transactions.**  `TxInv` says: at most three txgs
(`Pipeline`); a transaction in a txg keeps it from quiescing, and from closing while
it takes dnodes (`Positions`); a dnode's holds are exactly the positions in
`tx_holds` that its transactions have taken and not yet released, all in its txg
(`TakenDnodes`).  `OneTxg` and `DirtyTotal` follow, for any transactions, holds and
limits.

**`TransactionProofs`, sync tasks.**  `SyncTaskInv` says: the list of a slot holds
tasks of one txg, each once (`QueueInv`, `ListInv`); what a caller has been told
agrees with whether its task was executed and is on disk (`CallInv`); a syncfunc
runs under the configuration lock taken as writer, on the first task of the txg that
syncs (`SyncInv`); names and datasets agree, in core except while a syncfunc is half
done, and on disk always (`DataInv`).  `ReturnIsTrue` and `LookupIsWhole` follow,
for any callers, readers and names and any number of power failures.

**`LockProofs`, `SpaConfigLockProofs`.**  `RrwInv`: the anonymous and linked counts of
every lock are its read holds of the two kinds, and a writer owns a prefix of the
locks, each without readers.  `KRwInv`: the two counters of `ck_rwlock` agree with
where the threads are between their atomic operations, and the writer field with
the one that writes.  `ZrlSleepInv`: `zr_refcount` is the number of references or
says that one thread has the lock; `zr_mtx` is held by whoever is between the test
of `zr_refcount` and the sleep, so the owner has not yet stored and will wake it.
`SclCallInv`: a call of `spa_config_enter`, `spa_config_tryenter` or
`spa_config_exit` has what it visited and not what is left to visit;
`scl_write_wanted` is the number of writers that wait at a lock, and whoever sleeps
there finds it held or wanted.  All four locks implement `RWLock`
(`RrwRefinement`, `KrwRefinement`, `ZrlRefinement`, `SclRefinement`, the last
provided `NoThread` is not an I/O); of the re-entrant one follow `Exclusion`,
`Reentrancy` and `HeldExact`, of the configuration locks the action property
`SclTry`.  The locks but the re-entrant one are instances in these modules, over the
threads and the `NLocks` of `Rrwlock`.

**`TaskqProofs`.**  `TaskqInv` says: the queue holds each task that is queued once
(`QueueInv`); a worker that runs a task or allocates an entry is at the place its
status says (`RunInv`, `AllocInv`); `tq_nalloc`, `tq_active` and `tq_nthreads` count
the entries in use or free, the workers that are not waiting and those that have not
exited (`CountInv`); while somebody destroys the queue nobody else is in a call, and
each step of `taskq_destroy` finds less left (`DestroyInv`).  `DestroyIsClean` and
the action property `WaitIsDeep` follow, for any workers, clients, tasks and limits.

**`SendStreamProofs`, `ReplicationProofs`.**  The records of a snapshot are numbered
in the order of the traversal, the end-of-stream record comes after them, and the
position of a record decides where it is: of the records put in the queue so far
(`Put`) the last are in the queue, before them comes the one in the hand of the
thread that takes them off, and all earlier ones have been seen (`Taken`, `Seen`; in
the receiver `Dealt`).  `SendInv` says so of the queue and of the calls that threads
are in (`SendOrder`, `SendCalls`), that exactly the records not yet seen, and the
one main is at, are allocated (`SendRecords`), that `bq_size` is the sum of the
sizes in the queue (`Sized`), and what was written and what the error codes say of
it (`SendState`).  `RecvInv(c)` says the same of a receiver that has read `c`
records.  `Behind(c)` joins the two: what was read had been written, and `DRR_END`
is read only after a send that succeeded. `ReplInv` is `SendInv` and, for some `c`,
the other two.  `TransferIsWhole` and `QueuesGoUnused` follow, for any snapshot (an
empty one too), any sizes that fit the queue and whatever fails.  That the sizes in
the queue add up is stated by a witness, the function of partial sums, so that no
sum has to be computed by recursion.

Only model-checked.  Liveness and everything under fairness (`CallersReturn`,
`CallsReturn`, `WritersEnter`, `BothReturn`, `AssignReturns`, `EveryCallReturns`,
`EveryCommitReturns`, `EveryIoCompletes`): the prover has no rules for it.  What
rests on sums over sets, on folds or on the order of sequences of any length
(`BlocksExact` of snapshots, `TreeExact`, `DirtyVdevsFlushed`,
`CommittedSurvive`): this would need induction over data.  `Zio`,
`LabelSync` and `Resilver` have no proofs.

## What is not modelled

The ARC, dbufs and dnodes; ZAP, system attributes and DDT; RAID-Z, compression,
checksums and name-value lists (sequential code on large data); import, export and
the rest of the pool's life cycle; the file system layer and the ioctl interface
(thin, or dependent on a host kernel); the start of the daemon, libphenom and
other third-party code; the pthread wrappers and their clock arithmetic.
`PROJECT.json` gives the reason part by part.
