----------------------------- MODULE LabelSync -----------------------------
(***************************************************************************)
(* vdev_label.c: how a transaction group is committed with the labels and  *)
(* uberblocks of every disk, and how a restart chooses among what it finds *)
(* there.  Disks cache writes until they are flushed; a power failure at   *)
(* any moment loses, tears or completes each cached write on its own.      *)
(* Writes and flushes may fail; the code ignores a failed flush.  Disks    *)
(* may be missing at a restart.                                            *)
(***************************************************************************)
EXTENDS Integers, FiniteSets, FiniteSetsExt, Functions

CONSTANTS Disks,        \* the leaf vdevs
          Plans,        \* the pools, and how far each is followed
          VDEV_LABELS,  \* labels per disk
          UbCount,      \* VDEV_UBERBLOCK_COUNT: slots of an uberblock ring
          Torn,         \* an unreadable label or uberblock
          MaxIdle,      \* bound: txgs in a row in which nothing changed
          MayMiss       \* whether disks may be missing at a restart

Labels == 0 .. VDEV_LABELS - 1
Slots == 0 .. UbCount - 1

\* A plan: top is the top-level vdev of each leaf; bounds: the last txg, the failed
\* I/Os, the seconds of a boot and the power failures.

VARIABLES plan,      \* the plan of this behaviour
          platter,   \* what is on each disk for good
          cache,     \* writes accepted by a disk and not flushed
          online,    \* the disks that are there
          ub,        \* spa_uberblock
          ubsync,    \* spa_ubsync: the last uberblock reported as synced
          txg,       \* the txg being synced, or the last one synced
          dirty,     \* spa_config_dirty_list
          pc,        \* where vdev_config_sync is
          svd,       \* the top-level vdevs whose uberblocks are being written
          error, tryhard, \* its error and whether the flags have TRYHARD
          uptime,    \* gethrestime_sec
          boots,     \* how often the machine was started
          errors,    \* how many writes and flushes failed
          exposed    \* history: a power failure hit a disk with a failed flush

coreVars == <<ub, ubsync, txg, dirty, pc, svd, error, tryhard>>
vars == <<plan, platter, cache, online, coreVars, uptime, boots, errors, exposed>>

Top == plan.top
Tops == Range(Top)

\* An uberblock: root is the state of the pool it points to (ub_rootbp), named
\* by the txg and the boot that wrote it, with the disks its blocks were written
\* on; cfg is the configuration of each top-level vdev as the pool itself
\* records it.
FirstRoot == [txg |-> 1, boot |-> 0, on |-> Disks]
FirstUb == [txg |-> 1, timestamp |-> 0, root |-> FirstRoot,
            cfg |-> [t \in Tops |-> 1]]

Init ==
  /\ plan \in Plans
  /\ platter = [d \in Disks |->
       [data |-> {FirstRoot},
        lab |-> [l \in Labels |-> [txg |-> 1, cfg |-> 1]],
        ub |-> [l \in Labels |-> [n \in Slots |->
                  IF n = 1 % UbCount THEN FirstUb ELSE Torn]]]]
  /\ cache = {}
  /\ online = Disks
  /\ ub = FirstUb /\ ubsync = FirstUb /\ txg = 1 /\ dirty = {}
  /\ pc = "idle" /\ svd = {} /\ error = FALSE /\ tryhard = FALSE
  /\ uptime = 0 /\ boots = 0 /\ errors = 0 /\ exposed = FALSE

-----------------------------------------------------------------------------
(* Disks.  A write is [disk, at, val, late]; at names the place on the     *)
(* disk, late says that a flush of it has failed.                          *)

DataAt == <<"data">>
LabelAt(l) == <<"lab", l>>
UbAt(l, n) == <<"ub", l, n>>

Applied(p, at, val) ==
  CASE at[1] = "data" -> IF val = Torn THEN p
                         ELSE [p EXCEPT !.data = @ \cup {val}]
    [] at[1] = "lab" -> [p EXCEPT !.lab[at[2]] = val]
    [] at[1] = "ub" -> [p EXCEPT !.ub[at[2]][at[3]] = val]

\* The disks after a set of writes with different places.
Completed(p, ws) ==
  FoldSet(LAMBDA w, q : [q EXCEPT ![w.disk] = Applied(@, w.at, w.val)], p, ws)

\* The caches with further writes: one to a place already cached replaces it.
Cached(ws) == {c \in cache : \A w \in ws : <<w.disk, w.at>> # <<c.disk, c.at>>} \cup ws

\* Issue writes in parallel and wait for them; some may fail.
Issue(ws, failed) ==
  /\ failed \subseteq ws
  /\ errors' = errors + Cardinality(failed) /\ errors' <= plan.errors
  /\ cache' = Cached(ws \ failed)

\* zio_flush of the given disks.  Nobody looks at its error; a disk whose flush
\* failed keeps its writes in the cache.
Flush(ds) ==
  \E failed \in SUBSET {w.disk : w \in {w \in cache : w.disk \in ds}} :
    LET ws == {w \in cache : w.disk \in ds \ failed}
    IN  /\ errors' = errors + Cardinality(failed) /\ errors' <= plan.errors
        /\ platter' = Completed(platter, ws)
        /\ cache' = {[c EXCEPT !.late = c.late \/ c.disk \in failed] : c \in cache \ ws}

-----------------------------------------------------------------------------
(* spa_sync up to vdev_config_sync.                                        *)

\* A txg is synced: configurations in ts changed, blocks were written on ds.
SpaSync(ts, ds) ==
  /\ pc = "idle" /\ txg < plan.txgs
  /\ txg' = txg + 1
  /\ dirty' = dirty \cup ts
  \* uberblock_update
  /\ ub' = [txg |-> txg + 1, timestamp |-> uptime,
            root |-> [txg |-> txg + 1, boot |-> boots, on |-> ds],
            cfg |-> [t \in Tops |-> IF t \in ts THEN txg + 1 ELSE ub.cfg[t]]]
  /\ cache' = cache \cup {[disk |-> d, at |-> DataAt, val |-> ub'.root, late |-> FALSE] : d \in ds}
  /\ pc' = "flush" /\ error' = FALSE /\ tryhard' = FALSE
  /\ UNCHANGED <<svd, ubsync, platter, online, uptime, boots, errors, exposed>>

\* Nothing changed in this txg: vdev_config_sync returns at once.
SpaSyncNothing ==
  /\ pc = "idle" /\ txg < plan.txgs /\ dirty = {}
  /\ txg - ub.root.txg < MaxIdle
  /\ txg' = txg + 1
  /\ ub' = [ub EXCEPT !.txg = txg + 1, !.timestamp = uptime]
  /\ ubsync' = ub'
  /\ UNCHANGED <<platter, cache, online, dirty, pc, svd, error, tryhard,
                 uptime, boots, errors, exposed>>

\* The leaves of the given top-level vdevs that are there.
LeavesOf(ts) == {d \in online : Top[d] \in ts}

\* spa_vdev_txg_list: the top-level vdevs written in this txg.
Written == {Top[d] : d \in ub.root.on}

\* Mutant: only the head of the list of written vdevs is flushed.
FlushDataHead ==
  /\ pc = "flush"
  /\ Flush(LeavesOf({CHOOSE t \in Written : TRUE}))
  /\ pc' = "even"
  /\ UNCHANGED <<svd, ubsync, online, ub, txg, dirty, error, tryhard, uptime, boots, exposed>>

\* The write cache of every disk that was written to is flushed.
FlushData ==
  /\ pc = "flush"
  /\ Flush(LeavesOf(Written))
  /\ pc' = "even"
  /\ UNCHANGED <<svd, ubsync, online, ub, txg, dirty, error, tryhard, uptime, boots, exposed>>

\* vdev_label_sync for one disk: the labels of one parity, with the
\* configuration of the disk's top-level vdev.
LabelWrites(parity) ==
  {[disk |-> d, at |-> LabelAt(l), late |-> FALSE,
    val |-> [txg |-> txg, cfg |-> ub.cfg[Top[d]]]] :
     d \in LeavesOf(dirty), l \in {l \in Labels : l % 2 = parity}}

\* vdev_label_sync_top_done: some write of every dirty top-level vdev was good.
LabelsGood(ws) == \A t \in dirty : \E w \in ws : Top[w.disk] = t

\* vdev_label_sync_list, first half: write the labels of the dirty vdevs.
vdev_label_sync_list(from, to, parity) ==
  /\ pc = from
  /\ \E failed \in SUBSET LabelWrites(parity) :
        /\ Issue(LabelWrites(parity), failed)
        /\ error' = ~LabelsGood(LabelWrites(parity) \ failed)
  /\ pc' = to
  /\ UNCHANGED <<svd, ubsync, platter, online, ub, txg, dirty, tryhard, uptime, boots, exposed>>

\* ... second half: flush them; on an error go back to the start.
EvenDone ==
  /\ pc = "evenFlush"
  /\ Flush(LeavesOf(dirty))
  /\ pc' = IF error THEN "retry" ELSE "ub"
  /\ UNCHANGED <<svd, ubsync, online, ub, txg, dirty, error, tryhard, uptime, boots, exposed>>

OddDone ==
  /\ pc = "oddFlush"
  /\ Flush(LeavesOf(dirty))
  /\ pc' = IF error THEN "retry" ELSE "done"
  /\ UNCHANGED <<svd, ubsync, online, ub, txg, dirty, error, tryhard, uptime, boots, exposed>>

\* Mutant: the uberblock always goes to the same slot.
UbSlotFixed(u) == 1

UbSlot(u) == u.txg % UbCount

UbWrites(ts) ==
  {[disk |-> d, at |-> UbAt(l, UbSlot(ub)), val |-> ub, late |-> FALSE] :
     d \in LeavesOf(ts), l \in Labels}

\* vdev_uberblock_sync_list: all top-level vdevs when some are dirty, else a
\* few.  One good write is enough.
vdev_uberblock_sync_list(ts, failed) ==
  /\ pc = "ub"
  /\ dirty # {} => ts = Tops
  /\ ts # {}
  /\ Issue(UbWrites(ts), failed)
  /\ svd' = ts
  /\ error' = (failed = UbWrites(ts))
  /\ pc' = "ubFlush"
  /\ UNCHANGED <<ubsync, platter, online, ub, txg, dirty, tryhard, uptime, boots, exposed>>

UbDone ==
  /\ pc = "ubFlush"
  /\ Flush(LeavesOf(svd))
  /\ svd' = {}
  /\ pc' = IF error THEN "retry" ELSE "odd"
  /\ UNCHANGED <<ubsync, online, ub, txg, dirty, error, tryhard, uptime, boots, exposed>>

\* Once more from the start with TRYHARD; then spa_sync suspends the pool, and
\* calls again when it is resumed.
Retry ==
  /\ pc = "retry"
  /\ pc' = "flush"
  /\ tryhard' = ~tryhard
  /\ UNCHANGED <<svd, ubsync, platter, cache, online, ub, txg, dirty, error, uptime, boots, errors, exposed>>

\* spa_sync goes on: the configuration is clean and the txg synced.
SyncDone ==
  /\ pc = "done"
  /\ pc' = "idle"
  /\ dirty' = {}
  /\ ubsync' = ub
  /\ UNCHANGED <<svd, platter, cache, online, ub, txg, error, tryhard, uptime, boots, errors, exposed>>

-----------------------------------------------------------------------------
(* Power failure and restart.                                              *)

PowerFailure ==
  /\ pc # "down" /\ boots < plan.crashes
  /\ \E fate \in [cache -> {"done", "lost", "torn"}] :
       platter' = Completed(platter,
         {IF fate[w] = "torn" THEN [w EXCEPT !.val = Torn] ELSE w :
            w \in {w \in cache : fate[w] # "lost"}})
  /\ cache' = {}
  /\ exposed' = (exposed \/ \E w \in cache : w.late)
  /\ pc' = "down" /\ svd' = {}
  /\ boots' = boots + 1
  /\ uptime' = 0
  /\ UNCHANGED <<ubsync, online, ub, txg, dirty, error, tryhard, errors>>

\* The uberblocks on a disk that pass verification.
Uberblocks(d) ==
  {platter[d].ub[l][n] : l \in Labels, n \in Slots} \ {Torn}

\* vdev_uberblock_compare: ub1 is not better than ub2.
NotBetter(ub1, ub2) ==
  \/ ub1.txg < ub2.txg
  \/ ub1.txg = ub2.txg /\ ub1.timestamp <= ub2.timestamp

\* vdev_uberblock_load: a best uberblock of the disks ds, and a disk that has it.
IsBest(u, d, ds) ==
  /\ d \in ds /\ u \in Uberblocks(d)
  /\ \A e \in ds : \A v \in Uberblocks(e) : NotBetter(v, u)

\* vdev_label_read_config: the newest label that is not newer than txg t.
vdev_label_read_config(d, t) ==
  LET ls == {c \in {platter[d].lab[l] : l \in Labels} \ {Torn} : c.txg <= t}
  IN  {c \in ls : \A e \in ls : e.txg <= c.txg}

\* The pool is opened from the disks that are there.  The next config update
\* (spa_config_update) marks all vdevs dirty.  After the last power failure of a
\* plan the disks are only looked at.
Restart(ds) ==
  /\ pc = "down" /\ boots < plan.crashes
  /\ ds = Disks \/ MayMiss
  /\ \A t \in Tops : \E d \in ds : Top[d] = t
  /\ \E d \in ds : \E u \in Uberblocks(d) :
       /\ IsBest(u, d, ds)
       /\ ub' = u /\ ubsync' = u /\ txg' = u.txg
  /\ online' = ds
  /\ dirty' \in {{}, Tops}
  /\ pc' = "idle" /\ error' = FALSE /\ tryhard' = FALSE
  /\ UNCHANGED <<svd, platter, cache, uptime, boots, errors, exposed>>

Tick ==
  /\ pc = "idle" /\ uptime < plan.uptime
  /\ uptime' = uptime + 1
  /\ UNCHANGED <<platter, cache, online, coreVars, boots, errors, exposed>>

Next ==
  \/ \E ts \in SUBSET Tops, ds \in SUBSET online : ds # {} /\ SpaSync(ts, ds)
  \/ SpaSyncNothing
  \/ FlushData
  \/ vdev_label_sync_list("even", "evenFlush", 0) \/ EvenDone
  \/ \E ts \in SUBSET Tops : \E failed \in SUBSET UbWrites(ts) :
        vdev_uberblock_sync_list(ts, failed)
  \/ UbDone
  \/ vdev_label_sync_list("odd", "oddFlush", 1) \/ OddDone
  \/ Retry \/ SyncDone
  \/ PowerFailure
  \/ \E ds \in SUBSET Disks : Restart(ds)
  \/ Tick

Spec == Init /\ [][Next /\ UNCHANGED plan]_vars

-----------------------------------------------------------------------------
\* What a restart may choose with all disks there: an uberblock, and a disk that
\* has it.
BestPairs == {p \in (UNION {Uberblocks(d) : d \in Disks}) \X Disks :
                IsBest(p[1], p[2], Disks)}

\* The data an uberblock points to is on disk before the uberblock is: all disks
\* that the blocks of the best uberblock's txg were written on have them
\* (vdev_config_sync flushes every written disk first).
DataBehindUberblock ==
  pc = "down" =>
    \A p \in BestPairs : \A d \in p[1].root.on : p[1].root \in platter[d].data

\* The configuration read with the best uberblock, from the same disk, is the
\* one of the uberblock's txg: even labels are newer than the uberblock or
\* agree with it, odd labels are untouched or the even ones are good.
ConfigAgrees ==
  pc = "down" =>
    \A p \in BestPairs :
      LET c == vdev_label_read_config(p[2], p[1].txg)
      IN  c # {} /\ \A x \in c : x.cfg = p[1].cfg[Top[p[2]]]

\* vdev_label.c says "If none of the new uberblocks made it to disk, then the
\* previous uberblock will be the newest": some uberblock can always be read.
UberblockLeft == BestPairs # {}

\* vdev_config_sync commits atomically: a restart finds the state reported last
\* or the one that was being written, never an older one or a mixture.  This is
\* AtomicCommit up to a power failure that hits writes whose flush has failed.
Reported == IF pc # "down" THEN ubsync.root
            ELSE IF BestPairs = {} THEN Torn
            ELSE (CHOOSE p \in BestPairs : TRUE)[1].root

Prepared == IF pc \in {"idle", "down"} THEN Torn ELSE ub.root

AC == INSTANCE AtomicCommit WITH
        Roots <- UNION {[txg : 1 .. p.txgs, boot : 0 .. p.crashes, on : SUBSET Disks] : p \in Plans},
        NoRoot <- Torn, FirstRoot <- FirstRoot,
        reported <- Reported, prepared <- Prepared

CommitsAtomically == AC!Init /\ [][exposed' \/ AC!Next]_<<Reported, Prepared>>
=============================================================================
