------------------------------ MODULE Snapshots ------------------------------
(***************************************************************************)
(* Snapshots, clones and the space they share (dsl_dataset.c,              *)
(* dsl_destroy.c).  Blocks are born and killed in heads; snapshots are     *)
(* taken and destroyed, datasets cloned, promoted, rolled back, received   *)
(* into and destroyed.  A block that nobody refers to any more is freed at *)
(* that moment, found by birth times and deadlists alone: no reference is  *)
(* ever counted.                                                           *)
(*                                                                         *)
(* What a sync task does is an operator on the pool, because some tasks    *)
(* are put together from others.                                           *)
(***************************************************************************)
EXTENDS Deadlist

CONSTANTS Blocks,
          Objs,      \* objects of datasets, beside the two of $ORIGIN
          Dirs,      \* dsl_dirs, beside that of $ORIGIN
          Tasks,     \* the sync tasks that occur, beside snapshots and their destruction
          MaxTxg     \* bound: the last txg

VARIABLES pool,   \* ds: the dsl_dataset_phys_t; dir: the dsl_dir_phys_t;
                  \* birth: per block the txg of its birth, 0 for a free block
          txg,
          phase   \* of the sync: "data", then "tasks"

vars == <<pool, txg, phase>>

ORIGIN == 1        \* dp_origin_snap, the origin of what has no other
ORIGIN_HEAD == 2
NoTxg == 1000      \* UINT64_MAX

IsHead(P, o) == o \in DOMAIN P.ds \ {ORIGIN_HEAD} /\ ~P.ds[o].snap
IsSnap(P, o) == o \in DOMAIN P.ds \ {ORIGIN} /\ P.ds[o].snap
DirOf(P, o) == P.dir[P.ds[o].dir]
HeadOf(P, o) == DirOf(P, o).head
NextOf(P, o) == P.ds[P.ds[o].next]
PrevOf(P, o) == P.ds[P.ds[o].prev]
Born(P, b, o) == P.birth[b] > P.ds[o].prevtxg
\* dsl_dir_is_clone
IsClone(P, o) == DirOf(P, o).origin # ORIGIN
NewObj(P) == Min(Objs \ DOMAIN P.ds)
NewDir(P) == Min(Dirs \ DOMAIN P.dir)
HasRoom(P, n) == Cardinality(Objs \ DOMAIN P.ds) >= n

Dataset(d, prev, ptxg, ctxg, tree, dl) ==
  [dir |-> d, prev |-> prev, prevtxg |-> ptxg, next |-> 0, ctxg |-> ctxg, tree |-> tree,
   dl |-> dl, unique |-> 0, children |-> 0, clones |-> {}, snap |-> FALSE,
   deferred |-> FALSE]

OriginSnap == [Dataset(0, 0, 0, 1, {}, [k \in {0} |-> {}]) EXCEPT
                 !.next = ORIGIN_HEAD, !.snap = TRUE, !.children = 1]

\* dsl_pool_create_origin: $ORIGIN and its empty snapshot.
OriginPool ==
  [ds |-> [o \in {ORIGIN, ORIGIN_HEAD} |->
             IF o = ORIGIN THEN OriginSnap
               ELSE Dataset(0, ORIGIN, 1, 1, {}, [k \in {0} |-> {}])],
   dir |-> [d \in {0} |-> [head |-> ORIGIN_HEAD, origin |-> 0, origintxg |-> 0,
                           clones |-> {}, usedHead |-> 0, usedSnap |-> 0]],
   birth |-> [b \in Blocks |-> 0]]

-----------------------------------------------------------------------------
(* The data of a txg is written first.                                     *)

dsl_dataset_block_born(h, b) ==
  /\ phase = "data" /\ IsHead(pool, h) /\ pool.birth[b] = 0
  /\ pool' = [pool EXCEPT !.birth[b] = txg,
                          !.ds[h].tree = @ \cup {b}, !.ds[h].unique = @ + 1,
                          !.dir[pool.ds[h].dir].usedHead = @ + 1]
  /\ UNCHANGED <<txg, phase>>

\* No snapshot can have a block that was born since the last one.
Freeable(h, b) == Born(pool, b, h)

KillFreed(h, b) ==
  /\ Freeable(h, b)
  /\ pool' = [pool EXCEPT !.birth[b] = 0,
                          !.ds[h].tree = @ \ {b}, !.ds[h].unique = @ - 1,
                          !.dir[pool.ds[h].dir].usedHead = @ - 1]

\* Only the snapshot before has the block now.
BecomesUnique(h, b) == PrevOf(pool, h).next = h /\ Born(pool, b, pool.ds[h].prev)

\* The directory was charged with the block: it is newer than its origin.
Charged(h, b) == pool.birth[b] > DirOf(pool, h).origintxg

KillDead(h, b) ==
  /\ ~Freeable(h, b)
  /\ LET d == pool.ds[h].dir
         own == IF Charged(h, b) THEN 1 ELSE 0
     IN  pool' = [pool EXCEPT
                    !.ds[h].tree = @ \ {b},
                    !.ds[h].dl = dsl_deadlist_insert(@, b, pool.birth[b]),
                    !.ds[pool.ds[h].prev].unique =
                       IF BecomesUnique(h, b) THEN @ + 1 ELSE @,
                    !.dir[d].usedHead = @ - own, !.dir[d].usedSnap = @ + own]

dsl_dataset_block_kill(h, b) ==
  /\ phase = "data" /\ IsHead(pool, h) /\ b \in pool.ds[h].tree
  /\ KillFreed(h, b) \/ KillDead(h, b)
  /\ UNCHANGED <<txg, phase>>

-----------------------------------------------------------------------------
(* Snapshots                                                               *)

\* After prev comes new in place of old, as its next snapshot or as a clone.
Follow(D, prev, old, new) ==
  [D EXCEPT ![prev].next = IF @ = old THEN new ELSE @,
            ![prev].clones = IF old \in @ THEN (@ \ {old}) \cup {new} ELSE @]

\* The deadlist of a head from which a snapshot was taken.
NewDeadlist(P, h) ==
  dsl_deadlist_add_key(dsl_deadlist_clone(P.ds[h].dl, NoTxg), P.ds[h].prevtxg)

\* A snapshot takes the head's place in the chain, and its deadlist.
dsl_dataset_snapshot_sync_impl(P, h) ==
  LET n == NewObj(P)
      s == [P.ds[h] EXCEPT !.next = h, !.ctxg = txg, !.unique = 0, !.snap = TRUE,
                           !.children = 1]
      D == Follow(P.ds, s.prev, h, n)
      H == [D[h] EXCEPT !.dl = NewDeadlist(P, h), !.prev = n, !.prevtxg = txg,
                        !.unique = 0]
  IN  [P EXCEPT !.ds = [o \in DOMAIN D \cup {n} |->
                          CASE o = n -> s [] o = h -> H [] OTHER -> D[o]]]

RECURSIVE ClonesWithKey(_, _, _)

\* dsl_dataset_remove_clones_key: the heads of clones, and of their clones, whose
\* deadlists have the key.
ClonesWithKey(P, d, mintxg) ==
  LET C == {c \in P.dir[d].clones : DirOf(P, c).origintxg > mintxg}
  IN  C \cup UNION {ClonesWithKey(P, P.ds[c].dir, mintxg) : c \in C}

\* The heads whose deadlists lose the key of the snapshot.
Collapsed(P, s) ==
  ClonesWithKey(P, P.ds[s].dir, P.ds[s].ctxg)
    \cup (IF NextOf(P, s).snap THEN {HeadOf(P, s)} ELSE {})

\* What only this snapshot had: born after the one before it, dead in the next.
Released(P, s) == MovedFrom(NextOf(P, s).dl, P.ds[s].prevtxg)

\* The deadlist of the next dataset afterwards.
Merged(P, s) ==
  dsl_deadlist_merge(LeftBelow(NextOf(P, s).dl, P.ds[s].prevtxg), P.ds[s].dl)

\* What the snapshot before shared with this one alone.
GainOfPrev(P, s) ==
  IF PrevOf(P, s).next = s
    THEN dsl_deadlist_space_range(NextOf(P, s).dl, PrevOf(P, s).prevtxg, P.ds[s].prevtxg)
    ELSE 0

\* dsl_dataset_recalc_head_uniq, for head h after snapshot s is gone.
HeadUnique(P, h, s) ==
  Cardinality(P.ds[h].tree)
    - (Cardinality(PrevOf(P, s).tree) - dsl_deadlist_space(Merged(P, s)))

\* The unique space of the next dataset, with what it shared with this one alone.
UniqueOfNext(P, s) ==
  LET n == P.ds[s].next
  IN  IF P.ds[n].snap
        THEN P.ds[n].unique + dsl_deadlist_space_range(NextOf(P, n).dl, P.ds[s].prevtxg,
                                                       P.ds[s].ctxg)
        ELSE HeadUnique(P, n, s)

\* A snapshot without clones is destroyed.
dsl_destroy_snapshot_sync_impl(P, s) ==
  LET n == P.ds[s].next
      p == P.ds[s].prev
      D == [Follow(P.ds, p, s, n) EXCEPT
              ![n].prev = p, ![n].prevtxg = P.ds[s].prevtxg,
              ![n].unique = UniqueOfNext(P, s), ![n].dl = Merged(P, s),
              ![p].unique = @ + GainOfPrev(P, s)]
  IN  [ds |-> [o \in DOMAIN D \ {s} |->
                 IF o \in Collapsed(P, s)
                   THEN [D[o] EXCEPT !.dl = dsl_deadlist_remove_key(@, P.ds[s].ctxg)]
                   ELSE D[o]],
       dir |-> [P.dir EXCEPT ![P.ds[s].dir].usedSnap =
                  @ - dsl_deadlist_space_range(P.ds[n].dl, P.ds[s].prevtxg, NoTxg)],
       birth |-> [b \in Blocks |-> IF b \in Released(P, s) THEN 0 ELSE P.birth[b]]]

-----------------------------------------------------------------------------
(* Heads                                                                   *)

\* A new head in a new directory: a clone of snapshot s.
dsl_dataset_create_sync_dd(P, s) ==
  LET n == NewObj(P)
      d == NewDir(P)
      dl == dsl_deadlist_clone(P.ds[HeadOf(P, s)].dl, P.ds[s].ctxg)
      D == [P.ds EXCEPT ![s].children = @ + 1, ![s].clones = @ \cup {n}]
      R == [P.dir EXCEPT ![P.ds[s].dir].clones = @ \cup {n}]
  IN  [P EXCEPT
         !.ds = [o \in DOMAIN D \cup {n} |->
                   IF o = n THEN Dataset(d, s, P.ds[s].ctxg, txg, P.ds[s].tree, dl)
                            ELSE D[o]],
         !.dir = [e \in DOMAIN R \cup {d} |->
                    IF e = d THEN [head |-> n, origin |-> s, origintxg |-> P.ds[s].ctxg,
                                   clones |-> {}, usedHead |-> 0, usedSnap |-> 0]
                             ELSE R[e]]]

\* Mutant: everything that the head refers to is freed.
OwnAll(P, h, b) == b \in P.ds[h].tree

\* bptree_add with the txg of the snapshot before: what the head has of its own.
Own(P, h, b) == b \in P.ds[h].tree /\ Born(P, b, h)

\* The head, its directory and its own blocks go; the deadlist is ignored.
HeadGone(P, h) ==
  LET p == P.ds[h].prev
      D == [P.ds EXCEPT ![p].children = @ - 1, ![p].clones = @ \ {h}]
      R == [P.dir EXCEPT ![P.ds[p].dir].clones = @ \ {h}]
  IN  [ds |-> Restrict(D, DOMAIN D \ {h}),
       dir |-> Restrict(R, DOMAIN R \ {P.ds[h].dir}),
       birth |-> [b \in Blocks |-> IF Own(P, h, b) THEN 0 ELSE P.birth[b]]]

\* The last clone of an origin whose destruction was deferred takes it along.
dsl_destroy_head_sync_impl(P, h) ==
  IF IsClone(P, h) /\ PrevOf(P, h).deferred /\ PrevOf(P, h).children = 2
    THEN dsl_destroy_snapshot_sync_impl(HeadGone(P, h), P.ds[h].prev)
    ELSE HeadGone(P, h)

\* Only what the clone had on its deadlist is now unique to the snapshot before.
SwappedOriginUnique(P, c, h) ==
  dsl_deadlist_space_range(P.ds[c].dl, PrevOf(P, c).prevtxg, NoTxg)

\* Clone c and head h, which come after the same snapshot, exchange contents.
dsl_dataset_clone_swap_sync_impl(P, c, h) ==
  LET Total(o) == Cardinality(P.ds[o].tree) + dsl_deadlist_space(P.ds[o].dl)
      Dead(o) == dsl_deadlist_space_range(P.ds[o].dl, DirOf(P, h).origintxg, NoTxg)
      dused == Total(c) - Total(h)
      dead == Dead(c) - Dead(h)
      Contents(o, from) == [P.ds[o] EXCEPT !.tree = P.ds[from].tree, !.dl = P.ds[from].dl,
                                           !.unique = P.ds[from].unique]
  IN  [P EXCEPT
         !.ds = [o \in DOMAIN P.ds |->
                   CASE o = c -> Contents(c, h)
                     [] o = h -> Contents(h, c)
                     [] o = P.ds[c].prev ->
                          [P.ds[o] EXCEPT !.unique = SwappedOriginUnique(P, c, h)]
                     [] OTHER -> P.ds[o]],
         !.dir = [@ EXCEPT ![P.ds[h].dir].usedHead = @ + dused - dead,
                           ![P.ds[h].dir].usedSnap = @ + dead,
                           ![P.ds[c].dir].usedHead = @ - dused]]

\* The head gets the contents of the snapshot before.
dsl_dataset_rollback_sync(P, h) ==
  LET c == NewObj(P)
  IN  dsl_destroy_head_sync_impl(
        dsl_dataset_clone_swap_sync_impl(dsl_dataset_create_sync_dd(P, P.ds[h].prev), c, h),
        c)

RECURSIVE DestroySince(_, _, _)

\* With drc_force: destroy the snapshots of head h taken after snapshot s.
DestroySince(P, h, s) ==
  IF P.ds[h].prev = s THEN P
    ELSE DestroySince(dsl_destroy_snapshot_sync_impl(P, P.ds[h].prev), h, s)

\* The head gets what was received into clone c, and a snapshot of it.
dmu_recv_end_sync(P, c, h) ==
  LET Q == dsl_dataset_clone_swap_sync_impl(DestroySince(P, h, P.ds[c].prev), c, h)
  IN  dsl_destroy_head_sync_impl(dsl_dataset_snapshot_sync_impl(Q, h), c)

-----------------------------------------------------------------------------
(* Promotion: the snapshots up to the origin move to the clone's directory. *)

RECURSIVE snaplist_make(_, _, _)

\* The datasets from last back to first, which is not one of them.
snaplist_make(P, first, last) ==
  IF last = first THEN {} ELSE {last} \cup snaplist_make(P, first, P.ds[last].prev)

snaplist_space(P, l, mintxg) ==
  MapThenSumSet(LAMBDA o : dsl_deadlist_space_range(P.ds[o].dl, mintxg, NoTxg), l)

\* The heads of the clones, other than the old head, of the snapshots that move.
MovedClones(P, shared, oldnext) ==
  {HeadOf(P, c) : c \in UNION {P.ds[o].clones : o \in shared} \ {oldnext}}

dsl_dataset_promote_sync(P, h) ==
  LET dd == P.ds[h].dir
      o == P.dir[dd].origin
      odd == P.ds[o].dir
      oo == P.dir[odd].origin
      ohead == P.dir[odd].head
      shared == snaplist_make(P, oo, o)
      csnaps == snaplist_make(P, o, h)
      osnaps == snaplist_make(P, o, ohead)
      tail == CHOOSE c \in csnaps : P.ds[c].prev = o
      oldnext == P.ds[o].next
      used == Cardinality(P.ds[o].tree)
                + MapThenSumSet(LAMBDA s : dsl_deadlist_space(P.ds[s].dl), shared)
                - Cardinality(P.ds[oo].tree)
      dsnap == snaplist_space(P, shared \cup csnaps, P.dir[odd].origintxg)
                 - P.dir[dd].usedSnap
      osnap == snaplist_space(P, osnaps, P.ds[o].ctxg) - P.dir[odd].usedSnap
      D == [P.ds EXCEPT
              ![o].next = tail, ![o].clones = (@ \ {tail}) \cup {oldnext},
              ![o].unique = dsl_deadlist_space_range(P.ds[tail].dl, P.ds[o].prevtxg, NoTxg)]
      moved == MovedClones([P EXCEPT !.ds = D], shared, oldnext)
      oodir == P.ds[oo].dir
      R == [P.dir EXCEPT ![odd].clones = @ \ ({h} \cup moved),
                         ![dd].clones = @ \cup {ohead} \cup moved,
                         ![dd].origin = oo, ![dd].origintxg = P.dir[odd].origintxg,
                         ![odd].origin = o, ![odd].origintxg = P.ds[o].ctxg,
                         ![dd].usedSnap = @ + dsnap, ![dd].usedHead = @ + used - dsnap,
                         ![odd].usedSnap = @ + osnap, ![odd].usedHead = @ - used - osnap]
  IN  [P EXCEPT
         !.ds = [s \in DOMAIN D |-> IF s \in shared THEN [D[s] EXCEPT !.dir = dd] ELSE D[s]],
         !.dir = [R EXCEPT ![oodir].clones = (@ \cup {h}) \ {ohead}]]

-----------------------------------------------------------------------------
(* The sync tasks, with their checks.                                      *)

Task(P) == phase = "tasks" /\ pool' = P /\ UNCHANGED <<txg, phase>>

\* dsl_dataset_snapshot_check_impl: no two snapshots in one txg.
SnapshotCheck(P, h) == IsHead(P, h) /\ P.ds[h].prevtxg < txg

Snapshot(h) ==
  /\ SnapshotCheck(pool, h) /\ HasRoom(pool, 1)
  /\ Task(dsl_dataset_snapshot_sync_impl(pool, h))

\* dsl_destroy_snapshot_check_impl
DestroyCheck(P, s) == IsSnap(P, s) /\ P.ds[s].children <= 1

DestroySnapshot(s) ==
  /\ DestroyCheck(pool, s)
  /\ Task(dsl_destroy_snapshot_sync_impl(pool, s))

\* With defer, a snapshot with clones is only marked.
DestroySnapshotDefer(s) ==
  /\ "defer" \in Tasks /\ IsSnap(pool, s) /\ pool.ds[s].children > 1
  /\ Task([pool EXCEPT !.ds[s].deferred = TRUE])

Create(s) ==
  /\ IF s = ORIGIN THEN "create" \in Tasks
       ELSE "clone" \in Tasks /\ IsSnap(pool, s)
  /\ HasRoom(pool, 1) /\ Dirs \ DOMAIN pool.dir # {}
  /\ Task(dsl_dataset_create_sync_dd(pool, s))

\* dsl_destroy_head_check_impl: not with snapshots of its own.
DestroyHead(h) ==
  /\ "destroy" \in Tasks /\ IsHead(pool, h) /\ PrevOf(pool, h).next # h
  /\ Task(dsl_destroy_head_sync_impl(pool, h))

Promote(h) ==
  /\ "promote" \in Tasks /\ IsHead(pool, h) /\ IsClone(pool, h)
  /\ Task(dsl_dataset_promote_sync(pool, h))

\* dsl_dataset_rollback_check: to a snapshot of an earlier txg.
Rollback(h) ==
  /\ IsHead(pool, h) /\ pool.ds[h].prev # ORIGIN /\ pool.ds[h].prevtxg < txg
  /\ IF PrevOf(pool, h).next = h THEN "rollback" \in Tasks ELSE "clone rollback" \in Tasks
  /\ HasRoom(pool, 1) /\ Dirs \ DOMAIN pool.dir # {}
  /\ Task(dsl_dataset_rollback_sync(pool, h))

\* The snapshots since the clone's origin can be destroyed; the clone has none.
CanReceive(P, c, h) ==
  /\ IsHead(P, c) /\ IsHead(P, h) /\ c # h
  /\ PrevOf(P, c).next # c /\ IsClone(P, c) /\ PrevOf(P, c).dir = P.ds[h].dir
  /\ P.dir[P.ds[c].dir].clones = {}
  /\ \A s \in snaplist_make(P, P.ds[c].prev, h) \ {h} : P.ds[s].children <= 1

\* An incremental stream, with drc_force.  Without it the same happens in fewer
\* states: both come after the same snapshot, and the head has not been modified.
\* A stream into a new file system ends with Snapshot.
Receive(c, h) ==
  /\ "receive" \in Tasks /\ CanReceive(pool, c, h)
  /\ SnapshotCheck(pool, h) /\ HasRoom(pool, 1)
  /\ Task(dmu_recv_end_sync(pool, c, h))

DataDone ==
  /\ phase = "data" /\ phase' = "tasks"
  /\ UNCHANGED <<pool, txg>>

NextTxg ==
  /\ phase = "tasks" /\ txg < MaxTxg
  /\ txg' = txg + 1 /\ phase' = "data"
  /\ UNCHANGED pool

\* A pool with one dataset.
Init ==
  /\ txg = 4 /\ phase = "data"
  /\ pool = dsl_dataset_create_sync_dd(OriginPool, ORIGIN)

Next ==
  \/ \E h \in DOMAIN pool.ds :
       \/ \E b \in Blocks : dsl_dataset_block_born(h, b) \/ dsl_dataset_block_kill(h, b)
       \/ Snapshot(h) \/ DestroySnapshot(h) \/ DestroySnapshotDefer(h)
       \/ Create(h) \/ DestroyHead(h) \/ Promote(h) \/ Rollback(h)
       \/ \E c \in DOMAIN pool.ds : Receive(c, h)
  \/ DataDone \/ NextTxg

Spec == Init /\ [][Next]_vars

-----------------------------------------------------------------------------
Live == DOMAIN pool.ds
Trees == {pool.ds[o].tree : o \in Live}
Snaps == {o \in Live : pool.ds[o].snap}

RECURSIVE Chain(_)
\* The snapshots before o, back to $ORIGIN.
Chain(o) == IF pool.ds[o].prev = 0 THEN {}
              ELSE {pool.ds[o].prev} \cup Chain(pool.ds[o].prev)

\* The links, counts and space have their types; space is never negative.
TypeOK ==
  /\ DOMAIN pool.ds \subseteq Objs \cup {ORIGIN, ORIGIN_HEAD}
  /\ DOMAIN pool.dir \subseteq Dirs \cup {0}
  /\ pool.birth \in [Blocks -> 0 .. MaxTxg]
  /\ \A o \in Live :
       /\ pool.ds[o].dir \in DOMAIN pool.dir /\ pool.ds[o].tree \subseteq Blocks
       /\ pool.ds[o].unique \in Nat /\ pool.ds[o].children \in Nat
  /\ \A d \in DOMAIN pool.dir :
       pool.dir[d].usedHead \in Nat /\ pool.dir[d].usedSnap \in Nat
  /\ txg \in 4 .. MaxTxg /\ phase \in {"data", "tasks"}

\* A block that a head or snapshot refers to is not freed, whatever was destroyed,
\* promoted or swapped before (dsl_dataset_block_kill, dsl_deadlist_move_bpobj,
\* bptree_add).
FreedIsUnreferenced == \A b \in Blocks : pool.birth[b] = 0 => b \notin UNION Trees

\* A block that nothing refers to any more has been freed: no deadlist keeps it.
NoneLeaks == \A b \in Blocks : pool.birth[b] # 0 => b \in UNION Trees

\* The deadlist of a dataset has exactly the blocks that the snapshot before it has
\* and it has not, each under the last key before its birth.
DeadlistsExact ==
  \A o \in Live \ {ORIGIN} :
    LET dl == pool.ds[o].dl
    IN  /\ Blocks_(dl) = PrevOf(pool, o).tree \ pool.ds[o].tree
        /\ \A k \in DOMAIN dl : \A b \in dl[k] : k = KeyBefore(dl, pool.birth[b])

\* The keys of a head's deadlist are the txgs of the snapshots before the last: the
\* ranges that dsl_deadlist_space_range and dsl_deadlist_remove_key are asked for.
KeysExact ==
  \A o \in Live : ~pool.ds[o].snap =>
    DOMAIN pool.ds[o].dl = {pool.ds[s].prevtxg : s \in Chain(o)}

\* ds_unique_bytes is the space that the snapshot before does not have and, of a
\* snapshot, the next dataset neither: what its destruction frees if it has no clones.
UniqueExact ==
  \A o \in Live :
    LET others == IF pool.ds[o].snap THEN NextOf(pool, o).tree ELSE {}
    IN  pool.ds[o].unique =
          Cardinality({b \in pool.ds[o].tree : Born(pool, b, o) /\ b \notin others})

\* A directory is charged with the blocks born since its origin to which its head
\* refers, and apart from those with the ones to which only its snapshots do.
UsedExact ==
  \A d \in DOMAIN pool.dir :
    LET Mine(b) == pool.birth[b] > pool.dir[d].origintxg
        H == {b \in pool.ds[pool.dir[d].head].tree : Mine(b)}
        S == {b \in UNION {pool.ds[o].tree : o \in {s \in Snaps : pool.ds[s].dir = d}} :
                Mine(b)}
    IN  /\ pool.dir[d].usedHead = Cardinality(H)
        /\ pool.dir[d].usedSnap = Cardinality(S \ H)

\* The chains of snapshots are consistent in both directions; the counts of children
\* and the clones listed with snapshots and with directories are the real ones.
ChainsExact ==
  /\ \A o \in Live \ {ORIGIN} :
       /\ pool.ds[o].prev \in Snaps /\ pool.ds[o].prevtxg = PrevOf(pool, o).ctxg
       /\ PrevOf(pool, o).dir = pool.ds[o].dir <=> PrevOf(pool, o).next = o
       /\ PrevOf(pool, o).next # o => o \in PrevOf(pool, o).clones
  /\ \A s \in Snaps :
       /\ NextOf(pool, s).prev = s
       /\ \A c \in pool.ds[s].clones : c \in Live /\ pool.ds[c].prev = s
       /\ pool.ds[s].children = 1 + Cardinality(pool.ds[s].clones)
  /\ \A d \in DOMAIN pool.dir :
       pool.dir[d].clones =
         {pool.dir[e].head : e \in {f \in DOMAIN pool.dir \ {0} :
                                      pool.ds[pool.dir[f].origin].dir = d}}

\* A snapshot whose destruction was deferred does not outlive its last clone.
DeferredHasClones == \A s \in Snaps : pool.ds[s].deferred => pool.ds[s].children > 1
=============================================================================
