------------------------------- MODULE TxgList -------------------------------
(***************************************************************************)
(* Per-txg object lists (txg.c): singly linked lists, one per slot of the  *)
(* txg ring, whose links are in the objects, so that an object can be on   *)
(* all of them at once.  They are shown at work as the list of dirty vdevs *)
(* (spa_vdev_txg_list) of spa_sync, which walks one of them without a lock.*)
(***************************************************************************)
EXTENDS Integers, Sequences, SequencesExt, FiniteSets

CONSTANTS Vdevs,    \* top-level vdevs
          NULL,
          MaxTxg    \* bound: the last txg

VARIABLES tl,       \* the list: tl_head, tn_next and tn_member
          txg,      \* the txg spa_sync is at, or will be at next
          open,     \* tx_open_txg
          pc,       \* where spa_sync is
          cursor,   \* the vdev that vdev_config_sync is at
          flushed,  \* the vdevs it has flushed
          dirtied,  \* per slot: the vdevs that were dirtied and not yet written
          written   \* the vdevs that vdev_sync wrote in this txg

vars == <<tl, txg, open, pc, cursor, flushed, dirtied, written>>

\* Mutant: a slot for each active txg and none for the clean list.
TXG_SIZE3 == 3

TXG_SIZE == 4
Slots == 0 .. TXG_SIZE - 1
Slot(t) == t % TXG_SIZE
TXG_CLEAN(t) == t - 1

Init ==
  /\ tl = [head |-> [t \in Slots |-> NULL],
           next |-> [v \in Vdevs |-> [t \in Slots |-> NULL]],
           member |-> [v \in Vdevs |-> [t \in Slots |-> FALSE]]]
  /\ txg = 4 /\ open = 4
  /\ pc = "idle" /\ cursor = NULL
  /\ flushed = {} /\ written = {}
  /\ dirtied = [t \in Slots |-> {}]

-----------------------------------------------------------------------------
(* The operations on a list l for slot t, each under tl_lock.              *)

\* The k-th object on the list.
Nth(l, t) ==
  LET nth[k \in 1 .. Cardinality(Vdevs) + 1] ==
        IF k = 1 THEN l.head[t]
        ELSE IF nth[k - 1] = NULL THEN NULL ELSE l.next[nth[k - 1]][t]
  IN  nth

\* The objects in the order of the list.
Walk(l, t) ==
  LET end == CHOOSE k \in DOMAIN Nth(l, t) :
               Nth(l, t)[k] = NULL /\ \A j \in 1 .. k - 1 : Nth(l, t)[j] # NULL
  IN  SubSeq(Nth(l, t), 1, end - 1)

txg_list_add(l, v, t) ==
  IF l.member[v][t] THEN l
  ELSE [l EXCEPT !.member[v][t] = TRUE, !.next[v][t] = l.head[t], !.head[t] = v]

txg_list_add_tail(l, v, t) ==
  IF l.member[v][t] THEN l
  ELSE LET linked == [l EXCEPT !.member[v][t] = TRUE, !.next[v][t] = NULL]
       IN  IF l.head[t] = NULL THEN [linked EXCEPT !.head[t] = v]
           ELSE [linked EXCEPT !.next[Last(Walk(l, t))][t] = v]

\* The object is off the list.
Unlinked(l, v, t) == [l EXCEPT !.next[v][t] = NULL, !.member[v][t] = FALSE]

\* Of a list that is not empty.
txg_list_remove(l, t) == [Unlinked(l, l.head[t], t) EXCEPT !.head[t] = l.next[l.head[t]][t]]

txg_list_remove_this(l, v, t) ==
  IF v \notin Range(Walk(l, t)) THEN l
  ELSE IF l.head[t] = v THEN txg_list_remove(l, t)
  ELSE LET p == CHOOSE p \in Vdevs : p \in Range(Walk(l, t)) /\ l.next[p][t] = v
       IN  [Unlinked(l, v, t) EXCEPT !.next[p][t] = l.next[v][t]]

-----------------------------------------------------------------------------
(* The dirty vdevs.                                                        *)

\* vdev_dirty, by a transaction of a txg that is open or quiescing, or by spa_sync
\* itself.  (txg_list_add_tail is what dsl_sync_task uses for its list.)
vdev_dirty(v) ==
  /\ \E t \in txg .. open :
       /\ t = txg => pc \in {"idle", "sync"}
       /\ \/ tl' = txg_list_add(tl, v, Slot(t))
          \/ tl' = txg_list_add_tail(tl, v, Slot(t))
       /\ dirtied' = [dirtied EXCEPT ![Slot(t)] = @ \cup {v}]
  /\ UNCHANGED <<txg, open, pc, cursor, flushed, written>>

\* The pipeline opens another txg; at most three are active.
OpenNext ==
  /\ open < txg + 2 /\ open < MaxTxg
  /\ open' = open + 1
  /\ UNCHANGED <<tl, txg, pc, cursor, flushed, dirtied, written>>

\* spa_sync begins when the txg is closed.
SyncBegin ==
  /\ pc = "idle" /\ txg < open
  /\ pc' = "sync"
  /\ UNCHANGED <<tl, txg, open, cursor, flushed, dirtied, written>>

\* A vdev is taken off the list, written by vdev_sync and put on the clean list.
vdev_sync ==
  /\ pc = "sync" /\ tl.head[Slot(txg)] # NULL
  /\ LET v == tl.head[Slot(txg)] IN
     /\ tl' = txg_list_add(txg_list_remove(tl, Slot(txg)), v, Slot(TXG_CLEAN(txg)))
     /\ written' = written \cup {v}
     /\ dirtied' = [dirtied EXCEPT ![Slot(txg)] = @ \ {v}]
  /\ UNCHANGED <<txg, open, pc, cursor, flushed>>

\* vdev_config_sync starts its walk over the clean list.
FlushBegin ==
  /\ pc = "sync" /\ tl.head[Slot(txg)] = NULL
  /\ pc' = "flush"
  /\ cursor' = tl.head[Slot(TXG_CLEAN(txg))]
  /\ UNCHANGED <<tl, txg, open, flushed, dirtied, written>>

\* The vdev is flushed, and txg_list_next reads the next without the lock.
FlushNext ==
  /\ pc = "flush" /\ cursor # NULL
  /\ flushed' = flushed \cup {cursor}
  /\ cursor' = tl.next[cursor][Slot(TXG_CLEAN(txg))]
  /\ UNCHANGED <<tl, txg, open, pc, dirtied, written>>

FlushEnd ==
  /\ pc = "flush" /\ cursor = NULL
  /\ pc' = "done"
  /\ UNCHANGED <<tl, txg, open, cursor, flushed, dirtied, written>>

\* The clean list is emptied; vdev_sync_done may dirty the vdev in the next txg
\* for deferred frees.
vdev_sync_done ==
  /\ pc = "done" /\ tl.head[Slot(TXG_CLEAN(txg))] # NULL
  /\ LET v == tl.head[Slot(TXG_CLEAN(txg))]
         l == txg_list_remove(tl, Slot(TXG_CLEAN(txg))) IN
     \/ tl' = l /\ UNCHANGED dirtied
     \/ /\ txg < MaxTxg
        /\ tl' = txg_list_add(l, v, Slot(txg + 1))
        /\ dirtied' = [dirtied EXCEPT ![Slot(txg + 1)] = @ \cup {v}]
  /\ UNCHANGED <<txg, open, pc, cursor, flushed, written>>

SyncEnd ==
  /\ pc = "done" /\ tl.head[Slot(TXG_CLEAN(txg))] = NULL
  /\ pc' = "idle" /\ txg' = txg + 1
  /\ flushed' = {} /\ written' = {}
  /\ UNCHANGED <<tl, open, cursor, dirtied>>

SlotsMoved == Slots

\* Vdev s gives its place on every list to vdev v.
Moved(l, s, v) ==
  LET moved[t \in 0 .. TXG_SIZE] ==
        IF t = 0 THEN l
        ELSE LET m == moved[t - 1] IN
             IF t - 1 \in SlotsMoved /\ m.member[s][t - 1]
             THEN txg_list_add(txg_list_remove_this(m, s, t - 1), v, t - 1)
             ELSE m
  IN  moved[TXG_SIZE]

\* vdev_top_transfer: another vdev becomes the top-level vdev.  spa_sync is not
\* running and no one dirties vdevs: the caller is the writer of all the locks.
vdev_top_transfer(s, v) ==
  /\ pc = "idle" /\ s # v
  /\ tl' = Moved(tl, s, v)
  /\ dirtied' = [t \in Slots |-> IF s \in dirtied[t] THEN (dirtied[t] \ {s}) \cup {v}
                                 ELSE dirtied[t]]
  /\ UNCHANGED <<txg, open, pc, cursor, flushed, written>>

Next ==
  \/ \E v \in Vdevs : vdev_dirty(v)
  \/ \E s, v \in Vdevs : vdev_top_transfer(s, v)
  \/ OpenNext \/ SyncBegin \/ vdev_sync \/ FlushBegin \/ FlushNext \/ FlushEnd
  \/ vdev_sync_done \/ SyncEnd

Spec == Init /\ [][Next]_vars

-----------------------------------------------------------------------------
\* Every slot holds a list that ends, without repetitions, and tn_member says
\* which objects are on it: txg_list_add relies on the flag, txg_list_remove on
\* the links.
ListsWellFormed ==
  \A t \in Slots :
    /\ \E k \in DOMAIN Nth(tl, t) : Nth(tl, t)[k] = NULL
    /\ IsInjective(Walk(tl, t))
    /\ Range(Walk(tl, t)) = {v \in Vdevs : tl.member[v][t]}

\* Every vdev that was dirtied in a txg is on the list of its slot until
\* vdev_sync has written it, and the slot holds nothing else: the four slots are
\* enough for three active txgs and the clean list of the one that syncs.
NothingForgotten ==
  \A t \in Slots :
    Range(Walk(tl, t)) =
      IF pc # "idle" /\ t = Slot(TXG_CLEAN(txg))
      THEN IF pc = "done" THEN Range(Walk(tl, t)) \cap written ELSE written
      ELSE dirtied[t]

\* The unlocked walk of vdev_config_sync flushes exactly the vdevs that this txg
\* has written, however many others are dirtied at the same time: otherwise
\* the uberblock could reach a disk before the blocks it points to.
FlushesWritten == pc = "done" => flushed = written
=============================================================================
