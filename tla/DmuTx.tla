------------------------------- MODULE DmuTx -------------------------------
(***************************************************************************)
(* Transactions (dmu_tx.c) over the txg pipeline: assignment to the open   *)
(* txg with all dnodes of the transaction, undoing a failed assignment,    *)
(* the four ways to wait for another attempt, and the accounting of dirty  *)
(* data with its throttle (dsl_pool.c).  The pipeline is reduced to what a *)
(* transaction sees of it: an open txg that cannot close while its lock is *)
(* held, and txgs that quiesce when no one holds them and then sync.       *)
(***************************************************************************)
EXTENDS Integers, Sequences, FiniteSets

CONSTANTS Txs,        \* the transactions
          Dnodes,     \* the dnodes
          Holds,      \* tx_holds: the dnodes of each transaction, in order
          Space,      \* how much each transaction dirties
          How,        \* "wait": TXG_WAIT; "nowait": TXG_NOWAIT, then TXG_WAITED
          Continue,   \* the pool's failmode is "continue"
          DirtyMax,   \* zfs_dirty_data_max
          DelayMin,   \* dirty data from which on transactions are delayed
          MayFail,    \* transactions whose holds or reservation may fail for good
          MaxTxg,     \* bound: txgs that open although no one waits for them
          MaxRestart, \* bound: ERESTARTs of the space reservation
          MaxSuspend  \* bound: suspensions of the pool

\* What the constants are.
DmuTxAssumption ==
  /\ Holds \in [Txs -> Seq(Dnodes)]
  /\ Space \in [Txs -> Nat]
  /\ How \in [Txs -> {"wait", "nowait"}]
  /\ Continue \in BOOLEAN
  /\ {DirtyMax, DelayMin} \subseteq Nat /\ DelayMin < DirtyMax

VARIABLES open,       \* tx_open_txg
          drained,    \* the last txg without holders
          synced,     \* tx_synced_txg
          tx,         \* the transactions
          dn_assigned_txg, dn_tx_holds,
          dp_dirty_total, dp_dirty_pertxg,
          sleepers,   \* on dp_spaceavail_cv
          suspended,  \* spa_suspended
          restarts, suspends

pipeVars == <<open, drained, synced>>
dnVars == <<dn_assigned_txg, dn_tx_holds>>
dirtyVars == <<dp_dirty_total, dp_dirty_pertxg, sleepers>>
poolVars == <<suspended, suspends>>
vars == <<pipeVars, tx, dnVars, dirtyVars, poolVars, restarts>>

TXG_MASK == 3
Slot(txg) == txg % (TXG_MASK + 1)

\* pc: where the thread is; at: the position in tx_holds; need: tx_needassign_txh
\* as a position, 0 for NULL; left: what it has yet to dirty; err: tx_err, and
\* from dmu_tx_try_assign to dmu_tx_unassign its result.
NewTx == [pc |-> "new", txg |-> 0, lasttried |-> 0, waited |-> FALSE,
          wait_dirty |-> FALSE, at |-> 1, need |-> 0, left |-> 0, err |-> "none"]

\* A transaction after its dmu_tx_hold_* calls, which keep an error for later.
HeldTxs(x) ==
  {NewTx} \cup {[NewTx EXCEPT !.err = "EIO"] : y \in {x} \cap MayFail}

Init ==
  /\ open = 4 /\ drained = 3 /\ synced = 3
  /\ tx \in [Txs -> UNION {HeldTxs(x) : x \in Txs}] /\ \A x \in Txs : tx[x] \in HeldTxs(x)
  /\ dn_assigned_txg = [d \in Dnodes |-> 0]
  /\ dn_tx_holds = [d \in Dnodes |-> {}]
  /\ dp_dirty_total = 0
  /\ dp_dirty_pertxg = [s \in 0 .. TXG_MASK |-> 0]
  /\ sleepers = {}
  /\ suspended = FALSE /\ restarts = 0 /\ suspends = 0

At(x, pc) == tx[x].pc = pc
\* The transaction goes on as r.
Goes(x, r) == tx' = [tx EXCEPT ![x] = r]

-----------------------------------------------------------------------------
(* dmu_tx_try_assign                                                       *)

\* Refused before a txg is held: a hold has failed, the pool is suspended, or
\* there is too much dirty data.
TryRefused(x) ==
  /\ At(x, "new")
  /\ \/ /\ tx[x].err # "none"
        /\ Goes(x, [tx[x] EXCEPT !.pc = "failed"])
     \/ /\ tx[x].err = "none" /\ suspended
        /\ Goes(x, [tx[x] EXCEPT !.pc = IF Continue /\ How[x] = "nowait"
                                       THEN "failed" ELSE "restart"])
     \/ /\ tx[x].err = "none" /\ ~suspended /\ ~tx[x].waited /\ dp_dirty_total > DelayMin
        /\ Goes(x, [tx[x] EXCEPT !.pc = "restart", !.wait_dirty = TRUE])
  /\ UNCHANGED <<pipeVars, dnVars, dirtyVars, poolVars, restarts>>

\* txg_hold_open: the txg's open lock stays held.
TryHold(x) ==
  /\ At(x, "new") /\ tx[x].err = "none" /\ ~suspended
  /\ tx[x].waited \/ dp_dirty_total <= DelayMin
  /\ Goes(x, [tx[x] EXCEPT !.pc = "holding", !.txg = open, !.at = 1, !.need = 0])
  /\ UNCHANGED <<pipeVars, dnVars, dirtyVars, poolVars, restarts>>

\* The hold the thread is at, and the dnode it is on.
Hold(x) == <<x, tx[x].at>>
Dnode(x) == Holds[x][tx[x].at]

\* dn's holds grow by this one; a free dnode goes to the transaction's txg.
Take(x) ==
  /\ dn_assigned_txg' = [dn_assigned_txg EXCEPT ![Dnode(x)] =
                           IF @ = 0 THEN tx[x].txg ELSE @]
  /\ dn_tx_holds' = [dn_tx_holds EXCEPT ![Dnode(x)] = @ \cup {Hold(x)}]
  /\ Goes(x, [tx[x] EXCEPT !.at = @ + 1])

\* The next dnode, under dn_mtx: it must not be in use in the previous txg.
AssignDnode(x) ==
  /\ At(x, "holding") /\ tx[x].at <= Len(Holds[x])
  /\ IF dn_assigned_txg[Dnode(x)] = tx[x].txg - 1
     THEN /\ Goes(x, [tx[x] EXCEPT !.need = tx[x].at, !.pc = "unassign", !.at = 1,
                                   !.err = "ERESTART"])
          /\ UNCHANGED dnVars
     ELSE Take(x)
  /\ UNCHANGED <<pipeVars, dirtyVars, poolVars, restarts>>

\* dsl_dir_tempreserve_space, after the last dnode: it succeeds, asks for
\* another attempt in a later txg, or refuses.
Reserve(x) ==
  /\ At(x, "holding") /\ tx[x].at > Len(Holds[x])
  /\ \/ /\ Goes(x, [tx[x] EXCEPT !.pc = "assigned", !.at = 1, !.left = Space[x]])
        /\ UNCHANGED restarts
     \/ /\ restarts < MaxRestart
        /\ Goes(x, [tx[x] EXCEPT !.pc = "unassign", !.at = 1, !.err = "ERESTART"])
        /\ restarts' = restarts + 1
     \/ /\ x \in MayFail
        /\ Goes(x, [tx[x] EXCEPT !.pc = "unassign", !.at = 1, !.err = "ENOSPC"])
        /\ UNCHANGED restarts
  /\ UNCHANGED <<pipeVars, dnVars, dirtyVars, poolVars>>

\* The hold is removed; the last one frees the dnode, and with it those who
\* wait on dn_notxholds.
Release(x) ==
  /\ dn_tx_holds' = [dn_tx_holds EXCEPT ![Dnode(x)] = @ \ {Hold(x)}]
  /\ dn_assigned_txg' = [dn_assigned_txg EXCEPT ![Dnode(x)] =
                           IF dn_tx_holds[Dnode(x)] = {Hold(x)} THEN 0 ELSE @]
  /\ Goes(x, [tx[x] EXCEPT !.at = @ + 1])

\* Mutant: the release stops one hold too early.
UnassignEndShort(x) == IF tx[x].need = 0 THEN Len(Holds[x]) ELSE tx[x].need

\* Where dmu_tx_unassign stops: at the hold that was refused, if any.
UnassignEnd(x) == IF tx[x].need = 0 THEN Len(Holds[x]) + 1 ELSE tx[x].need

\* dmu_tx_unassign: the holds one by one, then the txg.  A refused transaction
\* returns to its caller, the others go on to dmu_tx_wait.
Unassign(x) ==
  /\ At(x, "unassign")
  /\ IF tx[x].at < UnassignEnd(x)
     THEN Release(x)
     ELSE /\ Goes(x, [tx[x] EXCEPT
                    !.pc = IF tx[x].err = "ENOSPC" THEN "failed" ELSE "restart",
                    !.lasttried = tx[x].txg, !.txg = 0, !.err = "none"])
          /\ UNCHANGED dnVars
  /\ UNCHANGED <<pipeVars, dirtyVars, poolVars, restarts>>

-----------------------------------------------------------------------------
(* dmu_tx_wait.  A caller with TXG_NOWAIT drops its locks, calls it and     *)
(* starts over with a new transaction and TXG_WAITED.                      *)

Again(x, r) ==
  IF How[x] = "wait" THEN Goes(x, [r EXCEPT !.pc = "new"])
  ELSE \E n \in HeldTxs(x) : Goes(x, [n EXCEPT !.waited = TRUE])

\* The first test of dp_dirty_total, and every one after a wake-up.
WaitDirty(x) ==
  /\ \/ At(x, "restart") /\ tx[x].wait_dirty
     \/ At(x, "throttled") /\ x \notin sleepers
  /\ IF dp_dirty_total >= DirtyMax
     THEN /\ sleepers' = sleepers \cup {x}
          /\ Goes(x, [tx[x] EXCEPT !.pc = "throttled"])
     ELSE /\ UNCHANGED sleepers
          /\ Again(x, [tx[x] EXCEPT !.wait_dirty = FALSE, !.waited = TRUE])
  /\ UNCHANGED <<pipeVars, dnVars, dp_dirty_total, dp_dirty_pertxg, poolVars, restarts>>

\* txg_wait_synced(spa_last_synced_txg + 1): the target is read first.
WaitSynced(x) ==
  /\ At(x, "restart") /\ ~tx[x].wait_dirty
  /\ suspended \/ tx[x].lasttried = 0
  /\ Goes(x, [tx[x] EXCEPT !.pc = "waitSynced", !.left = synced + 1])
  /\ UNCHANGED <<pipeVars, dnVars, dirtyVars, poolVars, restarts>>

SyncedEnough(x) ==
  /\ At(x, "waitSynced") /\ synced >= tx[x].left
  /\ Again(x, [tx[x] EXCEPT !.left = 0])
  /\ UNCHANGED <<pipeVars, dnVars, dirtyVars, poolVars, restarts>>

\* The branch for a dnode, or for a new txg, is chosen: the pool was not
\* suspended just now.
WaitChosen(x) ==
  /\ At(x, "restart") /\ ~tx[x].wait_dirty
  /\ ~suspended /\ tx[x].lasttried # 0
  /\ Goes(x, [tx[x] EXCEPT !.pc = IF tx[x].need # 0 THEN "waitDnode" ELSE "waitOpen"])
  /\ UNCHANGED <<pipeVars, dnVars, dirtyVars, poolVars, restarts>>

\* The dnode has left the previous txg (dn_notxholds).
DnodeFree(x) ==
  /\ At(x, "waitDnode")
  /\ dn_assigned_txg[Holds[x][tx[x].need]] # tx[x].lasttried - 1
  /\ Again(x, [tx[x] EXCEPT !.need = 0])
  /\ UNCHANGED <<pipeVars, dnVars, dirtyVars, poolVars, restarts>>

\* txg_wait_open(tx_lasttried_txg + 1) returns.
TxgOpened(x) ==
  /\ At(x, "waitOpen") /\ open > tx[x].lasttried
  /\ Again(x, tx[x])
  /\ UNCHANGED <<pipeVars, dnVars, dirtyVars, poolVars, restarts>>

-----------------------------------------------------------------------------
(* The body of the transaction and its commit.                             *)

\* cv_signal on dp_spaceavail_cv: one of the sleepers, if any, goes on.
Signalled(s) == IF s = {} THEN {{}} ELSE {s \ {u} : u \in s}

\* Mutant: the signal is given only when the dirty data falls below the limit.
DirtyDeltaFalls(delta) ==
  /\ dp_dirty_total' = dp_dirty_total + delta
  /\ sleepers' \in IF dp_dirty_total >= DirtyMax /\ dp_dirty_total' < DirtyMax
                   THEN Signalled(sleepers) ELSE {sleepers}

\* dsl_pool_dirty_delta: it signals when dirty data grows as well, so that each
\* writer that was let go wakes the next.
DirtyDelta(delta) ==
  /\ dp_dirty_total' = dp_dirty_total + delta
  /\ sleepers' \in IF dp_dirty_total' <= DirtyMax
                   THEN Signalled(sleepers) ELSE {sleepers}

\* dsl_pool_dirty_space on behalf of an assigned transaction.
DirtySpace(x) ==
  /\ At(x, "assigned") /\ tx[x].left > 0
  /\ dp_dirty_pertxg' = [dp_dirty_pertxg EXCEPT ![Slot(tx[x].txg)] = @ + 1]
  /\ DirtyDelta(1)
  /\ Goes(x, [tx[x] EXCEPT !.left = @ - 1])
  /\ UNCHANGED <<pipeVars, dnVars, poolVars, restarts>>

\* dmu_tx_commit: the holds one by one, then the txg.
Commit(x) ==
  /\ At(x, "assigned") /\ tx[x].left = 0
  /\ IF tx[x].at <= Len(Holds[x])
     THEN Release(x)
     ELSE Goes(x, [tx[x] EXCEPT !.pc = "done", !.txg = 0]) /\ UNCHANGED dnVars
  /\ UNCHANGED <<pipeVars, dirtyVars, poolVars, restarts>>

-----------------------------------------------------------------------------
(* The pipeline and the pool.                                              *)

\* What makes the open txg close for certain: txg_wait_open or txg_wait_synced
\* ask for a later one, or the sync thread's timer runs out on a txg whose dirty
\* data a throttled writer waits for.  zfs_dirty_data_sync and txg_kick only make
\* it close sooner; up to MaxTxg it may close at any time.
Demand ==
  \E x \in Txs : \/ At(x, "waitOpen") /\ open = tx[x].lasttried
                 \/ At(x, "waitSynced") /\ open <= tx[x].left
                 \/ At(x, "throttled") /\ dp_dirty_pertxg[Slot(open)] > 0

\* The quiesce thread has every open lock.
OpenLocks == \A x \in Txs : ~At(x, "holding")

\* txg_quiesce opens the next txg when the one before is quiesced.
OpenNext ==
  /\ drained = open - 1 /\ OpenLocks
  /\ open < MaxTxg \/ Demand
  /\ open' = open + 1
  /\ UNCHANGED <<drained, synced, tx, dnVars, dirtyVars, poolVars, restarts>>

\* The txg that was closed has no holders left; the sync thread is free for it
\* when the one before is synced.
Drain ==
  /\ drained < open - 1 /\ synced = drained
  /\ \A x \in Txs : tx[x].txg # drained + 1
  /\ drained' = drained + 1
  /\ UNCHANGED <<open, synced, tx, dnVars, dirtyVars, poolVars, restarts>>

\* What the syncing txg has dirtied and not written.
Share == dp_dirty_pertxg[Slot(synced + 1)]

\* No more is undirtied than the txg has dirtied.
Clipped(n) == IF Share < n THEN Share ELSE n

\* Mutant: what is undirtied is not taken from the txg's share.
UndirtyShareKept(n) ==
  /\ UNCHANGED dp_dirty_pertxg
  /\ DirtyDelta(-Clipped(n))

\* dsl_pool_undirty_space for the syncing txg.
UndirtySpace(n) ==
  /\ dp_dirty_pertxg' = [dp_dirty_pertxg EXCEPT ![Slot(synced + 1)] = @ - Clipped(n)]
  /\ DirtyDelta(-Clipped(n))

\* A block of the syncing txg was written, or dsl_pool_sync clears its share.
Undirty ==
  /\ synced < drained /\ ~suspended /\ Share > 0
  /\ \E n \in {1, Share} : UndirtySpace(n)
  /\ UNCHANGED <<pipeVars, tx, dnVars, poolVars, restarts>>

\* A block was written that nobody had accounted for.
UndirtyExtra ==
  /\ synced < drained /\ ~suspended
  /\ UndirtySpace(Share + 1)
  /\ UNCHANGED <<pipeVars, tx, dnVars, poolVars, restarts>>

SyncDone ==
  /\ synced < drained /\ ~suspended
  /\ Share = 0
  /\ synced' = synced + 1
  /\ UNCHANGED <<open, drained, tx, dnVars, dirtyVars, poolVars, restarts>>

\* zio_suspend and zio_resume.
Suspend ==
  /\ ~suspended /\ suspends < MaxSuspend
  /\ suspended' = TRUE /\ suspends' = suspends + 1
  /\ UNCHANGED <<pipeVars, tx, dnVars, dirtyVars, restarts>>

Resume ==
  /\ suspended
  /\ suspended' = FALSE
  /\ UNCHANGED <<pipeVars, tx, dnVars, dirtyVars, suspends, restarts>>

TryAssign(x) == TryRefused(x) \/ TryHold(x) \/ AssignDnode(x) \/ Reserve(x) \/ Unassign(x)
Wait(x) == \/ WaitDirty(x) \/ WaitSynced(x) \/ SyncedEnough(x)
           \/ WaitChosen(x) \/ DnodeFree(x) \/ TxgOpened(x)
Body(x) == DirtySpace(x) \/ Commit(x)

\* All transactions are over.
Finished ==
  /\ \A x \in Txs : tx[x].pc \in {"done", "failed"}
  /\ UNCHANGED vars

Thread(x) == TryAssign(x) \/ Wait(x) \/ Body(x)
QuiesceThread == OpenNext \/ Drain
SyncThread == Undirty \/ SyncDone

Next ==
  \/ \E x \in Txs : Thread(x)
  \/ QuiesceThread \/ SyncThread \/ UndirtyExtra
  \/ Suspend \/ Resume \/ Finished

Spec == Init /\ [][Next]_vars

\* A thread that can run does, the pipeline's threads too, and a suspended pool
\* is resumed.
FairSpec ==
  /\ Spec
  /\ \A x \in Txs : WF_vars(Thread(x))
  /\ WF_vars(QuiesceThread) /\ WF_vars(SyncThread) /\ WF_vars(Resume)

-----------------------------------------------------------------------------
\* The txgs are in order, the counters are no less than 0, and only throttled
\* transactions sleep on dp_spaceavail_cv.
TypeOK ==
  /\ {open, drained, synced} \subseteq Nat /\ synced <= drained /\ drained < open
  /\ dp_dirty_total \in Nat /\ dp_dirty_pertxg \in [0 .. TXG_MASK -> Nat]
  /\ sleepers \subseteq {x \in Txs : At(x, "throttled")}
  /\ dn_assigned_txg \in [Dnodes -> Nat]
  /\ \A d \in Dnodes : \A h \in dn_tx_holds[d] : h[1] \in Txs /\ Holds[h[1]][h[2]] = d

\* A dnode is in use by the transactions of one txg only, the one it is
\* assigned to, and is free exactly when no one holds it: the ASSERT3U on
\* dn_assigned_txg in dmu_tx_try_assign, dmu_tx_unassign and dmu_tx_commit.
\* Otherwise one object would be changed in two txgs at the same time.
\* A transaction that waits for another attempt, was refused or is over holds
\* none: dmu_tx_unassign undoes exactly what dmu_tx_try_assign did, so that
\* neither the quiesce thread nor another transaction can be waiting for it.
DnodeInOneTxg ==
  \A d \in Dnodes :
    /\ dn_assigned_txg[d] = 0 <=> dn_tx_holds[d] = {}
    /\ \A h \in dn_tx_holds[d] :
         /\ tx[h[1]].txg = dn_assigned_txg[d]
         /\ tx[h[1]].pc \in {"holding", "assigned", "unassign"}

\* dp_dirty_total is the dirty data of the txgs that are not synced; a synced
\* txg leaves none behind in the slot that a later one will use (dsl_pool_sync).
DirtyAccounted ==
  /\ dp_dirty_total = dp_dirty_pertxg[0] + dp_dirty_pertxg[1] + dp_dirty_pertxg[2] + dp_dirty_pertxg[3]
  /\ \A s \in 0 .. TXG_MASK :
       s \notin {Slot(t) : t \in synced + 1 .. open} => dp_dirty_pertxg[s] = 0

\* A transaction that calls dmu_tx_assign with TXG_WAIT, or that retries as the
\* comment on TXG_NOWAIT asks for, is assigned or refused: no wake-up of the
\* throttle, of dn_notxholds or of the pipeline is lost.  The throttle signals one
\* writer for a whole txg that was written (dsl_pool_sync), so this needs each
\* writer that is let go to dirty something and wake the next; it is not so when
\* the writer is refused and two or more wait.
AssignReturns ==
  \A x \in Txs : At(x, "new") ~> tx[x].pc \in {"assigned", "failed", "done"}
=============================================================================
