-------------------------------- MODULE Txg --------------------------------
(***************************************************************************)
(* The transaction group pipeline of a pool (txg.c): transactions enter    *)
(* the open txg through per-CPU slots, the quiesce thread closes the open  *)
(* txg and waits for its holders, the sync thread writes the quiesced txg  *)
(* out and reports it synced, and callers wait for either milestone.       *)
(*                                                                         *)
(* A section that runs under tx_sync_lock is one action, from the wake-up  *)
(* to the next cv_wait or unlock.  tx_open_txg is not protected by that    *)
(* lock: it is advanced under every tc_open_lock, and the sections below   *)
(* read it as the code does.  spa_sync is two steps here, the gathering of *)
(* the dirty data of the slot and the uberblock update that makes it       *)
(* durable.                                                                *)
(***************************************************************************)
EXTENDS Integers, FiniteSets

CONSTANTS
  NCpus,     \* max_ncpus: the length of tx_cpu[]
  Txs,       \* transactions, each holding at most one txg at a time
  Waiters,   \* threads that call the txg_wait_* and txg_delay functions
  Targets,   \* the txgs they name; 0 asks for the default
  FirstTxg,  \* the txg passed to txg_init
  MaxTxg     \* bound: nothing pushes the pipeline past this txg

ASSUME TxgAssumption ==
  /\ NCpus \in Nat \ {0}
  /\ Targets \subseteq Nat
  /\ FirstTxg \in Nat \ {0}
  /\ MaxTxg \in Nat
  /\ IsFiniteSet(Txs) /\ {"free", "quiesce"} \cap Txs = {}
  /\ {"sync", "quiesce", "stopper"} \cap Waiters = {}

TXG_SIZE == 4
TXG_DEFER_SIZE == 2

Cpus == 0 .. NCpus - 1
Slots == 0 .. TXG_SIZE - 1
SlotHalved(txg) == txg % (TXG_SIZE \div 2)     \* mutant: two slots only
Slot(txg) == txg % TXG_SIZE          \* txg & TXG_MASK

Sync == "sync"                       \* tx_sync_thread
Quiesce == "quiesce"                 \* tx_quiesce_thread
Stopper == "stopper"                 \* the thread in spa_unload
Callers == Waiters \cup {Stopper}
Threads == Callers \cup {Sync, Quiesce}

Free == "free"

\* <<x, txg>>: what transaction x changes, or the callback it registers, in txg.
Changes == Txs \X Nat

CVs == {"sync_more", "sync_done", "quiesce_more", "quiesce_done", "exit", "tc"}

VARIABLES
  tx_open_txg, tx_quiesced_txg, tx_syncing_txg, tx_synced_txg,
  tx_sync_txg_waiting, tx_quiesce_txg_waiting,
  tx_threads, tx_exiting,
  tc_open_lock,   \* holder of each CPU's open lock
  tc_count,       \* holds on each slot, per CPU
  tc_callbacks,   \* commit callbacks of each slot, per CPU
  th,             \* the txg_handle_t of each transaction and its progress
  dirty,          \* the changes of each slot that are not on disk yet
  writing,        \* what the running spa_sync has picked up
  spc,            \* where the sync thread is
  q,              \* where the quiesce thread is, its txg and CPU loop index
  call,           \* the call each caller is in and its target txg
  asleep          \* the condition variable each thread is blocked on

stateVars == <<tx_open_txg, tx_quiesced_txg, tx_syncing_txg, tx_synced_txg,
               tx_sync_txg_waiting, tx_quiesce_txg_waiting>>
exitVars == <<tx_threads, tx_exiting>>
cpuVars == <<tc_open_lock, tc_count, tc_callbacks, th>>
dataVars == <<dirty, writing>>
threadVars == <<spc, q, call, asleep>>
vars == <<stateVars, exitVars, cpuVars, dataVars, threadVars>>

Idle == [st |-> "idle", cpu |-> 0, txg |-> 0]
TxStates == {"idle", "enter", "open", "assigned", "registered"}
QuiesceStates == {"idle", "lock", "unlock", "drain", "handoff", "exited"}
CallOps == {"none", "synced", "open", "delay", "stop", "exit", "stopped"}
NoCall == [op |-> "none", txg |-> 0]

StateType ==
  /\ tx_open_txg \in Nat /\ tx_quiesced_txg \in Nat
  /\ tx_syncing_txg \in Nat /\ tx_synced_txg \in Nat
  /\ tx_sync_txg_waiting \in Nat /\ tx_quiesce_txg_waiting \in Nat

CpuType ==
  /\ tc_open_lock \in [Cpus -> Txs \cup {Free, Quiesce}]
  /\ tc_count \in [Cpus -> [Slots -> Nat]]
  /\ tc_callbacks \in [Cpus -> [Slots -> SUBSET Changes]]

TxType == th \in [Txs -> [st : TxStates, cpu : Cpus, txg : Nat]]

DataType ==
  /\ dirty \in [Slots -> SUBSET Changes]
  /\ writing \in SUBSET Changes

ThreadType ==
  /\ tx_threads \in 0 .. 2 /\ tx_exiting \in {0, 1}
  /\ spc \in {"more", "done", "sync", "finish", "exited"}
  /\ q \in [st : QuiesceStates, txg : Nat, cpu : 0 .. NCpus - 1]
  /\ call \in [Callers -> [op : CallOps, txg : Nat]]
  /\ asleep \in [Threads -> CVs \cup {"no"}]

\* The fields of tx_state_t, tx_cpu_t and the handles stay in their domains;
\* a hold is released once (tc_count does not go below zero), a thread exits
\* once (tx_threads neither).
TypeOK == StateType /\ CpuType /\ TxType /\ DataType /\ ThreadType

-----------------------------------------------------------------------------
(* Condition variables.  Every cv of the pipeline is signalled by a        *)
(* broadcast; Woken gives the sleepers after one.                          *)

Awake(t) == asleep[t] = "no"

Woken(cvs) == [t \in Threads |-> IF asleep[t] \in cvs THEN "no" ELSE asleep[t]]

Larger(a, b) == IF a < b THEN b ELSE a

-----------------------------------------------------------------------------
(* Transactions: txg_hold_open, txg_rele_to_quiesce,                       *)
(* txg_register_callbacks and txg_rele_to_sync.                            *)

\* Mutant: the open txg is read although the lock is not free.
HoldOpenNoLock(x, c) ==
  /\ th[x].st = "idle"
  /\ call[Stopper].op = "none"
  /\ th' = [th EXCEPT ![x] = [st |-> "enter", cpu |-> c, txg |-> tx_open_txg]]
  /\ UNCHANGED <<stateVars, exitVars, tc_open_lock, tc_count, tc_callbacks,
                 dataVars, threadVars>>

\* Take the CPU's open lock and read the open txg ...
txg_hold_open(x, c) ==
  /\ th[x].st = "idle"
  /\ call[Stopper].op = "none"
  /\ tc_open_lock[c] = Free
  /\ tc_open_lock' = [tc_open_lock EXCEPT ![c] = x]
  /\ th' = [th EXCEPT ![x] = [st |-> "enter", cpu |-> c, txg |-> tx_open_txg]]
  /\ UNCHANGED <<stateVars, exitVars, tc_count, tc_callbacks, dataVars,
                 threadVars>>

\* ... and count the hold, under tc_lock.
HoldCount(x) ==
  /\ th[x].st = "enter"
  /\ tc_count' = [tc_count EXCEPT ![th[x].cpu][Slot(th[x].txg)] = @ + 1]
  /\ th' = [th EXCEPT ![x].st = "open"]
  /\ UNCHANGED <<stateVars, exitVars, tc_open_lock, tc_callbacks, dataVars,
                 threadVars>>

txg_rele_to_quiesce(x) ==
  /\ th[x].st = "open"
  /\ tc_open_lock' = [tc_open_lock EXCEPT ![th[x].cpu] = Free]
  /\ th' = [th EXCEPT ![x].st = "assigned"]
  /\ UNCHANGED <<stateVars, exitVars, tc_count, tc_callbacks, dataVars,
                 threadVars>>

\* The assigned transaction changes in-core state of its txg (dbuf_dirty and
\* its siblings), which only syncing context writes out.
DirtyChange(x) ==
  /\ th[x].st = "assigned"
  /\ dirty' = [dirty EXCEPT ![Slot(th[x].txg)] = @ \cup {<<x, th[x].txg>>}]
  /\ UNCHANGED <<stateVars, exitVars, cpuVars, writing, threadVars>>

txg_register_callbacks(x) ==
  /\ th[x].st = "assigned"
  /\ tc_callbacks' = [tc_callbacks EXCEPT
                        ![th[x].cpu][Slot(th[x].txg)] = @ \cup {<<x, th[x].txg>>}]
  /\ th' = [th EXCEPT ![x].st = "registered"]
  /\ UNCHANGED <<stateVars, exitVars, tc_open_lock, tc_count, dataVars,
                 threadVars>>

txg_rele_to_sync(x) ==
  LET c == th[x].cpu
      g == Slot(th[x].txg)
  IN /\ th[x].st \in {"assigned", "registered"}
     /\ tc_count' = [tc_count EXCEPT ![c][g] = @ - 1]
     /\ asleep' = IF tc_count[c][g] = 1 /\ q.cpu = c /\ Slot(q.txg) = g
                  THEN Woken({"tc"})        \* cv_broadcast(&tc->tc_cv[g])
                  ELSE asleep
     /\ th' = [th EXCEPT ![x] = Idle]
     /\ UNCHANGED <<stateVars, exitVars, tc_open_lock, tc_callbacks, dataVars,
                    spc, q, call>>

-----------------------------------------------------------------------------
(* The quiesce thread: txg_quiesce_thread and txg_quiesce.                 *)

QuiesceWants ==
  /\ tx_open_txg < tx_quiesce_txg_waiting
  /\ tx_quiesced_txg = 0

QuiesceSleep ==
  /\ q.st = "idle" /\ Awake(Quiesce)
  /\ tx_exiting = 0 /\ ~ QuiesceWants
  /\ asleep' = [asleep EXCEPT ![Quiesce] = "quiesce_more"]
  /\ UNCHANGED <<stateVars, exitVars, cpuVars, dataVars, spc, q, call>>

QuiesceStart ==
  /\ q.st = "idle" /\ Awake(Quiesce)
  /\ tx_exiting = 0 /\ QuiesceWants
  /\ q' = [st |-> "lock", txg |-> tx_open_txg, cpu |-> 0]
  /\ UNCHANGED <<stateVars, exitVars, cpuVars, dataVars, spc, call, asleep>>

\* The quiesce thread in loop st of txg_quiesce, at CPU c.
At(st, c) == [st |-> st, txg |-> q.txg, cpu |-> c]

\* Take the open locks in CPU order; under the last one advance tx_open_txg.
QuiesceLock ==
  LET c == q.cpu
      last == c = NCpus - 1
  IN /\ q.st = "lock"
     /\ tc_open_lock[c] = Free
     /\ tc_open_lock' = [tc_open_lock EXCEPT ![c] = Quiesce]
     /\ tx_open_txg' = IF last THEN tx_open_txg + 1 ELSE tx_open_txg
     /\ q' = IF last THEN At("unlock", 0) ELSE At("lock", c + 1)
     /\ UNCHANGED <<tx_quiesced_txg, tx_syncing_txg, tx_synced_txg,
                    tx_sync_txg_waiting, tx_quiesce_txg_waiting, exitVars,
                    tc_count, tc_callbacks, th, dataVars, spc, call, asleep>>

QuiesceUnlock ==
  LET c == q.cpu
  IN /\ q.st = "unlock"
     /\ tc_open_lock' = [tc_open_lock EXCEPT ![c] = Free]
     /\ q' = IF c = NCpus - 1 THEN At("drain", 0) ELSE At("unlock", c + 1)
     /\ UNCHANGED <<stateVars, exitVars, tc_count, tc_callbacks, th, dataVars,
                    spc, call, asleep>>

\* Mutant: the wait loop stops one CPU short.
QuiesceDrainShort ==
  LET c == q.cpu
  IN /\ q.st = "drain" /\ Awake(Quiesce)
     /\ IF c < NCpus - 1 /\ tc_count[c][Slot(q.txg)] # 0
        THEN /\ asleep' = [asleep EXCEPT ![Quiesce] = "tc"]
             /\ UNCHANGED q
        ELSE /\ q' = IF c = NCpus - 1 THEN At("handoff", c) ELSE At("drain", c + 1)
             /\ UNCHANGED asleep
     /\ UNCHANGED <<stateVars, exitVars, cpuVars, dataVars, spc, call>>

\* Wait, CPU by CPU, for the holders of the slot to leave.
QuiesceDrain ==
  LET c == q.cpu
  IN /\ q.st = "drain" /\ Awake(Quiesce)
     /\ IF tc_count[c][Slot(q.txg)] # 0
        THEN /\ asleep' = [asleep EXCEPT ![Quiesce] = "tc"]
             /\ UNCHANGED q
        ELSE /\ q' = IF c = NCpus - 1 THEN At("handoff", c) ELSE At("drain", c + 1)
             /\ UNCHANGED asleep
     /\ UNCHANGED <<stateVars, exitVars, cpuVars, dataVars, spc, call>>

\* Mutant: the broadcast of tx_quiesce_done_cv is missing.
HandoffSilent ==
  /\ q.st = "handoff"
  /\ tx_quiesced_txg' = q.txg
  /\ asleep' = Woken({"sync_more"})
  /\ q' = [st |-> "idle", txg |-> 0, cpu |-> 0]
  /\ UNCHANGED <<tx_open_txg, tx_syncing_txg, tx_synced_txg,
                 tx_sync_txg_waiting, tx_quiesce_txg_waiting, exitVars,
                 cpuVars, dataVars, spc, call>>

QuiesceHandoff ==
  /\ q.st = "handoff"
  /\ tx_quiesced_txg' = q.txg
  /\ asleep' = Woken({"sync_more", "quiesce_done"})
  /\ q' = [st |-> "idle", txg |-> 0, cpu |-> 0]
  /\ UNCHANGED <<tx_open_txg, tx_syncing_txg, tx_synced_txg,
                 tx_sync_txg_waiting, tx_quiesce_txg_waiting, exitVars,
                 cpuVars, dataVars, spc, call>>

\* txg_thread_exit of either thread.
QuiesceExit ==
  /\ q.st = "idle" /\ Awake(Quiesce) /\ tx_exiting = 1
  /\ q' = [q EXCEPT !.st = "exited"]
  /\ tx_threads' = tx_threads - 1
  /\ asleep' = Woken({"exit"})
  /\ UNCHANGED <<stateVars, tx_exiting, cpuVars, dataVars, spc, call>>

-----------------------------------------------------------------------------
(* The sync thread: txg_sync_thread.                                       *)

SyncWants ==
  \/ tx_exiting = 1
  \/ tx_synced_txg < tx_sync_txg_waiting
  \/ tx_quiesced_txg # 0

\* What follows the first wait loop, up to the next sleep or unlock.
SyncConsume ==
  \/ /\ tx_exiting = 1
     /\ spc' = "exited"
     /\ tx_threads' = tx_threads - 1
     /\ asleep' = [Woken({"exit"}) EXCEPT ![Sync] = "no"]
     /\ UNCHANGED <<stateVars, tx_exiting>>
  \/ /\ tx_exiting = 0 /\ tx_quiesced_txg = 0
     /\ tx_quiesce_txg_waiting' = Larger(tx_quiesce_txg_waiting, tx_open_txg + 1)
     /\ asleep' = [Woken({"quiesce_more"}) EXCEPT ![Sync] = "quiesce_done"]
     /\ spc' = "done"
     /\ UNCHANGED <<tx_open_txg, tx_quiesced_txg, tx_syncing_txg,
                    tx_synced_txg, tx_sync_txg_waiting, exitVars>>
  \/ /\ tx_exiting = 0 /\ tx_quiesced_txg # 0
     /\ tx_syncing_txg' = tx_quiesced_txg
     /\ tx_quiesced_txg' = 0
     /\ asleep' = [Woken({"quiesce_more"}) EXCEPT ![Sync] = "no"]
     /\ spc' = "sync"
     /\ UNCHANGED <<tx_open_txg, tx_synced_txg, tx_sync_txg_waiting,
                    tx_quiesce_txg_waiting, exitVars>>

SyncSleep ==
  /\ spc = "more" /\ Awake(Sync) /\ ~ SyncWants
  /\ asleep' = [asleep EXCEPT ![Sync] = "sync_more"]
  /\ UNCHANGED <<stateVars, exitVars, cpuVars, dataVars, spc, q, call>>

SyncMore ==
  /\ spc = "more" /\ Awake(Sync) /\ SyncWants
  /\ SyncConsume
  /\ UNCHANGED <<cpuVars, dataVars, q, call>>

\* The timer ran out, a scan is active or dp_dirty_total reached its limit:
\* the loop ends although nobody asked for a sync.
SyncTimer ==
  /\ spc = "more"
  /\ tx_open_txg < MaxTxg
  /\ SyncConsume
  /\ UNCHANGED <<cpuVars, dataVars, q, call>>

SyncQuiesced ==
  /\ spc = "done" /\ Awake(Sync)
  /\ SyncConsume
  /\ UNCHANGED <<cpuVars, dataVars, q, call>>

\* spa_sync picks up what the slot holds ...
SyncWrite ==
  /\ spc = "sync"
  /\ writing' = dirty[Slot(tx_syncing_txg)]
  /\ spc' = "finish"
  /\ UNCHANGED <<stateVars, exitVars, cpuVars, dirty, q, call, asleep>>

\* Every CPU's callbacks of the slot go to the commit taskq.
txg_dispatch_callbacks(g) == [c \in Cpus |-> [tc_callbacks[c] EXCEPT ![g] = {}]]

\* ... commits it with the uberblock, and the thread reports the txg synced
\* and dispatches the callbacks of the slot.
SyncFinish ==
  LET g == Slot(tx_syncing_txg)
  IN /\ spc = "finish"
     /\ writing' = {}
     /\ dirty' = [dirty EXCEPT ![g] = @ \ writing]
     /\ tx_synced_txg' = tx_syncing_txg
     /\ tx_syncing_txg' = 0
     /\ asleep' = Woken({"sync_done"})
     /\ tc_callbacks' = txg_dispatch_callbacks(g)
     /\ spc' = "more"
     /\ UNCHANGED <<tx_open_txg, tx_quiesced_txg, tx_sync_txg_waiting,
                    tx_quiesce_txg_waiting, exitVars, tc_open_lock, tc_count,
                    th, q, call>>

-----------------------------------------------------------------------------
(* Callers: txg_wait_synced, txg_wait_open, txg_delay, txg_kick and        *)
(* txg_sync_stop.                                                          *)

\* The loop of txg_wait_synced, entered with the lock held.
WaitSyncedLoop(w, txg, waiting) ==
  /\ tx_sync_txg_waiting' = Larger(waiting, txg)
  /\ IF tx_synced_txg < txg
     THEN /\ asleep' = [Woken({"sync_more"}) EXCEPT ![w] = "sync_done"]
          /\ call' = [call EXCEPT ![w] = [op |-> "synced", txg |-> txg]]
     ELSE /\ asleep' = asleep
          /\ call' = [call EXCEPT ![w] = NoCall]

\* The caller passes a txg it knows of, or 0 for "everything open now".
txg_wait_synced(w, txg) ==
  LET target == IF txg = 0 THEN tx_open_txg + TXG_DEFER_SIZE ELSE txg
  IN /\ call[w] = NoCall
     /\ call[Stopper].op = "none"
     /\ target < MaxTxg
     /\ WaitSyncedLoop(w, target, tx_sync_txg_waiting)
     /\ UNCHANGED <<tx_open_txg, tx_quiesced_txg, tx_syncing_txg,
                    tx_synced_txg, tx_quiesce_txg_waiting, exitVars, cpuVars,
                    dataVars, spc, q>>

WaitSyncedWake(w) ==
  /\ w \in Waiters /\ call[w].op = "synced" /\ Awake(w)
  /\ WaitSyncedLoop(w, call[w].txg, tx_sync_txg_waiting)
  /\ UNCHANGED <<tx_open_txg, tx_quiesced_txg, tx_syncing_txg, tx_synced_txg,
                 tx_quiesce_txg_waiting, exitVars, cpuVars, dataVars, spc, q>>

WaitOpenLoop(w, txg) ==
  /\ tx_quiesce_txg_waiting' = Larger(tx_quiesce_txg_waiting, txg)
  /\ IF tx_open_txg < txg
     THEN /\ asleep' = [Woken({"quiesce_more"}) EXCEPT ![w] = "quiesce_done"]
          /\ call' = [call EXCEPT ![w] = [op |-> "open", txg |-> txg]]
     ELSE /\ asleep' = asleep
          /\ call' = [call EXCEPT ![w] = NoCall]
  /\ UNCHANGED <<tx_open_txg, tx_quiesced_txg, tx_syncing_txg, tx_synced_txg,
                 tx_sync_txg_waiting, exitVars, cpuVars, dataVars, spc, q>>

txg_wait_open(w, txg) ==
  LET target == IF txg = 0 THEN tx_open_txg + 1 ELSE txg
  IN /\ call[w] = NoCall
     /\ call[Stopper].op = "none"
     /\ target <= MaxTxg
     /\ WaitOpenLoop(w, target)

WaitOpenWake(w) ==
  /\ call[w].op = "open" /\ Awake(w)
  /\ WaitOpenLoop(w, call[w].txg)

txg_stalled == tx_quiesce_txg_waiting > tx_open_txg

\* txg_delay: sleep on tx_quiesce_more_cv while the txg is open and behind.
txg_delay(w, txg) ==
  /\ call[w] = NoCall
  /\ call[Stopper].op = "none"
  /\ tx_open_txg <= txg /\ tx_synced_txg # txg - 1
  /\ tx_syncing_txg < txg - 1 /\ ~ txg_stalled
  /\ call' = [call EXCEPT ![w] = [op |-> "delay", txg |-> txg]]
  /\ asleep' = [asleep EXCEPT ![w] = "quiesce_more"]
  /\ UNCHANGED <<stateVars, exitVars, cpuVars, dataVars, spc, q>>

\* The delay may be over whether or not the thread was woken by a broadcast.
DelayWake(w) ==
  /\ call[w].op = "delay"
  /\ \/ /\ call' = [call EXCEPT ![w] = NoCall]
        /\ asleep' = [asleep EXCEPT ![w] = "no"]
     \/ /\ Awake(w) /\ tx_syncing_txg < call[w].txg - 1 /\ ~ txg_stalled
        /\ asleep' = [asleep EXCEPT ![w] = "quiesce_more"]
        /\ UNCHANGED call
  /\ UNCHANGED <<stateVars, exitVars, cpuVars, dataVars, spc, q>>

txg_kick ==
  /\ tx_open_txg < MaxTxg
  /\ call[Stopper].op = "none"
  /\ tx_syncing_txg = 0
  /\ tx_quiesce_txg_waiting <= tx_open_txg
  /\ tx_sync_txg_waiting <= tx_synced_txg
  /\ tx_quiesced_txg <= tx_synced_txg
  /\ tx_quiesce_txg_waiting' = tx_open_txg + 1
  /\ asleep' = Woken({"quiesce_more"})
  /\ UNCHANGED <<tx_open_txg, tx_quiesced_txg, tx_syncing_txg, tx_synced_txg,
                 tx_sync_txg_waiting, exitVars, cpuVars, dataVars, spc, q,
                 call>>

\* Mutant: only the txgs that are already closed are waited for.
StopClosedOnly ==
  /\ call[Stopper].op = "none"
  /\ \A w \in Waiters : call[w] = NoCall
  /\ \A x \in Txs : th[x] = Idle
  /\ call' = [call EXCEPT ![Stopper] = [op |-> "stop", txg |-> tx_open_txg - 1]]
  /\ UNCHANGED <<stateVars, exitVars, cpuVars, dataVars, spc, q, asleep>>

\* txg_sync_stop reads tx_open_txg without a lock, then calls txg_wait_synced.
\* spa_unload calls it once the pool has no users left.
txg_sync_stop ==
  /\ call[Stopper].op = "none"
  /\ \A w \in Waiters : call[w] = NoCall
  /\ \A x \in Txs : th[x] = Idle
  /\ call' = [call EXCEPT ![Stopper] = [op |-> "stop",
                                        txg |-> tx_open_txg + TXG_DEFER_SIZE]]
  /\ UNCHANGED <<stateVars, exitVars, cpuVars, dataVars, spc, q, asleep>>

\* The loop of its txg_wait_synced; when that returns, the threads are told to
\* exit.
StopWake ==
  LET txg == call[Stopper].txg
  IN /\ call[Stopper].op \in {"stop", "synced"} /\ Awake(Stopper)
     /\ tx_sync_txg_waiting' = Larger(tx_sync_txg_waiting, txg)
     /\ \/ /\ tx_synced_txg < txg
           /\ asleep' = [Woken({"sync_more"}) EXCEPT ![Stopper] = "sync_done"]
           /\ call' = [call EXCEPT ![Stopper].op = "synced"]
           /\ UNCHANGED tx_exiting
        \/ /\ tx_synced_txg >= txg
           /\ tx_exiting' = 1
           /\ asleep' = [Woken({"quiesce_more", "quiesce_done", "sync_more"})
                           EXCEPT ![Stopper] = "exit"]
           /\ call' = [call EXCEPT ![Stopper].op = "exit"]
     /\ UNCHANGED <<tx_open_txg, tx_quiesced_txg, tx_syncing_txg, tx_synced_txg,
                    tx_quiesce_txg_waiting, tx_threads, cpuVars, dataVars, spc, q>>

StopExit ==
  /\ call[Stopper].op = "exit" /\ Awake(Stopper)
  /\ IF tx_threads # 0
     THEN /\ asleep' = [asleep EXCEPT ![Stopper] = "exit"]
          /\ UNCHANGED <<tx_exiting, call>>
     ELSE /\ tx_exiting' = 0
          /\ call' = [call EXCEPT ![Stopper].op = "stopped"]
          /\ UNCHANGED asleep
  /\ UNCHANGED <<stateVars, tx_threads, cpuVars, dataVars, spc, q>>

-----------------------------------------------------------------------------
\* The state after txg_init and txg_sync_start.
Init ==
  /\ tx_open_txg = FirstTxg
  /\ tx_quiesced_txg = 0 /\ tx_syncing_txg = 0 /\ tx_synced_txg = 0
  /\ tx_sync_txg_waiting = 0 /\ tx_quiesce_txg_waiting = 0
  /\ tx_threads = 2 /\ tx_exiting = 0
  /\ tc_open_lock = [c \in Cpus |-> Free]
  /\ tc_count = [c \in Cpus |-> [g \in Slots |-> 0]]
  /\ tc_callbacks = [c \in Cpus |-> [g \in Slots |-> {}]]
  /\ th = [x \in Txs |-> Idle]
  /\ dirty = [g \in Slots |-> {}]
  /\ writing = {}
  /\ spc = "more"
  /\ q = [st |-> "idle", txg |-> 0, cpu |-> 0]
  /\ call = [w \in Callers |-> NoCall]
  /\ asleep = [t \in Threads |-> "no"]

TxStep(x) ==
  \/ \E c \in Cpus : txg_hold_open(x, c)
  \/ HoldCount(x)
  \/ txg_rele_to_quiesce(x)
  \/ DirtyChange(x)
  \/ txg_register_callbacks(x)
  \/ txg_rele_to_sync(x)

QuiesceStep ==
  \/ QuiesceSleep \/ QuiesceStart \/ QuiesceLock \/ QuiesceUnlock
  \/ QuiesceDrain \/ QuiesceHandoff \/ QuiesceExit

SyncStep ==
  \/ SyncSleep \/ SyncMore \/ SyncTimer \/ SyncQuiesced \/ SyncWrite
  \/ SyncFinish

WaiterStep(w) ==
  \/ \E txg \in Targets : txg_wait_synced(w, txg)
  \/ WaitSyncedWake(w)
  \/ \E txg \in Targets : txg_wait_open(w, txg)
  \/ WaitOpenWake(w)
  \/ \E txg \in Targets : txg_delay(w, txg)
  \/ DelayWake(w)

StopStep == txg_sync_stop \/ StopWake \/ StopExit

\* pthread_cond_wait may return although nobody signalled.
SpuriousWake(t) ==
  /\ asleep[t] # "no"
  /\ asleep' = [asleep EXCEPT ![t] = "no"]
  /\ UNCHANGED <<stateVars, exitVars, cpuVars, dataVars, spc, q, call>>

\* The end of the pipeline's life, not a deadlock.
Stopped == call[Stopper].op = "stopped" /\ UNCHANGED vars

Next ==
  \/ \E x \in Txs : TxStep(x)
  \/ QuiesceStep
  \/ SyncStep
  \/ \E w \in Waiters : WaiterStep(w)
  \/ txg_kick
  \/ StopStep
  \/ \E t \in Threads : SpuriousWake(t)
  \/ Stopped

Spec == Init /\ [][Next]_vars

-----------------------------------------------------------------------------
(* Safety.                                                                 *)

\* The oldest txg that is not synced.
NextToSync == IF tx_synced_txg = 0 THEN FirstTxg ELSE tx_synced_txg + 1

\* The quiesce thread has a txg that is neither open nor quiesced.
Closing == q.st \in {"unlock", "drain", "handoff"}

Holding(x) == th[x].st # "idle"
Counted(x) == th[x].st \in {"open", "assigned", "registered"}

\* A txg that was handed to the sync thread has no holder left: txg_quiesce
\* returned only after every CPU's tc_count of the slot dropped to zero.
SyncTxgHasNoHolder ==
  \A x \in Txs : Holding(x) =>
    /\ th[x].txg > tx_quiesced_txg
    /\ th[x].txg > tx_syncing_txg
    /\ th[x].txg > tx_synced_txg

\* TXG_SIZE slots are enough: everything filed under one slot of tx_cpu[] and
\* of the per-txg lists (holders, changes, callbacks) belongs to one txg.
InSlot(g) ==
  {th[x].txg : x \in {y \in Txs : Holding(y) /\ Slot(th[y].txg) = g}}
    \cup {e[2] : e \in dirty[g]}
    \cup UNION {{e[2] : e \in tc_callbacks[c][g]} : c \in Cpus}

SlotsNotShared ==
  \A g \in Slots : \A t, u \in InSlot(g) : t = u

\* At most three txgs are active (open, quiescing or quiesced, syncing), they
\* are consecutive, and all later than the last synced one.
ActiveTxgsConsecutive ==
  LET quiescing == IF Closing THEN q.txg ELSE 0
      active == {tx_syncing_txg, tx_quiesced_txg, quiescing, tx_open_txg} \ {0}
  IN /\ active = NextToSync .. tx_open_txg
     /\ tx_open_txg <= NextToSync + 2
     /\ tx_quiesced_txg = 0 \/ quiescing = 0

\* Once a txg is synced no change made in it is left in core only: spa_sync
\* wrote them all, none slipped in behind it.
SyncedIsDurable ==
  \A g \in Slots : \A e \in dirty[g] : e[2] > tx_synced_txg

\* A commit callback is dispatched no later than its txg is reported synced ...
CallbacksFollowSync ==
  \A c \in Cpus, g \in Slots : \A e \in tc_callbacks[c][g] : e[2] > tx_synced_txg

\* ... and no earlier: txg_dispatch_callbacks takes whatever is in the slot,
\* without tc_lock, and that is never the callback of another txg.
CallbacksNotEarly ==
  [][\A c \in Cpus, g \in Slots :
       \A e \in tc_callbacks[c][g] \ tc_callbacks'[c][g] :
         e[2] = tx_synced_txg']_vars

\* txg_sync_stop leaves nothing behind: when it returns, both threads are gone,
\* every change is on disk and every callback list is empty, as txg_fini's
\* assertion and its list_destroy calls require.
StoppedIsClean ==
  call[Stopper].op = "stopped" =>
    /\ spc = "exited" /\ q.st = "exited" /\ tx_threads = 0
    /\ \A g \in Slots : dirty[g] = {} /\ \A c \in Cpus : tc_callbacks[c][g] = {}

\* Txgs are synced one by one, in order, none skipped.
SyncedInOrder ==
  [][tx_synced_txg' # tx_synced_txg =>
       tx_synced_txg' = NextToSync]_vars

-----------------------------------------------------------------------------
(* The inductive invariant behind the safety properties.                   *)

\* Which txgs exist follows from where the two threads are.
PipelineInv ==
  /\ tx_threads = (IF spc = "exited" THEN 0 ELSE 1)
                    + (IF q.st = "exited" THEN 0 ELSE 1)
  /\ tx_syncing_txg = IF spc \in {"sync", "finish"} THEN NextToSync ELSE 0
  /\ tx_open_txg = NextToSync
                     + (IF spc \in {"sync", "finish"} THEN 1 ELSE 0)
                     + (IF tx_quiesced_txg # 0 \/ Closing THEN 1 ELSE 0)
  /\ tx_quiesced_txg \in {0, tx_open_txg - 1}
  /\ q.st = "lock" \/ Closing => tx_quiesced_txg = 0
  /\ q.st = "lock" => q.txg = tx_open_txg
  /\ Closing => q.txg = tx_open_txg - 1

\* A transaction between txg_hold_open and txg_rele_to_quiesce has its CPU's
\* open lock and is in the open txg; the quiesce thread has a prefix, then a
\* suffix of the locks.
QuiesceHas(c) ==
  \/ q.st = "lock" /\ c < q.cpu
  \/ q.st = "unlock" /\ c >= q.cpu

Entering(x) == th[x].st \in {"enter", "open"}

LockInv ==
  /\ \A x \in Txs : Entering(x) =>
       tc_open_lock[th[x].cpu] = x /\ th[x].txg = tx_open_txg
  /\ \A c \in Cpus : QuiesceHas(c) => tc_open_lock[c] = Quiesce

\* tc_count counts the holders ...
Holders(c, g) == {x \in Txs : Counted(x) /\ th[x].cpu = c /\ Slot(th[x].txg) = g}

CountInv ==
  \A c \in Cpus, g \in Slots : tc_count[c][g] = Cardinality(Holders(c, g))

\* ... and those the quiesce thread has waited for are gone.
HolderOK(x) ==
  /\ th[x].txg \in NextToSync .. tx_open_txg
  /\ th[x].txg > tx_syncing_txg
  /\ th[x].txg > tx_quiesced_txg
  /\ q.st = "drain" /\ th[x].cpu < q.cpu => th[x].txg # q.txg
  /\ q.st = "handoff" => th[x].txg # q.txg

HoldInv == \A x \in Txs : Holding(x) => HolderOK(x)

\* What is filed under a slot belongs to the one active txg of that slot, and
\* nothing joins a txg that is being written.
DataInv ==
  /\ \A g \in Slots : \A e \in dirty[g] :
       e[2] \in NextToSync .. tx_open_txg /\ Slot(e[2]) = g
  /\ \A c \in Cpus, g \in Slots : \A e \in tc_callbacks[c][g] :
       e[2] \in NextToSync .. tx_open_txg /\ Slot(e[2]) = g
  /\ spc = "finish" => writing = dirty[Slot(tx_syncing_txg)]

\* The pipeline's invariant: txg_quiesce and the two threads' hand-over keep
\* holders, counts, locks and per-slot data in step.
TxgInv ==
  TypeOK /\ PipelineInv /\ LockInv /\ CountInv /\ HoldInv /\ DataInv

\* What shutdown rests on: once txg_sync_stop has read tx_open_txg nobody files
\* anything, all that is filed is in a txg up to its target, and the threads are
\* told to exit when that target is synced.
StopInv ==
  LET stop == call[Stopper]
  IN /\ stop.op # "none" =>
          /\ \A x \in Txs : th[x].st = "idle"
          /\ \A g \in Slots : \A e \in dirty[g] : e[2] <= stop.txg
          /\ \A c \in Cpus, g \in Slots : \A e \in tc_callbacks[c][g] : e[2] <= stop.txg
     /\ stop.op \in {"exit", "stopped"} => stop.txg <= tx_synced_txg
     /\ stop.op = "stopped" => tx_threads = 0

-----------------------------------------------------------------------------
(* Refinement.                                                             *)

\* The pipeline is a group commit: the changes in core are the pending ones,
\* and a txg becomes durable when it is reported synced.
GC == INSTANCE GroupCommit
        WITH pending <- UNION {dirty[g] : g \in Slots}, durable <- tx_synced_txg

CommitsInGroups == GC!GCSpec

-----------------------------------------------------------------------------
(* Liveness.  The threads of the pool run; a transaction that entered a    *)
(* txg leaves it; a thread waiting for a mutex that is free again and      *)
(* again gets it.                                                          *)

Fairness ==
  /\ WF_vars(QuiesceSleep \/ QuiesceStart \/ QuiesceUnlock \/ QuiesceDrain
             \/ QuiesceHandoff \/ QuiesceExit)
  /\ SF_vars(QuiesceLock)
  /\ WF_vars(SyncSleep \/ SyncMore \/ SyncQuiesced \/ SyncWrite \/ SyncFinish)
  /\ \A x \in Txs : WF_vars(HoldCount(x) \/ txg_rele_to_quiesce(x)
                             \/ txg_rele_to_sync(x))
  /\ \A w \in Waiters : WF_vars(WaitSyncedWake(w) \/ WaitOpenWake(w))
  /\ WF_vars(StopWake \/ StopExit)

FairSpec == Spec /\ Fairness

\* No wake-up is lost: a caller of txg_wait_synced or txg_wait_open returns, and
\* so does txg_sync_stop, which waits for both threads to exit.
CallersReturn ==
  /\ \A w \in Waiters : call[w].op \in {"synced", "open"} ~> call[w].op = "none"
  /\ call[Stopper].op = "stop" ~> call[Stopper].op = "stopped"
=============================================================================
