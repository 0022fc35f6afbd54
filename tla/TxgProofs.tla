----------------------------- MODULE TxgProofs -----------------------------
(***************************************************************************)
(* The transaction group pipeline is correct for any number of CPUs,       *)
(* transactions and waiters: TxgInv is inductive, the safety properties    *)
(* follow from it, and the pipeline implements GroupCommit.                *)
(***************************************************************************)
EXTENDS Txg, FiniteSetTheorems, TLAPS

\* Time for the provers, in seconds; the second pair is for a slow machine.
USE ZenonT(3), SMTT(30), ZenonT(40), SMTT(120)

\* A txg number names one of the TXG_SIZE slots.
LEMMA SlotRange == \A t \in Nat : Slot(t) \in Slots
BY DEF Slot, Slots, TXG_SIZE

\* A broadcast keeps asleep well typed.
LEMMA WokenType ==
  ASSUME ThreadType, NEW cvs
  PROVE  Woken(cvs) \in [Threads -> CVs \cup {"no"}]
BY DEF ThreadType, Woken

\* The larger of two txgs is a txg.
LEMMA LargerType == \A a, b \in Nat : Larger(a, b) \in Nat
BY DEF Larger

USE DEF Idle, NoCall

\* The initial state is well typed.
LEMMA InitType == Init => TypeOK
<1> SUFFICES ASSUME Init PROVE TypeOK OBVIOUS
<1> USE TxgAssumption
<1>1. 0 \in Cpus
  BY DEF Cpus
<1>2. StateType
  BY DEF StateType, Init
<1>3. CpuType
  BY DEF CpuType, Init
<1>4. TxType
  BY <1>1 DEF TxType, Init, TxStates
<1>5. DataType
  BY DEF DataType, Init
<1>6. q \in [st : QuiesceStates, txg : Nat, cpu : 0 .. NCpus - 1]
  BY DEF Init, QuiesceStates
<1>7. call \in [Callers -> [op : CallOps, txg : Nat]]
  BY DEF Init, CallOps
<1>8. ThreadType
  BY <1>6, <1>7 DEF ThreadType, Init
<1> QED BY <1>2, <1>3, <1>4, <1>5, <1>8 DEF TypeOK

\* Updating one slot of one CPU keeps a per-CPU table well typed.
LEMMA CpuTableUpdate ==
  ASSUME NEW S, NEW f \in [Cpus -> [Slots -> S]],
         NEW c \in Cpus, NEW g \in Slots, NEW v \in S
  PROVE  [f EXCEPT ![c] = [f[c] EXCEPT ![g] = v]] \in [Cpus -> [Slots -> S]]
OBVIOUS

\* The steps of a transaction keep TypeOK; a release must find its hold.
LEMMA TxStepType ==
  ASSUME TypeOK, NEW x \in Txs, TxStep(x),
         th[x].st \in {"assigned", "registered"} =>
           tc_count[th[x].cpu][Slot(th[x].txg)] # 0
  PROVE  TypeOK'
<1> DEFINE c == th[x].cpu
           g == Slot(th[x].txg)
<1> USE DEF TypeOK
<1>t. /\ c \in Cpus /\ g \in Slots /\ th[x].txg \in Nat
      /\ tc_count[c][g] \in Nat
      /\ tc_callbacks[c][g] \in SUBSET Changes /\ dirty[g] \in SUBSET Changes
      /\ <<x, th[x].txg>> \in Changes
  BY SlotRange DEF TxType, CpuType, DataType, Changes
<1> HIDE DEF c, g
<1>1. ASSUME NEW d \in Cpus, txg_hold_open(x, d) PROVE TypeOK'
  <2>1. CpuType'
    BY <1>1 DEF CpuType, txg_hold_open
  <2>2. TxType'
    BY <1>1 DEF TxType, txg_hold_open, StateType, TxStates
  <2> QED BY <1>1, <2>1, <2>2 DEF txg_hold_open, stateVars, exitVars, dataVars, threadVars,
            StateType, DataType, ThreadType
<1>2. CASE HoldCount(x)
  <2>1. tc_count' = [tc_count EXCEPT ![c] = [tc_count[c] EXCEPT ![g] = tc_count[c][g] + 1]]
    BY <1>2 DEF HoldCount, c, g
  <2>2. CpuType'
    <3>1. tc_count[c][g] + 1 \in Nat /\ tc_count \in [Cpus -> [Slots -> Nat]]
      BY <1>t DEF CpuType
    <3>2. tc_count' \in [Cpus -> [Slots -> Nat]]
      BY <2>1, <3>1, <1>t, CpuTableUpdate
    <3> QED BY <1>2, <3>2 DEF CpuType, HoldCount
  <2>3. TxType'
    BY <1>2 DEF TxType, HoldCount, TxStates
  <2> QED BY <1>2, <2>2, <2>3 DEF HoldCount, stateVars, exitVars, dataVars, threadVars,
            StateType, DataType, ThreadType
<1>3. CASE txg_rele_to_quiesce(x)
  <2>1. CpuType'
    BY ZenonT(40), <1>3, <1>t DEF CpuType, txg_rele_to_quiesce
  <2>2. TxType'
    BY <1>3 DEF TxType, txg_rele_to_quiesce, TxStates
  <2> QED BY <1>3, <2>1, <2>2 DEF txg_rele_to_quiesce, stateVars, exitVars, dataVars, threadVars,
            StateType, DataType, ThreadType
<1>4. CASE DirtyChange(x)
  <2>1. DataType'
    BY <1>4, <1>t DEF DataType, DirtyChange, g
  <2> QED BY <1>4, <2>1 DEF DirtyChange, stateVars, exitVars, cpuVars, threadVars,
            StateType, CpuType, TxType, ThreadType
<1>5. CASE txg_register_callbacks(x)
  <2>1. tc_callbacks' = [tc_callbacks EXCEPT ![c] =
           [tc_callbacks[c] EXCEPT ![g] = tc_callbacks[c][g] \cup {<<x, th[x].txg>>}]]
    BY <1>5 DEF txg_register_callbacks, c, g
  <2>2. tc_callbacks[c][g] \cup {<<x, th[x].txg>>} \in SUBSET Changes
    BY <1>t
  <2>3. CpuType'
    <3>1. tc_callbacks \in [Cpus -> [Slots -> SUBSET Changes]]
      BY DEF CpuType
    <3>2. tc_callbacks' \in [Cpus -> [Slots -> SUBSET Changes]]
      BY <2>1, <2>2, <3>1, <1>t, CpuTableUpdate
    <3> QED BY <1>5, <3>2 DEF CpuType, txg_register_callbacks
  <2>4. TxType'
    BY <1>5 DEF TxType, txg_register_callbacks, TxStates
  <2> QED BY <1>5, <2>3, <2>4 DEF txg_register_callbacks, stateVars, exitVars, dataVars, threadVars,
            StateType, DataType, ThreadType
<1>6. CASE txg_rele_to_sync(x)
  <2>1. tc_count' = [tc_count EXCEPT ![c] = [tc_count[c] EXCEPT ![g] = tc_count[c][g] - 1]]
    BY <1>6 DEF txg_rele_to_sync, c, g
  <2>2. tc_count[c][g] - 1 \in Nat
    BY <1>6, <1>t DEF txg_rele_to_sync, c, g
  <2>3. CpuType'
    <3>1. tc_count \in [Cpus -> [Slots -> Nat]]
      BY DEF CpuType
    <3>2. tc_count' \in [Cpus -> [Slots -> Nat]]
      BY <2>1, <2>2, <3>1, <1>t, CpuTableUpdate
    <3> QED BY <1>6, <3>2 DEF CpuType, txg_rele_to_sync
  <2>4. TxType'
    BY <1>6, TxgAssumption DEF TxType, txg_rele_to_sync, TxStates, Cpus
  <2>5. ThreadType'
    BY <1>6, WokenType DEF ThreadType, txg_rele_to_sync, exitVars
  <2> QED BY <1>6, <2>3, <2>4, <2>5 DEF txg_rele_to_sync, stateVars, dataVars, StateType, DataType
<1> QED BY <1>1, <1>2, <1>3, <1>4, <1>5, <1>6 DEF TxStep

-----------------------------------------------------------------------------
\* The steps of the quiesce thread keep TypeOK.
LEMMA QuiesceType ==
  ASSUME TypeOK, PipelineInv, QuiesceStep
  PROVE  TypeOK'
<1> USE TxgAssumption DEF TypeOK
<1>t. /\ q \in [st : QuiesceStates, txg : Nat, cpu : Cpus]
      /\ tc_open_lock \in [Cpus -> Txs \cup {Free, Quiesce}]
      /\ tx_open_txg \in Nat
      /\ asleep \in [Threads -> CVs \cup {"no"}]
      /\ Quiesce \in Threads
  BY DEF ThreadType, CpuType, StateType, Cpus, Threads
<1>1. CASE QuiesceSleep
  <2>1. asleep' \in [Threads -> CVs \cup {"no"}]
    BY <1>1, <1>t DEF QuiesceSleep, CVs
  <2> QED BY <1>1, <2>1 DEF QuiesceSleep, stateVars, exitVars, cpuVars, dataVars,
            StateType, CpuType, TxType, DataType, ThreadType
<1>2. CASE QuiesceStart
  <2>1. q' \in [st : QuiesceStates, txg : Nat, cpu : 0 .. NCpus - 1]
    BY <1>2, <1>t DEF QuiesceStart, QuiesceStates
  <2> QED BY <1>2, <2>1 DEF QuiesceStart, stateVars, exitVars, cpuVars, dataVars,
            StateType, CpuType, TxType, DataType, ThreadType
<1>3. CASE QuiesceLock
  <2>1. q' \in [st : QuiesceStates, txg : Nat, cpu : 0 .. NCpus - 1]
    BY <1>3, <1>t DEF QuiesceLock, QuiesceStates, Cpus, At
  <2>2. tc_open_lock' \in [Cpus -> Txs \cup {Free, Quiesce}]
    BY <1>3, <1>t DEF QuiesceLock
  <2>3. tx_open_txg' \in Nat
    BY <1>3, <1>t DEF QuiesceLock
  <2> QED BY <1>3, <2>1, <2>2, <2>3 DEF QuiesceLock, exitVars, dataVars,
            StateType, CpuType, TxType, DataType, ThreadType
<1>4. CASE QuiesceUnlock
  <2>1. q' \in [st : QuiesceStates, txg : Nat, cpu : 0 .. NCpus - 1]
    BY <1>4, <1>t DEF QuiesceUnlock, QuiesceStates, Cpus, At
  <2>2. tc_open_lock' \in [Cpus -> Txs \cup {Free, Quiesce}]
    BY <1>4, <1>t DEF QuiesceUnlock
  <2> QED BY <1>4, <2>1, <2>2 DEF QuiesceUnlock, stateVars, exitVars, dataVars,
            StateType, CpuType, TxType, DataType, ThreadType
<1>5. CASE QuiesceDrain
  <2>1. q' \in [st : QuiesceStates, txg : Nat, cpu : 0 .. NCpus - 1]
    BY <1>5, <1>t DEF QuiesceDrain, QuiesceStates, Cpus, At
  <2>2. asleep' \in [Threads -> CVs \cup {"no"}]
    BY <1>5, <1>t DEF QuiesceDrain, CVs
  <2> QED BY <1>5, <2>1, <2>2 DEF QuiesceDrain, stateVars, exitVars, cpuVars, dataVars,
            StateType, CpuType, TxType, DataType, ThreadType
<1>6. CASE QuiesceHandoff
  <2>1. q' \in [st : QuiesceStates, txg : Nat, cpu : 0 .. NCpus - 1]
    BY <1>6, <1>t DEF QuiesceHandoff, QuiesceStates, Cpus
  <2>2. asleep' \in [Threads -> CVs \cup {"no"}]
    BY <1>6, WokenType DEF QuiesceHandoff
  <2>3. tx_quiesced_txg' \in Nat
    BY <1>6, <1>t DEF QuiesceHandoff
  <2> QED BY <1>6, <2>1, <2>2, <2>3 DEF QuiesceHandoff, exitVars, cpuVars, dataVars,
            StateType, CpuType, TxType, DataType, ThreadType
<1>7. CASE QuiesceExit
  <2>1. q' \in [st : QuiesceStates, txg : Nat, cpu : 0 .. NCpus - 1]
    BY <1>7, <1>t DEF QuiesceExit, QuiesceStates, Cpus
  <2>2. asleep' \in [Threads -> CVs \cup {"no"}]
    BY <1>7, WokenType DEF QuiesceExit
  <2>3. tx_threads' \in 0 .. 2
    BY <1>7 DEF QuiesceExit, PipelineInv
  <2> QED BY <1>7, <2>1, <2>2, <2>3 DEF QuiesceExit, stateVars, cpuVars, dataVars,
            StateType, CpuType, TxType, DataType, ThreadType
<1> QED BY <1>1, <1>2, <1>3, <1>4, <1>5, <1>6, <1>7 DEF QuiesceStep

\* What the sync thread does after its first wait loop keeps the types.
LEMMA ConsumeType ==
  ASSUME TypeOK, PipelineInv, SyncConsume, spc \in {"more", "done"}
  PROVE  /\ StateType'
         /\ tx_threads' \in 0 .. 2 /\ tx_exiting' \in {0, 1}
         /\ spc' \in {"more", "done", "sync", "finish", "exited"}
         /\ asleep' \in [Threads -> CVs \cup {"no"}]
<1> USE DEF TypeOK, SyncConsume
<1>1. \A cvs, v : v \in CVs \cup {"no"} =>
        [Woken(cvs) EXCEPT ![Sync] = v] \in [Threads -> CVs \cup {"no"}]
  BY WokenType DEF Threads
<1>2. asleep' \in [Threads -> CVs \cup {"no"}]
  BY <1>1 DEF CVs
<1>3. tx_threads' \in 0 .. 2 /\ tx_exiting' \in {0, 1}
  BY DEF PipelineInv, exitVars, ThreadType
<1>4. StateType'
  <2> HIDE DEF SyncConsume
  <2>0. Larger(tx_quiesce_txg_waiting, tx_open_txg + 1) \in Nat
    BY DEF Larger, StateType
  <2> USE DEF SyncConsume
  <2>1. tx_quiesce_txg_waiting' \in Nat
    BY <2>0 DEF StateType, stateVars
  <2> QED BY <2>1 DEF StateType, stateVars
<1> QED BY <1>2, <1>3, <1>4

\* The steps of the sync thread keep TypeOK.
LEMMA SyncType ==
  ASSUME TypeOK, PipelineInv, SyncStep
  PROVE  TypeOK'
<1> USE DEF TypeOK
<1>1. CASE SyncSleep
  <2>1. asleep' \in [Threads -> CVs \cup {"no"}]
    BY ZenonT(40), <1>1 DEF SyncSleep, CVs, ThreadType
  <2> QED BY <1>1, <2>1 DEF SyncSleep, stateVars, exitVars, cpuVars, dataVars,
            StateType, CpuType, TxType, DataType, ThreadType
<1>2. CASE SyncMore \/ SyncTimer \/ SyncQuiesced
  <2>1. SyncConsume /\ spc \in {"more", "done"} /\ UNCHANGED <<cpuVars, dataVars, q, call>>
    BY <1>2 DEF SyncMore, SyncTimer, SyncQuiesced
  <2> QED BY <2>1, ConsumeType DEF cpuVars, dataVars, CpuType, TxType, DataType, ThreadType
<1>3. CASE SyncWrite
  <2>1. DataType'
    BY <1>3, SlotRange DEF SyncWrite, DataType, StateType
  <2>2. ThreadType'
    BY <1>3 DEF SyncWrite, exitVars, ThreadType
  <2> QED BY <1>3, <2>1, <2>2 DEF SyncWrite, stateVars, cpuVars, StateType, CpuType, TxType
<1>4. CASE SyncFinish
  <2>1. StateType'
    BY <1>4 DEF SyncFinish, StateType
  <2>2. DataType'
    BY <1>4, SlotRange DEF SyncFinish, DataType, StateType
  <2>3. CpuType'
    BY <1>4, SlotRange DEF SyncFinish, txg_dispatch_callbacks, CpuType, StateType
  <2>4. ThreadType'
    BY <1>4, WokenType DEF SyncFinish, exitVars, ThreadType
  <2> QED BY <1>4, <2>1, <2>2, <2>3, <2>4 DEF SyncFinish, TxType
<1> QED BY <1>1, <1>2, <1>3, <1>4 DEF SyncStep

\* What every action of a caller leaves alone.
coreVars == <<tx_open_txg, tx_quiesced_txg, tx_syncing_txg, tx_synced_txg,
              tx_threads, cpuVars, dataVars, spc, q>>

CallerStep ==
  \/ \E w \in Waiters : WaiterStep(w)
  \/ txg_kick \/ StopStep
  \/ \E t \in Threads : SpuriousWake(t)

\* The callers only wait, ask and wake: they leave the pipeline as it is.
LEMMA CallerCore == CallerStep => UNCHANGED coreVars
<1> USE DEF coreVars, stateVars, exitVars
<1>1. ASSUME NEW w \in Waiters, WaiterStep(w) PROVE UNCHANGED coreVars
  BY <1>1 DEF WaiterStep, txg_wait_synced, WaitSyncedWake, txg_wait_open, WaitOpenWake,
     WaitOpenLoop, txg_delay, DelayWake
<1>2. ASSUME txg_kick \/ StopStep PROVE UNCHANGED coreVars
  BY <1>2 DEF txg_kick, StopStep, txg_sync_stop, StopWake, StopExit
<1>3. ASSUME NEW t \in Threads, SpuriousWake(t) PROVE UNCHANGED coreVars
  BY <1>3 DEF SpuriousWake
<1> QED BY <1>1, <1>2, <1>3 DEF CallerStep

\* The loop of txg_wait_synced keeps its caller's state well typed.
LEMMA WaitSyncedType ==
  ASSUME TypeOK, NEW w \in Callers, NEW txg \in Nat,
         WaitSyncedLoop(w, txg, tx_sync_txg_waiting)
  PROVE  /\ tx_sync_txg_waiting' \in Nat
         /\ call' \in [Callers -> [op : CallOps, txg : Nat]]
         /\ asleep' \in [Threads -> CVs \cup {"no"}]
<1> USE DEF TypeOK, WaitSyncedLoop
<1>1. tx_sync_txg_waiting' \in Nat
  BY LargerType DEF StateType
<1>2. call' \in [Callers -> [op : CallOps, txg : Nat]]
  BY DEF ThreadType, CallOps
<1>3. asleep' \in [Threads -> CVs \cup {"no"}]
  BY WokenType DEF ThreadType, CVs
<1> QED BY <1>1, <1>2, <1>3

\* The same for txg_wait_open.
LEMMA WaitOpenType ==
  ASSUME TypeOK, NEW w \in Callers, NEW txg \in Nat, WaitOpenLoop(w, txg)
  PROVE  /\ tx_quiesce_txg_waiting' \in Nat
         /\ call' \in [Callers -> [op : CallOps, txg : Nat]]
         /\ asleep' \in [Threads -> CVs \cup {"no"}]
<1> USE DEF TypeOK, WaitOpenLoop
<1>1. tx_quiesce_txg_waiting' \in Nat
  BY LargerType DEF StateType
<1>2. call' \in [Callers -> [op : CallOps, txg : Nat]]
  BY DEF ThreadType, CallOps
<1>3. asleep' \in [Threads -> CVs \cup {"no"}]
  BY WokenType DEF ThreadType, CVs
<1> QED BY <1>1, <1>2, <1>3

\* What the callers do change.
CallerVarsType ==
  /\ tx_sync_txg_waiting \in Nat /\ tx_quiesce_txg_waiting \in Nat
  /\ tx_exiting \in {0, 1}
  /\ call \in [Callers -> [op : CallOps, txg : Nat]]
  /\ asleep \in [Threads -> CVs \cup {"no"}]

\* The steps of the callers keep TypeOK.
LEMMA CallerType ==
  ASSUME TypeOK, CallerStep
  PROVE  TypeOK'
<1>c. UNCHANGED coreVars
  BY CallerCore
<1>w. Waiters \subseteq Callers /\ Stopper \in Callers /\ Callers \subseteq Threads
  BY DEF Callers, Threads
<1>s. SUFFICES CallerVarsType'
  BY <1>c DEF TypeOK, coreVars, cpuVars, dataVars, StateType, CpuType, TxType, DataType,
     ThreadType, CallerVarsType
<1>t. CallerVarsType /\ tx_open_txg \in Nat
  BY DEF TypeOK, StateType, ThreadType, CallerVarsType
<1>u. \A cvs, w, v : v \in CVs \cup {"no"} =>
        [Woken(cvs) EXCEPT ![w] = v] \in [Threads -> CVs \cup {"no"}]
  BY ZenonT(40), WokenType DEF TypeOK
<1>v. \A w \in Callers : call[w].txg \in Nat
  BY <1>t DEF CallerVarsType
<1>1. ASSUME NEW w \in Waiters, NEW txg \in Targets, txg_wait_synced(w, txg)
      PROVE  CallerVarsType'
  <2>1. PICK target \in Nat : WaitSyncedLoop(w, target, tx_sync_txg_waiting)
    BY <1>1, <1>t, TxgAssumption DEF txg_wait_synced, TXG_DEFER_SIZE
  <2> QED BY <1>1, <2>1, <1>w, <1>t, WaitSyncedType DEF txg_wait_synced, exitVars, CallerVarsType
<1>2. ASSUME NEW w \in Waiters, WaitSyncedWake(w)
      PROVE  CallerVarsType'
  BY <1>2, <1>w, <1>t, <1>v, WaitSyncedType DEF WaitSyncedWake, exitVars, CallerVarsType
<1>3. ASSUME NEW w \in Waiters, NEW txg \in Targets, txg_wait_open(w, txg)
      PROVE  CallerVarsType'
  <2>1. PICK target \in Nat : WaitOpenLoop(w, target)
    BY <1>3, <1>t, TxgAssumption DEF txg_wait_open
  <2> QED BY <2>1, <1>w, <1>t, WaitOpenType DEF WaitOpenLoop, exitVars, CallerVarsType
<1>4. ASSUME NEW w \in Waiters, WaitOpenWake(w)
      PROVE  CallerVarsType'
  <2>1. PICK target \in Nat : WaitOpenLoop(w, target)
    BY <1>4, <1>v, <1>w DEF WaitOpenWake
  <2> QED BY <2>1, <1>w, <1>t, WaitOpenType DEF WaitOpenLoop, exitVars, CallerVarsType
<1>5. ASSUME NEW w \in Waiters, NEW txg \in Targets, txg_delay(w, txg)
      PROVE  CallerVarsType'
  <2>1. [op |-> "delay", txg |-> txg] \in [op : CallOps, txg : Nat]
    BY TxgAssumption DEF CallOps
  <2>2. call' \in [Callers -> [op : CallOps, txg : Nat]]
    BY <1>5, <2>1, <1>w, <1>t DEF txg_delay, CallerVarsType
  <2>3. asleep' \in [Threads -> CVs \cup {"no"}]
    BY <1>5, <1>w, <1>t DEF txg_delay, CallerVarsType, CVs
  <2> QED BY <1>5, <2>2, <2>3, <1>t DEF txg_delay, CallerVarsType, stateVars, exitVars
<1>6. ASSUME NEW w \in Waiters, DelayWake(w)
      PROVE  CallerVarsType'
  <2>2. call' \in [Callers -> [op : CallOps, txg : Nat]]
    BY <1>6, <1>w, <1>t DEF DelayWake, CallerVarsType, CallOps
  <2>3. asleep' \in [Threads -> CVs \cup {"no"}]
    BY <1>6, <1>w, <1>t DEF DelayWake, CallerVarsType, CVs
  <2> QED BY <1>6, <2>2, <2>3, <1>t DEF DelayWake, CallerVarsType, stateVars, exitVars
<1>7. CASE txg_kick
  <2>1. asleep' \in [Threads -> CVs \cup {"no"}]
    BY <1>7, WokenType DEF txg_kick, TypeOK
  <2> QED BY <1>7, <2>1, <1>t DEF txg_kick, CallerVarsType, exitVars
<1>8. CASE txg_sync_stop
  <2>1. [op |-> "stop", txg |-> tx_open_txg + TXG_DEFER_SIZE] \in [op : CallOps, txg : Nat]
    BY <1>t DEF TXG_DEFER_SIZE, CallOps
  <2>2. call' \in [Callers -> [op : CallOps, txg : Nat]]
    BY ZenonT(40), <1>8, <2>1, <1>t DEF txg_sync_stop, CallerVarsType
  <2> QED BY <1>8, <2>2, <1>t DEF txg_sync_stop, CallerVarsType, stateVars, exitVars
<1>9. CASE StopWake
  <2>1. tx_sync_txg_waiting' \in Nat
    BY <1>9, <1>t, <1>v, <1>w, LargerType DEF StopWake, CallerVarsType
  <2>2. call' \in [Callers -> [op : CallOps, txg : Nat]]
    BY <1>9, <1>w, <1>t DEF StopWake, CallerVarsType, CallOps
  <2>3. asleep' \in [Threads -> CVs \cup {"no"}]
    <3>1. PICK cvs, v : v \in {"sync_done", "exit"} /\ asleep' = [Woken(cvs) EXCEPT ![Stopper] = v]
      BY <1>9, ZenonT(40) DEF StopWake
    <3>2. v \in CVs \cup {"no"}
      BY <3>1 DEF CVs
    <3> QED BY <3>1, <3>2, <1>u
  <2> QED BY <1>9, <2>1, <2>2, <2>3, <1>t DEF StopWake, CallerVarsType
<1>10. CASE StopExit
  <2>1. call' \in [Callers -> [op : CallOps, txg : Nat]]
    BY <1>10, <1>w, <1>t DEF StopExit, CallerVarsType, CallOps
  <2>2. asleep' \in [Threads -> CVs \cup {"no"}]
    BY <1>10, <1>w, <1>t DEF StopExit, CallerVarsType, CVs
  <2> QED BY <1>10, <2>1, <2>2, <1>t DEF StopExit, CallerVarsType, stateVars
<1>11. ASSUME NEW t \in Threads, SpuriousWake(t)
       PROVE  CallerVarsType'
  BY <1>11, <1>t DEF SpuriousWake, CallerVarsType, stateVars, exitVars
<1> QED BY <1>1, <1>2, <1>3, <1>4, <1>5, <1>6, <1>7, <1>8, <1>9, <1>10, <1>11
  DEF CallerStep, WaiterStep, StopStep

-----------------------------------------------------------------------------
(* The invariant without the types.                                        *)

CoreInv == PipelineInv /\ LockInv /\ CountInv /\ HoldInv /\ DataInv

-----------------------------------------------------------------------------
(* What a step that leaves the relevant variables alone preserves.         *)

\* The open locks stay where they are.
LEMMA LockFrame ==
  ASSUME LockInv, UNCHANGED <<th, tc_open_lock, tx_open_txg>>,
         \A c \in Cpus : QuiesceHas(c)' => QuiesceHas(c)
  PROVE  LockInv'
BY DEF LockInv, Entering

\* The counts and the holders stay.
LEMMA CountFrame ==
  ASSUME CountInv, UNCHANGED <<th, tc_count>>
  PROVE  CountInv'
BY DEF CountInv, Holders, Counted

\* The holders stay, each within its bounds.
LEMMA HoldFrame ==
  ASSUME HoldInv, UNCHANGED th,
         \A x \in Txs : Holding(x) /\ HolderOK(x) => HolderOK(x)'
  PROVE  HoldInv'
BY DEF HoldInv, Holding

\* A transaction that keeps its txg and CPU stays within its bounds.
LEMMA StillOK ==
  ASSUME NEW x, HolderOK(x), th'[x].txg = th[x].txg, th'[x].cpu = th[x].cpu,
         UNCHANGED <<NextToSync, tx_open_txg, tx_syncing_txg, tx_quiesced_txg, q>>
  PROVE  HolderOK(x)'
BY DEF HolderOK

\* The data of the slots stays.
LEMMA DataFrame ==
  ASSUME DataInv, StateType, UNCHANGED <<dirty, tc_callbacks, NextToSync>>,
         tx_open_txg' \in {tx_open_txg, tx_open_txg + 1},
         spc' = "finish" => spc = "finish" /\ UNCHANGED <<writing, tx_syncing_txg>>
  PROVE  DataInv'
<1>1. NextToSync \in Nat /\ tx_open_txg \in Nat
  BY TxgAssumption DEF StateType, NextToSync
<1>2. \A t \in NextToSync .. tx_open_txg : t \in NextToSync' .. tx_open_txg'
  BY <1>1
<1> QED BY <1>2 DEF DataInv

\* Everything stays.
LEMMA Frame ==
  ASSUME StateType, CoreInv, UNCHANGED coreVars
  PROVE  CoreInv'
<1>u. UNCHANGED <<tx_open_txg, tx_quiesced_txg, tx_syncing_txg, tx_synced_txg, tx_threads,
                  tc_open_lock, tc_count, tc_callbacks, th, dirty, writing, spc, q>>
  BY DEF coreVars, cpuVars, dataVars
<1>n. UNCHANGED NextToSync
  BY <1>u DEF NextToSync
<1>1. PipelineInv'
  BY <1>u, <1>n DEF CoreInv, PipelineInv, Closing
<1>2. LockInv'
  BY <1>u, LockFrame DEF CoreInv, QuiesceHas
<1>3. CountInv'
  BY <1>u, CountFrame DEF CoreInv
<1>4. HoldInv'
  BY <1>u, <1>n, StillOK, HoldFrame DEF CoreInv
<1>5. DataInv'
  BY <1>u, <1>n, DataFrame DEF CoreInv
<1> QED BY <1>1, <1>2, <1>3, <1>4, <1>5 DEF CoreInv

-----------------------------------------------------------------------------
(* Facts about the states of the pipeline.                                 *)

\* The holders of a slot on a CPU are finitely many.
LEMMA HoldersFinite == \A c, g : IsFiniteSet(Holders(c, g))
<1> TAKE c, g
<1>1. Holders(c, g) \subseteq Txs
  BY DEF Holders
<1> QED BY <1>1, TxgAssumption, FS_Subset

\* There are at most three active txgs.
LEMMA Window ==
  ASSUME StateType, PipelineInv
  PROVE  /\ NextToSync \in Nat \ {0} /\ tx_open_txg \in Nat
         /\ NextToSync <= tx_open_txg /\ tx_open_txg <= NextToSync + 2
<1>1. NextToSync \in Nat \ {0} /\ tx_open_txg \in Nat
  BY TxgAssumption DEF StateType, NextToSync
<1> QED BY <1>1 DEF PipelineInv

\* So the slot of an active txg tells it from every other.
LEMMA SlotsDistinct ==
  ASSUME StateType, PipelineInv,
         NEW t \in NextToSync .. tx_open_txg, NEW u \in NextToSync .. tx_open_txg,
         Slot(t) = Slot(u)
  PROVE  t = u
<1>1. t \in Nat /\ u \in Nat /\ t <= u + 2 /\ u <= t + 2
  BY Window
<1>2. t % 4 = u % 4
  BY DEF Slot, TXG_SIZE
<1> QED BY <1>1, <1>2

\* The open txg is past every txg in the pipeline.
LEMMA OpenIsLast ==
  ASSUME StateType, PipelineInv
  PROVE  /\ tx_open_txg \in NextToSync .. tx_open_txg
         /\ tx_open_txg > tx_syncing_txg
         /\ tx_open_txg > tx_quiesced_txg
         /\ Closing => tx_open_txg # q.txg
<1>1. NextToSync \in Nat \ {0} /\ tx_open_txg \in Nat
  BY Window
<1> QED BY <1>1 DEF PipelineInv

\* A transaction that is counted finds its hold in tc_count.
LEMMA HoldFound ==
  ASSUME TxType, CountInv, NEW x \in Txs, Counted(x)
  PROVE  /\ th[x].cpu \in Cpus /\ Slot(th[x].txg) \in Slots
         /\ tc_count[th[x].cpu][Slot(th[x].txg)] # 0
<1>1. th[x].cpu \in Cpus /\ Slot(th[x].txg) \in Slots
  BY SlotRange DEF TxType
<1>2. x \in Holders(th[x].cpu, Slot(th[x].txg))
  BY DEF Holders
<1> QED BY <1>1, <1>2, HoldersFinite, FS_EmptySet DEF CountInv

\* The initial state satisfies the invariant.
LEMMA InitInv == Init => TxgInv
<1> SUFFICES ASSUME Init PROVE TxgInv OBVIOUS
<1>1. TypeOK
  BY InitType
<1>2. PipelineInv
  BY TxgAssumption DEF Init, PipelineInv, NextToSync, Closing
<1>i. \A x \in Txs : th[x].st = "idle"
  BY DEF Init, Idle
<1>q. q.st = "idle"
  BY DEF Init
<1>3. LockInv
  BY <1>i, <1>q DEF LockInv, Entering, QuiesceHas
<1>4. CountInv
  <2>1. \A c, g : Holders(c, g) = {}
    BY <1>i DEF Holders, Counted
  <2>2. tc_count = [c \in Cpus |-> [g \in Slots |-> 0]]
    BY DEF Init
  <2> QED BY <2>1, <2>2, FS_EmptySet DEF CountInv
<1>5. HoldInv
  BY <1>i DEF HoldInv, Holding
<1>6. DataInv
  BY DEF Init, DataInv
<1> QED BY <1>1, <1>2, <1>3, <1>4, <1>5, <1>6 DEF TxgInv

-----------------------------------------------------------------------------
(* Transactions.                                                           *)

\* A transaction's steps leave the txg counters and the two threads alone.
LEMMA TxFrame ==
  ASSUME PipelineInv, NEW x \in Txs, TxStep(x)
  PROVE  /\ UNCHANGED <<tx_open_txg, tx_quiesced_txg, tx_syncing_txg, tx_synced_txg,
                        tx_threads, writing, spc, q, NextToSync>>
         /\ PipelineInv'
<1>1. UNCHANGED <<tx_open_txg, tx_quiesced_txg, tx_syncing_txg, tx_synced_txg,
                  tx_threads, writing, spc, q>>
  BY DEF TxStep, txg_hold_open, HoldCount, txg_rele_to_quiesce, DirtyChange,
     txg_register_callbacks, txg_rele_to_sync, stateVars, exitVars, dataVars, threadVars
<1>2. UNCHANGED NextToSync
  BY <1>1 DEF NextToSync
<1> QED BY <1>1, <1>2 DEF PipelineInv, Closing

\* When no transaction becomes counted or uncounted, the counts stay right.
LEMMA CountSame ==
  ASSUME CountInv, UNCHANGED tc_count,
         \A y \in Txs : /\ Counted(y)' <=> Counted(y)
                        /\ Counted(y) => th'[y].cpu = th[y].cpu /\ th'[y].txg = th[y].txg
  PROVE  CountInv'
<1>1. \A d, h : Holders(d, h)' = Holders(d, h)
  BY DEF Holders
<1> QED BY <1>1 DEF CountInv

\* txg_hold_open keeps the invariant.
LEMMA HoldOpenInv ==
  ASSUME TypeOK, CoreInv, NEW x \in Txs, NEW c \in Cpus, txg_hold_open(x, c)
  PROVE  LockInv' /\ CountInv' /\ HoldInv' /\ DataInv'
<1>u. /\ UNCHANGED <<tx_open_txg, tx_quiesced_txg, tx_syncing_txg, tx_synced_txg,
                     tx_threads, writing, spc, q, NextToSync>>
      /\ StateType /\ PipelineInv
  BY TxFrame DEF TypeOK, CoreInv, TxStep
<1>d. UNCHANGED <<tc_count, tc_callbacks, dirty>>
  BY DEF txg_hold_open, dataVars
<1>t. /\ th[x].st = "idle"
      /\ th'[x].st = "enter" /\ th'[x].cpu = c /\ th'[x].txg = tx_open_txg
      /\ \A y \in Txs : y # x => th'[y] = th[y]
  BY DEF txg_hold_open, TypeOK, TxType
<1>l. /\ tc_open_lock[c] = Free /\ tc_open_lock'[c] = x
      /\ \A d \in Cpus : d # c => tc_open_lock'[d] = tc_open_lock[d]
  BY DEF txg_hold_open, TypeOK, CpuType
<1>k. Free \notin Txs /\ Free # Quiesce /\ \A y \in Txs : th[y].cpu \in Cpus
  BY TxgAssumption DEF Free, Quiesce, TypeOK, TxType
<1>1. LockInv'
  <2>1. \A y \in Txs : Entering(y)' =>
          tc_open_lock'[th'[y].cpu] = y /\ th'[y].txg = tx_open_txg
    BY <1>t, <1>l, <1>k DEF CoreInv, LockInv, Entering
  <2>2. \A d \in Cpus : QuiesceHas(d)' => tc_open_lock'[d] = Quiesce
    BY <1>u, <1>l, <1>k DEF CoreInv, LockInv, QuiesceHas
  <2> QED BY <2>1, <2>2, <1>u DEF LockInv
<1>2. CountInv'
  BY <1>t, <1>d, CountSame DEF CoreInv, Counted
<1>3. HoldInv'
  <2>1. HolderOK(x)'
    BY <1>t, <1>u, OpenIsLast DEF HolderOK, Closing
  <2>2. \A y \in Txs \ {x} : Holding(y)' => HolderOK(y)'
    BY <1>t, <1>u, StillOK DEF CoreInv, HoldInv, Holding
  <2> QED BY <2>1, <2>2 DEF HoldInv
<1>4. DataInv'
  BY <1>u, <1>d, DataFrame DEF CoreInv
<1> QED BY <1>1, <1>2, <1>3, <1>4

\* Counting the hold keeps the invariant.
LEMMA HoldCountInv ==
  ASSUME TypeOK, CoreInv, NEW x \in Txs, HoldCount(x)
  PROVE  LockInv' /\ CountInv' /\ HoldInv' /\ DataInv'
<1> DEFINE c == th[x].cpu
           g == Slot(th[x].txg)
<1>u. /\ UNCHANGED <<tx_open_txg, tx_quiesced_txg, tx_syncing_txg, tx_synced_txg,
                     tx_threads, writing, spc, q, NextToSync>>
      /\ StateType /\ PipelineInv
  BY TxFrame DEF TypeOK, CoreInv, TxStep
<1>d. UNCHANGED <<tc_open_lock, tc_callbacks, dirty>>
  BY DEF HoldCount, dataVars
<1>t. /\ th[x].st = "enter" /\ th'[x].st = "open"
      /\ \A y \in Txs : /\ th'[y].cpu = th[y].cpu /\ th'[y].txg = th[y].txg
                        /\ y # x => th'[y].st = th[y].st
  BY DEF HoldCount, TypeOK, TxType
<1>c. /\ c \in Cpus /\ g \in Slots
      /\ \A d \in Cpus, h \in Slots :
           tc_count'[d][h] = IF d = c /\ h = g THEN tc_count[d][h] + 1 ELSE tc_count[d][h]
  BY SlotRange DEF HoldCount, TypeOK, TxType, CpuType
<1>1. LockInv'
  BY <1>t, <1>u, <1>d DEF CoreInv, LockInv, Entering, QuiesceHas
<1>2. CountInv'
  <2>1. \A d \in Cpus, h \in Slots :
          Holders(d, h)' = IF d = c /\ h = g THEN Holders(d, h) \cup {x} ELSE Holders(d, h)
    BY <1>t DEF Holders, Counted
  <2>2. x \notin Holders(c, g)
    BY <1>t DEF Holders, Counted
  <2> HIDE DEF c, g
  <2>3. Cardinality(Holders(c, g) \cup {x}) = Cardinality(Holders(c, g)) + 1
    BY <2>2, HoldersFinite, FS_AddElement
  <2> QED BY <2>1, <2>3, <1>c DEF CoreInv, CountInv
<1>3. HoldInv'
  BY <1>t, <1>u, StillOK DEF CoreInv, HoldInv, Holding
<1>4. DataInv'
  BY <1>u, <1>d, DataFrame DEF CoreInv
<1> QED BY <1>1, <1>2, <1>3, <1>4

\* txg_rele_to_quiesce keeps the invariant.
LEMMA ReleQuiesceInv ==
  ASSUME TypeOK, CoreInv, NEW x \in Txs, txg_rele_to_quiesce(x)
  PROVE  LockInv' /\ CountInv' /\ HoldInv' /\ DataInv'
<1>u. /\ UNCHANGED <<tx_open_txg, tx_quiesced_txg, tx_syncing_txg, tx_synced_txg,
                     tx_threads, writing, spc, q, NextToSync>>
      /\ StateType /\ PipelineInv
  BY TxFrame DEF TypeOK, CoreInv, TxStep
<1>d. UNCHANGED <<tc_count, tc_callbacks, dirty>>
  BY DEF txg_rele_to_quiesce, dataVars
<1>t. /\ th[x].st = "open" /\ th'[x].st = "assigned"
      /\ \A y \in Txs : /\ th'[y].cpu = th[y].cpu /\ th'[y].txg = th[y].txg
                        /\ y # x => th'[y].st = th[y].st
  BY DEF txg_rele_to_quiesce, TypeOK, TxType
<1>l. \A d \in Cpus : d # th[x].cpu => tc_open_lock'[d] = tc_open_lock[d]
  BY DEF txg_rele_to_quiesce, TypeOK, CpuType
<1>k. Quiesce \notin Txs /\ \A y \in Txs : th[y].cpu \in Cpus
  BY TxgAssumption DEF Quiesce, TypeOK, TxType
<1>1. LockInv'
  <2>1. tc_open_lock[th[x].cpu] = x
    BY <1>t DEF CoreInv, LockInv, Entering
  <2>2. \A y \in Txs : Entering(y)' =>
          tc_open_lock'[th'[y].cpu] = y /\ th'[y].txg = tx_open_txg
    BY <2>1, <1>t, <1>l, <1>k DEF CoreInv, LockInv, Entering
  <2>3. \A d \in Cpus : QuiesceHas(d)' => tc_open_lock'[d] = Quiesce
    BY ZenonT(40), <2>1, <1>u, <1>l, <1>k DEF CoreInv, LockInv, QuiesceHas
  <2> QED BY <2>2, <2>3, <1>u DEF LockInv
<1>2. CountInv'
  BY <1>t, <1>d, CountSame DEF CoreInv, Counted
<1>3. HoldInv'
  BY <1>t, <1>u, StillOK DEF CoreInv, HoldInv, Holding
<1>4. DataInv'
  BY <1>u, <1>d, DataFrame DEF CoreInv
<1> QED BY <1>1, <1>2, <1>3, <1>4

\* A change goes to a txg that is not being written.
LEMMA DirtyInv ==
  ASSUME TypeOK, CoreInv, NEW x \in Txs, DirtyChange(x)
  PROVE  LockInv' /\ CountInv' /\ HoldInv' /\ DataInv'
<1> DEFINE t == th[x].txg
           g == Slot(th[x].txg)
<1>u. /\ UNCHANGED <<tx_open_txg, tx_quiesced_txg, tx_syncing_txg, tx_synced_txg,
                     tx_threads, writing, spc, q, NextToSync>>
      /\ StateType /\ PipelineInv
  BY TxFrame DEF TypeOK, CoreInv, TxStep
<1>d. UNCHANGED <<tc_open_lock, tc_count, tc_callbacks, th>>
  BY DEF DirtyChange, cpuVars
<1>h. t \in NextToSync .. tx_open_txg /\ t > tx_syncing_txg
  BY DEF DirtyChange, CoreInv, HoldInv, Holding, HolderOK
<1>e. \A h \in Slots : dirty'[h] = IF h = g THEN dirty[h] \cup {<<x, t>>} ELSE dirty[h]
  BY DEF DirtyChange, TypeOK, DataType
<1>1. LockInv'
  BY <1>u, <1>d, LockFrame DEF CoreInv, QuiesceHas
<1>2. CountInv'
  BY <1>d, CountFrame DEF CoreInv
<1>3. HoldInv'
  BY <1>u, <1>d, StillOK, HoldFrame DEF CoreInv
<1>4. DataInv'
  <2>1. ASSUME NEW h \in Slots, NEW e \in dirty'[h]
        PROVE  e[2] \in NextToSync .. tx_open_txg /\ Slot(e[2]) = h
    <3>1. CASE e \in dirty[h]
      BY <3>1 DEF CoreInv, DataInv
    <3>2. CASE e = <<x, t>> /\ h = g
      BY <3>2, <1>h
    <3> HIDE DEF t, g
    <3> QED BY ZenonT(40), <3>1, <3>2, <1>e
  <2>2. ASSUME spc = "finish" PROVE writing = dirty'[Slot(tx_syncing_txg)]
    <3>1. tx_syncing_txg = NextToSync
      BY <1>u, <2>2 DEF PipelineInv
    <3>2. tx_syncing_txg \in Nat /\ tx_syncing_txg \in NextToSync .. tx_open_txg
      BY <3>1, <1>u, Window
    <3>3. Slot(tx_syncing_txg) # g /\ Slot(tx_syncing_txg) \in Slots
      BY <3>2, <1>h, <1>u, SlotsDistinct, SlotRange
    <3> QED BY ZenonT(40), <1>e, <2>2, <3>3 DEF CoreInv, DataInv
  <2> QED BY <2>1, <2>2, <1>u, <1>d DEF CoreInv, DataInv
<1> QED BY <1>1, <1>2, <1>3, <1>4

\* Registering callbacks keeps the invariant.
LEMMA RegisterInv ==
  ASSUME TypeOK, CoreInv, NEW x \in Txs, txg_register_callbacks(x)
  PROVE  LockInv' /\ CountInv' /\ HoldInv' /\ DataInv'
<1> DEFINE t == th[x].txg
           c == th[x].cpu
           g == Slot(th[x].txg)
<1>u. /\ UNCHANGED <<tx_open_txg, tx_quiesced_txg, tx_syncing_txg, tx_synced_txg,
                     tx_threads, writing, spc, q, NextToSync>>
      /\ StateType /\ PipelineInv
  BY TxFrame DEF TypeOK, CoreInv, TxStep
<1>d. UNCHANGED <<tc_open_lock, tc_count, dirty>>
  BY DEF txg_register_callbacks, dataVars
<1>t. /\ th[x].st = "assigned" /\ th'[x].st = "registered"
      /\ \A y \in Txs : /\ th'[y].cpu = th[y].cpu /\ th'[y].txg = th[y].txg
                        /\ y # x => th'[y].st = th[y].st
  BY DEF txg_register_callbacks, TypeOK, TxType
<1>h. t \in NextToSync .. tx_open_txg
  BY <1>t DEF CoreInv, HoldInv, Holding, HolderOK
<1>e. \A d \in Cpus, h \in Slots :
        tc_callbacks'[d][h] = IF d = c /\ h = g THEN tc_callbacks[d][h] \cup {<<x, t>>}
                              ELSE tc_callbacks[d][h]
  BY ZenonT(40) DEF txg_register_callbacks, TypeOK, CpuType
<1>1. LockInv'
  BY <1>t, <1>u, <1>d DEF CoreInv, LockInv, Entering, QuiesceHas
<1>2. CountInv'
  BY <1>t, <1>d, CountSame DEF CoreInv, Counted
<1>3. HoldInv'
  BY ZenonT(40), <1>t, <1>u, StillOK DEF CoreInv, HoldInv, Holding
<1>4. DataInv'
  <2>1. ASSUME NEW d \in Cpus, NEW h \in Slots, NEW e \in tc_callbacks'[d][h]
        PROVE  e[2] \in NextToSync .. tx_open_txg /\ Slot(e[2]) = h
    <3>1. CASE e \in tc_callbacks[d][h]
      BY <3>1 DEF CoreInv, DataInv
    <3>2. CASE e = <<x, t>> /\ h = g
      BY <3>2, <1>h
    <3> HIDE DEF t, g, c
    <3>3. CASE d = c /\ h = g
      <4>1. tc_callbacks'[d][h] = tc_callbacks[d][h] \cup {<<x, t>>}
        BY ZenonT(40), <3>3, <1>e
      <4> QED BY <4>1, <3>1, <3>2, <3>3
    <3>4. CASE ~(d = c /\ h = g)
      <4>1. tc_callbacks'[d][h] = tc_callbacks[d][h]
        BY ZenonT(40), <3>4, <1>e
      <4> QED BY <4>1, <3>1
    <3> QED BY <3>3, <3>4
  <2> QED BY ZenonT(40), <2>1, <1>u, <1>d DEF CoreInv, DataInv
<1> QED BY <1>1, <1>2, <1>3, <1>4

\* Releasing the hold keeps the invariant.
LEMMA ReleSyncInv ==
  ASSUME TypeOK, CoreInv, NEW x \in Txs, txg_rele_to_sync(x)
  PROVE  LockInv' /\ CountInv' /\ HoldInv' /\ DataInv'
<1> DEFINE c == th[x].cpu
           g == Slot(th[x].txg)
<1>u. /\ UNCHANGED <<tx_open_txg, tx_quiesced_txg, tx_syncing_txg, tx_synced_txg,
                     tx_threads, writing, spc, q, NextToSync>>
      /\ StateType /\ PipelineInv
  BY TxFrame DEF TypeOK, CoreInv, TxStep
<1>d. UNCHANGED <<tc_open_lock, tc_callbacks, dirty>>
  BY DEF txg_rele_to_sync, dataVars
<1>t. /\ Counted(x) /\ th'[x].st = "idle"
      /\ \A y \in Txs : y # x => th'[y] = th[y]
  BY DEF txg_rele_to_sync, TypeOK, TxType, Idle, Counted
<1>c. /\ c \in Cpus /\ g \in Slots
      /\ \A d \in Cpus, h \in Slots :
           tc_count'[d][h] = IF d = c /\ h = g THEN tc_count[d][h] - 1 ELSE tc_count[d][h]
  BY ZenonT(40), SlotRange DEF txg_rele_to_sync, TypeOK, TxType, CpuType
<1>1. LockInv'
  BY ZenonT(40), <1>t, <1>u, <1>d DEF CoreInv, LockInv, Entering, QuiesceHas
<1>2. CountInv'
  <2>1. \A d \in Cpus, h \in Slots :
          Holders(d, h)' = IF d = c /\ h = g THEN Holders(d, h) \ {x} ELSE Holders(d, h)
    BY <1>t DEF Holders, Counted
  <2>2. x \in Holders(c, g)
    BY <1>t DEF Holders
  <2> HIDE DEF c, g
  <2>3. Cardinality(Holders(c, g) \ {x}) = Cardinality(Holders(c, g)) - 1
    BY <2>2, HoldersFinite, FS_RemoveElement
  <2>4. \A d \in Cpus, h \in Slots : tc_count[d][h] = Cardinality(Holders(d, h))
    BY DEF CoreInv, CountInv
  <2>5. ASSUME NEW d \in Cpus, NEW h \in Slots
        PROVE  tc_count'[d][h] = Cardinality(Holders(d, h)')
    <3>1. CASE d = c /\ h = g
      BY <3>1, <2>1, <2>3, <2>4, <1>c
    <3>2. CASE ~(d = c /\ h = g)
      BY <3>2, <2>1, <2>4, <1>c
    <3> QED BY <3>1, <3>2
  <2> QED BY <2>5 DEF CountInv
<1>3. HoldInv'
  BY ZenonT(40), <1>t, <1>u, StillOK DEF CoreInv, HoldInv, Holding
<1>4. DataInv'
  BY <1>u, <1>d, DataFrame DEF CoreInv
<1> QED BY <1>1, <1>2, <1>3, <1>4

\* Every step of a transaction keeps the invariant.
LEMMA TxInv ==
  ASSUME TypeOK, CoreInv, NEW x \in Txs, TxStep(x)
  PROVE  TypeOK' /\ CoreInv'
<1>1. TypeOK'
  <2>1. th[x].st \in {"assigned", "registered"} =>
          tc_count[th[x].cpu][Slot(th[x].txg)] # 0
    BY HoldFound DEF TypeOK, CoreInv, Counted
  <2> QED BY <2>1, TxStepType
<1>2. PipelineInv'
  BY TxFrame DEF CoreInv
<1>3. LockInv' /\ CountInv' /\ HoldInv' /\ DataInv'
  BY HoldOpenInv, HoldCountInv, ReleQuiesceInv, DirtyInv, RegisterInv, ReleSyncInv DEF TxStep
<1> QED BY <1>1, <1>2, <1>3 DEF CoreInv

-----------------------------------------------------------------------------
(* The quiesce thread.                                                     *)

\* The quiesce thread's wait loop, its start on a txg and its exit.
LEMMA QuiesceLoopInv ==
  ASSUME TypeOK, CoreInv, QuiesceSleep \/ QuiesceStart \/ QuiesceExit
  PROVE  CoreInv'
<1>1. CASE QuiesceSleep
  BY <1>1, Frame DEF QuiesceSleep, coreVars, stateVars, exitVars, TypeOK
<1>2. CASE QuiesceStart \/ QuiesceExit
  <2>u. UNCHANGED <<tx_open_txg, tx_quiesced_txg, tx_syncing_txg, tx_synced_txg,
                    tc_open_lock, tc_count, tc_callbacks, th, dirty, writing, spc>>
    BY <1>2 DEF QuiesceStart, QuiesceExit, stateVars, cpuVars, dataVars
  <2>n. UNCHANGED NextToSync /\ StateType /\ tx_threads \in Nat
    BY <2>u DEF NextToSync, TypeOK, ThreadType
  <2>q. /\ q.st = "idle"
        /\ \/ q'.st = "lock" /\ q'.txg = tx_open_txg /\ q'.cpu = 0
              /\ tx_quiesced_txg = 0 /\ tx_threads' = tx_threads
           \/ q'.st = "exited" /\ tx_threads' = tx_threads - 1
    <3>1. q \in [st : QuiesceStates, txg : Nat, cpu : Cpus]
      BY DEF TypeOK, ThreadType, Cpus
    <3>2. CASE QuiesceStart
      BY <3>2 DEF QuiesceStart, QuiesceWants, exitVars
    <3>3. CASE QuiesceExit
      BY <3>1, <3>3 DEF QuiesceExit
    <3> QED BY <1>2, <3>2, <3>3
  <2>1. PipelineInv'
    BY <2>u, <2>n, <2>q DEF CoreInv, PipelineInv, Closing
  <2>2. LockInv'
    BY <2>u, <2>q, LockFrame DEF CoreInv, QuiesceHas, Cpus
  <2>3. CountInv'
    BY <2>u, CountFrame DEF CoreInv
  <2>4. HoldInv'
    BY <2>u, <2>n, <2>q, HoldFrame DEF CoreInv, HolderOK
  <2>5. DataInv'
    BY <2>u, <2>n, DataFrame DEF CoreInv
  <2> QED BY <2>1, <2>2, <2>3, <2>4, <2>5 DEF CoreInv
<1> QED BY <1>1, <1>2

\* Taking an open lock keeps the invariant; with the last one, a new txg opens.
LEMMA QuiesceLockInv ==
  ASSUME TypeOK, CoreInv, QuiesceLock
  PROVE  CoreInv'
<1>u. UNCHANGED <<tx_quiesced_txg, tx_syncing_txg, tx_synced_txg, tx_threads,
                  tc_count, tc_callbacks, th, dirty, writing, spc>>
  BY DEF QuiesceLock, exitVars, dataVars
<1>n. /\ UNCHANGED NextToSync /\ StateType /\ tx_open_txg \in Nat /\ NextToSync \in Nat
      /\ NCpus \in Nat \ {0}
  BY <1>u, TxgAssumption DEF NextToSync, TypeOK, StateType
<1>q. /\ q.st = "lock" /\ q.cpu \in Cpus /\ q.txg \in Nat
      /\ \/ q.cpu = NCpus - 1 /\ q' = At("unlock", 0) /\ tx_open_txg' = tx_open_txg + 1
         \/ q' = At("lock", q.cpu + 1) /\ tx_open_txg' = tx_open_txg
  BY DEF QuiesceLock, TypeOK, ThreadType, Cpus
<1>l. \A d \in Cpus : tc_open_lock'[d] = IF d = q.cpu THEN Quiesce ELSE tc_open_lock[d]
  BY <1>q DEF QuiesceLock, TypeOK, CpuType
<1>f. tc_open_lock[q.cpu] = Free
  BY DEF QuiesceLock
<1>k. Quiesce \notin Txs /\ Free \notin Txs /\ \A y \in Txs : th[y].cpu \in Cpus
  BY TxgAssumption DEF Quiesce, Free, TypeOK, TxType
<1>a. \A d \in Cpus : d <= q.cpu => tc_open_lock'[d] = Quiesce
  BY <1>l, <1>q DEF CoreInv, LockInv, QuiesceHas, Cpus
<1>b. \A y \in Txs : Entering(y) =>
        tc_open_lock'[th[y].cpu] = y /\ th[y].txg = tx_open_txg /\ th[y].cpu > q.cpu
  <2> SUFFICES ASSUME NEW y \in Txs, Entering(y)
               PROVE  tc_open_lock'[th[y].cpu] = y /\ th[y].txg = tx_open_txg
                      /\ th[y].cpu > q.cpu
    OBVIOUS
  <2>1. tc_open_lock[th[y].cpu] = y /\ th[y].txg = tx_open_txg
    BY DEF CoreInv, LockInv
  <2>2. th[y].cpu # q.cpu /\ tc_open_lock'[th[y].cpu] = y
    BY <2>1, <1>f, <1>k, <1>l
  <2>3. ~ th[y].cpu <= q.cpu
    BY <2>2, <1>a, <1>k
  <2> QED BY <2>1, <2>2, <2>3, <1>k, <1>q DEF Cpus
<1>1. CASE q.cpu = NCpus - 1 /\ q' = At("unlock", 0) /\ tx_open_txg' = tx_open_txg + 1
  <2>1. PipelineInv'
    BY <1>1, <1>u, <1>n, <1>q DEF CoreInv, PipelineInv, Closing, At
  <2>2. LockInv'
    <3>1. \A y \in Txs : ~ Entering(y)'
      BY <1>1, <1>b, <1>k, <1>n, <1>u DEF Entering, Cpus
    <3>2. \A d \in Cpus : tc_open_lock'[d] = Quiesce
      BY <1>1, <1>a, <1>n DEF Cpus
    <3> QED BY <3>1, <3>2 DEF LockInv
  <2>3. HoldInv'
    BY <1>1, <1>u, <1>n, HoldFrame DEF CoreInv, HolderOK, At
  <2>4. DataInv'
    BY <1>1, <1>u, <1>n, DataFrame DEF CoreInv
  <2> QED BY <2>1, <2>2, <2>3, <2>4, <1>u, CountFrame DEF CoreInv
<1>2. CASE q' = At("lock", q.cpu + 1) /\ tx_open_txg' = tx_open_txg
  <2>1. PipelineInv'
    BY <1>2, <1>u, <1>n, <1>q DEF CoreInv, PipelineInv, Closing, At
  <2>2. LockInv'
    <3>1. \A d \in Cpus : QuiesceHas(d)' => tc_open_lock'[d] = Quiesce
      BY <1>2, <1>a, <1>q DEF QuiesceHas, Cpus, At
    <3> QED BY <3>1, <1>b, <1>2, <1>u DEF LockInv, Entering
  <2>3. HoldInv'
    BY <1>2, <1>u, <1>n, HoldFrame DEF CoreInv, HolderOK, At
  <2>4. DataInv'
    BY <1>2, <1>u, <1>n, DataFrame DEF CoreInv
  <2> QED BY <2>1, <2>2, <2>3, <2>4, <1>u, CountFrame DEF CoreInv
<1> QED BY <1>1, <1>2, <1>q

\* Giving the open locks back keeps the invariant.
LEMMA QuiesceUnlockInv ==
  ASSUME TypeOK, CoreInv, QuiesceUnlock
  PROVE  CoreInv'
<1>u. UNCHANGED <<tx_open_txg, tx_quiesced_txg, tx_syncing_txg, tx_synced_txg, tx_threads,
                  tc_count, tc_callbacks, th, dirty, writing, spc>>
  BY DEF QuiesceUnlock, stateVars, exitVars, dataVars
<1>n. UNCHANGED NextToSync /\ StateType /\ NCpus \in Nat \ {0}
  BY <1>u, TxgAssumption DEF NextToSync, TypeOK
<1>q. /\ q.st = "unlock" /\ q.cpu \in Cpus
      /\ q' = At("drain", 0) \/ q' = At("unlock", q.cpu + 1)
  BY DEF QuiesceUnlock, TypeOK, ThreadType, Cpus
<1>l. \A d \in Cpus : d # q.cpu => tc_open_lock'[d] = tc_open_lock[d]
  BY <1>q DEF QuiesceUnlock, TypeOK, CpuType
<1>k. Quiesce \notin Txs /\ \A y \in Txs : th[y].cpu \in Cpus
  BY TxgAssumption DEF Quiesce, TypeOK, TxType
<1>1. PipelineInv'
  BY <1>u, <1>n, <1>q DEF CoreInv, PipelineInv, Closing, At
<1>2. LockInv'
  <2>1. tc_open_lock[q.cpu] = Quiesce
    BY <1>q DEF CoreInv, LockInv, QuiesceHas, Cpus
  <2>2. \A y \in Txs : Entering(y) =>
          tc_open_lock'[th[y].cpu] = y /\ th[y].txg = tx_open_txg
    BY <2>1, <1>k, <1>l DEF CoreInv, LockInv
  <2>3. \A d \in Cpus : QuiesceHas(d)' => d > q.cpu /\ QuiesceHas(d)
    BY <1>q DEF QuiesceHas, Cpus, At
  <2>4. \A d \in Cpus : QuiesceHas(d)' => tc_open_lock'[d] = Quiesce
    BY <2>3, <1>l, <1>q DEF CoreInv, LockInv, Cpus
  <2> QED BY <2>2, <2>4, <1>u DEF LockInv, Entering
<1>3. HoldInv'
  <2>1. \A y \in Txs : ~ th[y].cpu < 0
    BY <1>k DEF Cpus
  <2> QED BY <2>1, <1>u, <1>n, <1>q, HoldFrame DEF CoreInv, HolderOK, At
<1>4. DataInv'
  BY <1>u, <1>n, DataFrame DEF CoreInv
<1> QED BY <1>1, <1>2, <1>3, <1>4, <1>u, CountFrame DEF CoreInv

\* A CPU is passed only when nobody there holds the closing txg.
LEMMA QuiesceDrainInv ==
  ASSUME TypeOK, CoreInv, QuiesceDrain
  PROVE  CoreInv'
<1>u. UNCHANGED <<tx_open_txg, tx_quiesced_txg, tx_syncing_txg, tx_synced_txg, tx_threads,
                  tc_open_lock, tc_count, tc_callbacks, th, dirty, writing, spc>>
  BY DEF QuiesceDrain, stateVars, exitVars, cpuVars, dataVars
<1>n. UNCHANGED NextToSync /\ StateType /\ PipelineInv
  BY <1>u DEF NextToSync, TypeOK, CoreInv
<1>q. q.st = "drain" /\ q.cpu \in Cpus /\ q.txg \in Nat
  BY DEF QuiesceDrain, TypeOK, ThreadType, Cpus
<1>1. CASE UNCHANGED q
  BY <1>1, <1>u, <1>n, Frame DEF coreVars, cpuVars, dataVars
<1>2. CASE ~ UNCHANGED q
  <2>z. tc_count[q.cpu][Slot(q.txg)] = 0
    BY <1>2 DEF QuiesceDrain
  <2>q. \/ q.cpu = NCpus - 1 /\ q' = At("handoff", q.cpu)
        \/ q' = At("drain", q.cpu + 1)
    BY <1>2 DEF QuiesceDrain
  <2>1. PipelineInv'
    BY <2>q, <1>u, <1>n, <1>q DEF PipelineInv, Closing, At
  <2>2. LockInv'
    BY <2>q, <1>u, LockFrame DEF CoreInv, QuiesceHas, At
  <2>3. ASSUME NEW y \in Txs, Holding(y), th[y].cpu = q.cpu PROVE th[y].txg # q.txg
    <3>1. SUFFICES ASSUME th[y].txg = q.txg PROVE FALSE
      OBVIOUS
    <3>2. q.txg # tx_open_txg
      BY <1>q, <1>n, OpenIsLast DEF Closing
    <3>3. ~ Entering(y)
      BY <3>1, <3>2 DEF CoreInv, LockInv
    <3>4. Counted(y)
      BY <2>3, <3>3 DEF Holding, Entering, Counted, TypeOK, TxType, TxStates
    <3>5. tc_count[th[y].cpu][Slot(th[y].txg)] # 0
      BY <3>4, HoldFound DEF CoreInv, TypeOK
    <3> QED BY <3>5, <2>3, <2>z, <3>1
  <2>4. ASSUME NEW y \in Txs, Holding(y), HolderOK(y) PROVE HolderOK(y)'
    <3>1. th[y].cpu \in Cpus
      BY DEF TypeOK, TxType
    <3>2. th[y].cpu < q.cpu + 1 => th[y].txg # q.txg
      BY <2>3, <2>4, <3>1, <1>q DEF HolderOK, Cpus
    <3>3. th[y].cpu < NCpus
      BY <3>1, TxgAssumption DEF Cpus
    <3>4. q.cpu = NCpus - 1 => th[y].cpu < q.cpu + 1
      BY <3>1, TxgAssumption DEF Cpus
    <3> QED BY <2>4, <3>2, <3>4, <2>q, <1>u, <1>n DEF HolderOK, At
  <2>5. HoldInv'
    BY <2>4, <1>u, HoldFrame DEF CoreInv
  <2>6. DataInv'
    BY <1>u, <1>n, DataFrame DEF CoreInv
  <2> QED BY <2>1, <2>2, <2>5, <2>6, <1>u, CountFrame DEF CoreInv
<1> QED BY <1>1, <1>2

\* The txg handed to the sync thread has no holder.
LEMMA QuiesceHandoffInv ==
  ASSUME TypeOK, CoreInv, QuiesceHandoff
  PROVE  CoreInv'
<1>u. UNCHANGED <<tx_open_txg, tx_syncing_txg, tx_synced_txg, tx_threads,
                  tc_open_lock, tc_count, tc_callbacks, th, dirty, writing, spc>>
  BY DEF QuiesceHandoff, exitVars, cpuVars, dataVars
<1>n. /\ UNCHANGED NextToSync /\ StateType /\ PipelineInv
      /\ NextToSync \in Nat \ {0} /\ tx_open_txg \in Nat
  BY <1>u, Window DEF NextToSync, TypeOK, CoreInv
<1>q. q.st = "handoff" /\ Closing /\ q'.st = "idle" /\ tx_quiesced_txg' = q.txg
  BY DEF QuiesceHandoff, Closing
<1>c. q.txg = tx_open_txg - 1
  BY <1>q, <1>n DEF PipelineInv
<1>1. PipelineInv'
  BY <1>q, <1>c, <1>u, <1>n DEF PipelineInv, Closing
<1>2. LockInv'
  BY <1>q, <1>u, LockFrame DEF CoreInv, QuiesceHas
<1>3. ASSUME NEW y \in Txs, Holding(y), HolderOK(y) PROVE HolderOK(y)'
  <2>1. th[y].txg > q.txg
    <3>1. /\ th[y].txg \in NextToSync .. tx_open_txg /\ th[y].txg # q.txg
          /\ th[y].txg > tx_syncing_txg
      BY <1>3, <1>q DEF HolderOK
    <3>2. CASE spc \in {"sync", "finish"}
      <4>1. tx_syncing_txg = NextToSync /\ tx_open_txg = NextToSync + 1 + 1
        BY <3>2, <1>q, <1>n DEF PipelineInv
      <4> QED BY <3>1, <4>1, <1>c, <1>n
    <3>3. CASE spc \notin {"sync", "finish"}
      <4>1. tx_open_txg = NextToSync + 0 + 1
        BY <3>3, <1>q, <1>n DEF PipelineInv
      <4> QED BY <3>1, <4>1, <1>c, <1>n
    <3> QED BY <3>2, <3>3
  <2> QED BY <2>1, <1>3, <1>q, <1>u, <1>n DEF HolderOK
<1>4. HoldInv'
  BY <1>3, <1>u, HoldFrame DEF CoreInv
<1>5. DataInv'
  BY <1>u, <1>n, DataFrame DEF CoreInv
<1> QED BY <1>1, <1>2, <1>4, <1>5, <1>u, CountFrame DEF CoreInv

\* Every step of the quiesce thread keeps the invariant.
LEMMA QuiesceInv ==
  ASSUME TypeOK, CoreInv, QuiesceStep
  PROVE  TypeOK' /\ CoreInv'
<1>1. TypeOK'
  BY QuiesceType DEF CoreInv
<1>2. CoreInv'
  BY QuiesceLoopInv, QuiesceLockInv, QuiesceUnlockInv, QuiesceDrainInv, QuiesceHandoffInv
  DEF QuiesceStep
<1> QED BY <1>1, <1>2

-----------------------------------------------------------------------------
(* The sync thread.                                                        *)

\* After its first wait loop the sync thread exits, asks for a txg, or takes
\* the quiesced one.
LEMMA ConsumeInv ==
  ASSUME TypeOK, CoreInv, SyncConsume, spc \in {"more", "done"},
         UNCHANGED <<cpuVars, dataVars, q, call>>
  PROVE  CoreInv'
<1>u. UNCHANGED <<tx_open_txg, tx_synced_txg, tc_open_lock, tc_count, tc_callbacks, th,
                  dirty, writing, q>>
  BY DEF SyncConsume, stateVars, cpuVars, dataVars
<1>n. /\ UNCHANGED NextToSync /\ StateType /\ PipelineInv /\ tx_threads \in Nat
      /\ NextToSync \in Nat \ {0} /\ tx_open_txg \in Nat
  BY <1>u, Window DEF NextToSync, TypeOK, CoreInv, ThreadType
<1>s. \/ spc' = "exited" /\ tx_threads' = tx_threads - 1
         /\ UNCHANGED <<tx_quiesced_txg, tx_syncing_txg>>
      \/ spc' = "done" /\ UNCHANGED <<tx_threads, tx_quiesced_txg, tx_syncing_txg>>
      \/ spc' = "sync" /\ tx_quiesced_txg # 0 /\ tx_syncing_txg' = tx_quiesced_txg
         /\ tx_quiesced_txg' = 0 /\ UNCHANGED tx_threads
  BY DEF SyncConsume, stateVars, exitVars
<1>1. PipelineInv'
  BY <1>s, <1>u, <1>n DEF PipelineInv, Closing
<1>2. LockInv'
  BY <1>u, LockFrame DEF CoreInv, QuiesceHas
<1>3. HoldInv'
  <2>1. ASSUME NEW y \in Txs, Holding(y), HolderOK(y) PROVE HolderOK(y)'
    <3>1. th[y].txg \in NextToSync .. tx_open_txg
      BY <2>1 DEF HolderOK
    <3>2. th[y].txg > tx_quiesced_txg' /\ th[y].txg > tx_syncing_txg'
      BY <2>1, <3>1, <1>s, <1>n DEF HolderOK
    <3> QED BY <2>1, <3>2, <1>u, <1>n DEF HolderOK
  <2> QED BY <2>1, <1>u, HoldFrame DEF CoreInv
<1>4. DataInv'
  BY <1>s, <1>u, <1>n, DataFrame DEF CoreInv
<1> QED BY <1>1, <1>2, <1>3, <1>4, <1>u, CountFrame DEF CoreInv

\* spa_sync writes all of the txg, so reporting it synced leaves none of it
\* behind.
LEMMA SyncFinishInv ==
  ASSUME TypeOK, CoreInv, SyncFinish
  PROVE  CoreInv'
<1> DEFINE g == Slot(tx_syncing_txg)
<1>u. UNCHANGED <<tx_open_txg, tx_quiesced_txg, tx_threads, tc_open_lock, tc_count, th, q>>
  BY DEF SyncFinish, exitVars
<1>n. /\ StateType /\ PipelineInv
      /\ NextToSync \in Nat \ {0} /\ tx_open_txg \in Nat
  BY Window DEF TypeOK, CoreInv
<1>p. /\ spc = "finish" /\ spc' = "more"
      /\ tx_synced_txg' = tx_syncing_txg /\ tx_syncing_txg' = 0
  BY DEF SyncFinish
<1>s. tx_syncing_txg = NextToSync /\ NextToSync < tx_open_txg
  BY <1>p, <1>n DEF PipelineInv
<1>g. g \in Slots
  BY <1>n, <1>s, SlotRange
<1>m. NextToSync' = NextToSync + 1
  BY <1>p, <1>n, <1>s DEF NextToSync
<1>a. ASSUME NEW t \in NextToSync .. tx_open_txg, Slot(t) # g
      PROVE  t \in NextToSync' .. tx_open_txg
  <2>1. t # NextToSync
    BY <1>a, <1>s
  <2> QED BY <2>1, <1>n, <1>m
<1>1. PipelineInv'
  BY <1>u, <1>n, <1>p, <1>s, <1>m DEF PipelineInv, Closing
<1>2. LockInv'
  BY <1>u, LockFrame DEF CoreInv, QuiesceHas
<1>3. HoldInv'
  <2>1. ASSUME NEW y \in Txs, Holding(y), HolderOK(y) PROVE HolderOK(y)'
    <3>1. th[y].txg \in NextToSync .. tx_open_txg /\ th[y].txg > NextToSync
      BY <2>1, <1>s DEF HolderOK
    <3>2. th[y].txg \in NextToSync' .. tx_open_txg /\ th[y].txg > 0
      BY <3>1, <1>n, <1>m
    <3> QED BY <2>1, <3>2, <1>u, <1>p DEF HolderOK
  <2> QED BY <2>1, <1>u, HoldFrame DEF CoreInv
<1>4. DataInv'
  <2>d. \A h \in Slots : dirty'[h] = IF h = g THEN dirty[h] \ writing ELSE dirty[h]
    BY DEF SyncFinish, TypeOK, DataType
  <2>w. writing = dirty[g]
    BY <1>p DEF CoreInv, DataInv
  <2>c. \A c \in Cpus, h \in Slots :
          tc_callbacks'[c][h] = IF h = g THEN {} ELSE tc_callbacks[c][h]
    BY DEF SyncFinish, txg_dispatch_callbacks, TypeOK, CpuType
  <2> HIDE DEF g
  <2>1. ASSUME NEW h \in Slots, NEW e \in dirty'[h]
        PROVE  e[2] \in NextToSync' .. tx_open_txg /\ Slot(e[2]) = h
    <3>1. h # g /\ e \in dirty[h]
      BY ZenonT(40), <2>1, <2>d, <2>w
    <3>2. e[2] \in NextToSync .. tx_open_txg /\ Slot(e[2]) = h
      BY <3>1 DEF CoreInv, DataInv
    <3> QED BY <3>1, <3>2, <1>a
  <2>2. ASSUME NEW c \in Cpus, NEW h \in Slots, NEW e \in tc_callbacks'[c][h]
        PROVE  e[2] \in NextToSync' .. tx_open_txg /\ Slot(e[2]) = h
    <3>1. h # g /\ e \in tc_callbacks[c][h]
      BY <2>2, <2>c
    <3>2. e[2] \in NextToSync .. tx_open_txg /\ Slot(e[2]) = h
      BY <3>1 DEF CoreInv, DataInv
    <3> QED BY <3>1, <3>2, <1>a
  <2> QED BY <2>1, <2>2, <1>u, <1>p DEF DataInv
<1> QED BY <1>1, <1>2, <1>3, <1>4, <1>u, CountFrame DEF CoreInv

\* Picking up the txg's changes keeps the invariant.
LEMMA SyncWriteInv ==
  ASSUME TypeOK, CoreInv, SyncWrite
  PROVE  CoreInv'
<1>u. UNCHANGED <<tx_open_txg, tx_quiesced_txg, tx_syncing_txg, tx_synced_txg, tx_threads,
                  tc_open_lock, tc_count, tc_callbacks, th, dirty, q>>
  BY DEF SyncWrite, stateVars, exitVars, cpuVars
<1>n. UNCHANGED NextToSync
  BY <1>u DEF NextToSync
<1>p. spc = "sync" /\ spc' = "finish" /\ writing' = dirty[Slot(tx_syncing_txg)]
  BY DEF SyncWrite
<1>1. PipelineInv'
  BY <1>u, <1>n, <1>p DEF CoreInv, PipelineInv, Closing
<1>2. LockInv'
  BY <1>u, LockFrame DEF CoreInv, QuiesceHas
<1>3. HoldInv'
  BY <1>u, <1>n, StillOK, HoldFrame DEF CoreInv
<1>4. DataInv'
  BY <1>u, <1>n, <1>p DEF CoreInv, DataInv
<1> QED BY <1>1, <1>2, <1>3, <1>4, <1>u, CountFrame DEF CoreInv

\* Every step of the sync thread keeps the invariant.
LEMMA SyncInv ==
  ASSUME TypeOK, CoreInv, SyncStep
  PROVE  TypeOK' /\ CoreInv'
<1>1. TypeOK'
  BY SyncType DEF CoreInv
<1>2. ASSUME SyncSleep PROVE CoreInv'
  BY <1>2, Frame DEF SyncSleep, coreVars, stateVars, exitVars, TypeOK
<1>3. ASSUME SyncMore \/ SyncTimer \/ SyncQuiesced PROVE CoreInv'
  BY <1>3, ConsumeInv DEF SyncMore, SyncTimer, SyncQuiesced
<1> QED BY <1>1, <1>2, <1>3, SyncWriteInv, SyncFinishInv DEF SyncStep

-----------------------------------------------------------------------------
(* Shutdown.                                                               *)

\* StopInv survives a step that files nothing, moves no transaction and takes
\* neither the stopper nor tx_synced_txg back.
LEMMA StopFrame ==
  ASSUME TypeOK, TypeOK', StopInv,
         call'[Stopper] = call[Stopper],
         th' = th,
         tx_synced_txg <= tx_synced_txg',
         \A g \in Slots : dirty'[g] \subseteq dirty[g],
         \A c \in Cpus, g \in Slots : tc_callbacks'[c][g] \subseteq tc_callbacks[c][g],
         tx_threads = 0 => tx_threads' = 0
  PROVE  StopInv'
<1>1. call[Stopper].txg \in Nat /\ tx_synced_txg \in Nat /\ tx_synced_txg' \in Nat
  BY DEF TypeOK, StateType, ThreadType, Callers
<1>2. ASSUME call[Stopper].op \in {"exit", "stopped"}
      PROVE  call[Stopper].txg <= tx_synced_txg'
  BY <1>1, <1>2 DEF StopInv
<1> QED BY <1>2, ZenonT(40) DEF StopInv

\* No transaction runs once txg_sync_stop was called.
LEMMA TxStop ==
  ASSUME StopInv, NEW x \in Txs, TxStep(x)
  PROVE  StopInv'
<1>1. call' = call
  BY ZenonT(40) DEF TxStep, txg_hold_open, HoldCount, txg_rele_to_quiesce, DirtyChange,
     txg_register_callbacks, txg_rele_to_sync, threadVars
<1>2. th[x].st # "idle" \/ call[Stopper].op = "none"
  BY DEF TxStep, txg_hold_open, HoldCount, txg_rele_to_quiesce, DirtyChange,
     txg_register_callbacks, txg_rele_to_sync
<1>3. call[Stopper].op = "none"
  BY <1>2 DEF StopInv
<1> QED BY <1>1, <1>3 DEF StopInv

\* The two threads bring the target nearer and exit once.
LEMMA ThreadsStop ==
  ASSUME TypeOK, TypeOK', PipelineInv, StopInv, QuiesceStep \/ SyncStep
  PROVE  StopInv'
<1>1. CASE QuiesceStep
  <2>1. UNCHANGED <<call, th, tx_synced_txg, dirty, tc_callbacks>>
    BY <1>1 DEF QuiesceStep, QuiesceSleep, QuiesceStart, QuiesceLock, QuiesceUnlock,
       QuiesceDrain, QuiesceHandoff, QuiesceExit, stateVars, cpuVars, dataVars
  <2>2. q.st = "exited" => tx_threads' = tx_threads
    BY <1>1 DEF QuiesceStep, QuiesceSleep, QuiesceStart, QuiesceLock, QuiesceUnlock,
       QuiesceDrain, QuiesceHandoff, QuiesceExit, exitVars
  <2>3. tx_threads = 0 => q.st = "exited"
    BY DEF PipelineInv
  <2>4. tx_synced_txg <= tx_synced_txg'
    BY <2>1 DEF TypeOK, StateType
  <2> QED BY <2>1, <2>2, <2>3, <2>4, StopFrame
<1>2. CASE SyncStep /\ ~ SyncFinish
  <2>1. UNCHANGED <<call, th, tx_synced_txg, dirty, tc_callbacks>>
    BY ZenonT(40), <1>2 DEF SyncStep, SyncSleep, SyncMore, SyncTimer, SyncQuiesced, SyncWrite, SyncConsume,
       stateVars, cpuVars, dataVars
  <2>2. spc # "exited"
    BY <1>2 DEF SyncStep, SyncSleep, SyncMore, SyncTimer, SyncQuiesced, SyncWrite
  <2>3. tx_threads # 0
    BY <2>2 DEF PipelineInv
  <2>4. tx_synced_txg <= tx_synced_txg'
    BY <2>1 DEF TypeOK, StateType
  <2> QED BY <2>1, <2>3, <2>4, StopFrame
<1>3. CASE SyncFinish
  <2>1. UNCHANGED <<call, th, tx_threads>>
    BY <1>3 DEF SyncFinish, exitVars
  <2>2. tx_synced_txg' = NextToSync
    BY <1>3 DEF SyncFinish, PipelineInv
  <2>3. tx_synced_txg <= tx_synced_txg'
    BY <2>2, TxgAssumption DEF NextToSync, TypeOK, StateType
  <2>4. \A g \in Slots : dirty'[g] \subseteq dirty[g]
    BY <1>3 DEF SyncFinish, TypeOK, DataType
  <2>5. \A c \in Cpus, g \in Slots : tc_callbacks'[c][g] \subseteq tc_callbacks[c][g]
    BY <1>3 DEF SyncFinish, txg_dispatch_callbacks, TypeOK, CpuType
  <2> QED BY <2>1, <2>3, <2>4, <2>5, StopFrame
<1> QED BY <1>1, <1>2, <1>3

\* txg_sync_stop aims past the open txg, waits for its target, then for the
\* threads; the other callers have nothing to do with it.
LEMMA CallersStop ==
  ASSUME TypeOK, TypeOK', DataInv, StopInv, CallerStep
  PROVE  StopInv'
<1>c. UNCHANGED <<th, tx_synced_txg, dirty, tc_callbacks, tx_threads>>
  BY CallerCore DEF coreVars, cpuVars, dataVars
<1>t. /\ tx_open_txg \in Nat /\ tx_synced_txg \in Nat /\ Stopper \in Callers
      /\ call \in [Callers -> [op : CallOps, txg : Nat]]
  BY DEF TypeOK, StateType, ThreadType, Callers
<1>f. ASSUME call'[Stopper] = call[Stopper] PROVE StopInv'
  <2>1. tx_synced_txg <= tx_synced_txg'
    BY <1>c, <1>t
  <2> QED BY <1>c, <1>f, <2>1, StopFrame
<1>1. ASSUME NEW w \in Waiters, WaiterStep(w) PROVE StopInv'
  <2>1. w # Stopper
    BY TxgAssumption DEF Stopper
  <2>2. call'[Stopper] = call[Stopper]
    BY <1>1, <1>t, <2>1 DEF WaiterStep, txg_wait_synced, WaitSyncedWake, WaitSyncedLoop,
       txg_wait_open, WaitOpenWake, WaitOpenLoop, txg_delay, DelayWake
  <2> QED BY <2>2, <1>f
<1>2. ASSUME txg_kick \/ \E t \in Threads : SpuriousWake(t) PROVE StopInv'
  BY <1>2, <1>f DEF txg_kick, SpuriousWake
<1>3. ASSUME txg_sync_stop PROVE StopInv'
  <2>1. /\ call'[Stopper] = [op |-> "stop", txg |-> tx_open_txg + 2]
        /\ \A x \in Txs : th[x].st = "idle"
    BY <1>3, <1>t DEF txg_sync_stop, TXG_DEFER_SIZE, Idle
  <2>2. /\ \A g \in Slots : \A e \in dirty[g] : e[2] <= tx_open_txg + 2
        /\ \A c \in Cpus, g \in Slots : \A e \in tc_callbacks[c][g] : e[2] <= tx_open_txg + 2
    BY <1>t, TxgAssumption DEF DataInv, NextToSync
  <2> QED BY <1>c, <2>1, <2>2 DEF StopInv
<1>4. ASSUME StopWake PROVE StopInv'
  <2>1. call[Stopper].op # "none" /\ call'[Stopper].txg = call[Stopper].txg
    BY <1>4, <1>t DEF StopWake
  <2>2. \/ call'[Stopper].op = "synced"
        \/ call'[Stopper].op = "exit" /\ call[Stopper].txg <= tx_synced_txg
    BY <1>4, <1>t DEF StopWake
  <2> QED BY <1>c, <2>1, <2>2 DEF StopInv
<1>5. ASSUME StopExit PROVE StopInv'
  <2>1. call[Stopper].op = "exit" /\ call'[Stopper].txg = call[Stopper].txg
    BY <1>5, <1>t DEF StopExit
  <2>2. \/ call'[Stopper].op = "exit"
        \/ call'[Stopper].op = "stopped" /\ tx_threads = 0
    BY <1>5, <1>t DEF StopExit
  <2> QED BY <1>c, <2>1, <2>2 DEF StopInv
<1> QED BY <1>1, <1>2, <1>3, <1>4, <1>5 DEF CallerStep, StopStep

\* At first txg_sync_stop has not been called.
LEMMA StopInit == Init => StopInv
BY DEF Init, StopInv, Callers, NoCall

\* Every step keeps StopInv.
LEMMA StopNext ==
  ASSUME TypeOK, TypeOK', PipelineInv, DataInv, StopInv, [Next]_vars
  PROVE  StopInv'
<1>1. ASSUME UNCHANGED vars PROVE StopInv'
  <2>1. UNCHANGED <<call, th, dirty, tc_callbacks, tx_synced_txg, tx_threads>>
    BY <1>1 DEF vars, stateVars, exitVars, cpuVars, dataVars, threadVars
  <2> QED BY <2>1 DEF StopInv
<1> QED BY <1>1, TxStop, ThreadsStop, CallersStop DEF Next, CallerStep, Stopped

\* Nothing filed is later than the target, nothing synced is left, the target is
\* synced: so nothing is filed when txg_sync_stop returns.
LEMMA StopClean ==
  ASSUME TypeOK, PipelineInv, DataInv, StopInv
  PROVE  StoppedIsClean
<1> SUFFICES ASSUME call[Stopper].op = "stopped"
             PROVE  /\ spc = "exited" /\ q.st = "exited" /\ tx_threads = 0
                    /\ \A g \in Slots : dirty[g] = {} /\ \A c \in Cpus : tc_callbacks[c][g] = {}
  BY DEF StoppedIsClean
<1>1. spc = "exited" /\ q.st = "exited" /\ tx_threads = 0
  BY DEF PipelineInv, StopInv
<1>2. /\ NextToSync \in Nat /\ tx_open_txg \in Nat /\ tx_synced_txg \in Nat
      /\ tx_synced_txg < NextToSync
  BY TxgAssumption DEF TypeOK, StateType, NextToSync
<1>3. call[Stopper].txg \in Nat /\ call[Stopper].txg <= tx_synced_txg
  BY DEF TypeOK, ThreadType, Callers, StopInv
<1>4. ASSUME NEW t \in NextToSync .. tx_open_txg, t <= call[Stopper].txg PROVE FALSE
  BY <1>2, <1>3, <1>4
<1>5. ASSUME NEW g \in Slots, NEW e \in dirty[g] PROVE FALSE
  <2>1. e[2] \in NextToSync .. tx_open_txg /\ e[2] <= call[Stopper].txg
    BY <1>5 DEF DataInv, StopInv
  <2> QED BY <2>1, <1>4
<1>6. ASSUME NEW g \in Slots, NEW c \in Cpus, NEW e \in tc_callbacks[c][g] PROVE FALSE
  <2>1. e[2] \in NextToSync .. tx_open_txg /\ e[2] <= call[Stopper].txg
    BY <1>6 DEF DataInv, StopInv
  <2> QED BY <2>1, <1>4
<1> QED BY <1>1, <1>5, <1>6

-----------------------------------------------------------------------------
(* The invariant and the safety properties.                                *)

\* TxgInv is inductive.
LEMMA NextInv ==
  ASSUME TxgInv, [Next]_vars
  PROVE  TxgInv'
<1>i. TypeOK /\ CoreInv
  BY DEF TxgInv, CoreInv
<1>1. ASSUME NEW x \in Txs, TxStep(x) PROVE TypeOK' /\ CoreInv'
  BY <1>1, <1>i, TxInv
<1>2. ASSUME QuiesceStep PROVE TypeOK' /\ CoreInv'
  BY <1>2, <1>i, QuiesceInv
<1>3. ASSUME SyncStep PROVE TypeOK' /\ CoreInv'
  BY <1>3, <1>i, SyncInv
<1>4. ASSUME CallerStep PROVE TypeOK' /\ CoreInv'
  BY <1>4, <1>i, CallerType, CallerCore, Frame DEF TypeOK
<1>5. ASSUME UNCHANGED vars PROVE TypeOK' /\ CoreInv'
  <2>1. UNCHANGED coreVars
    BY <1>5 DEF vars, stateVars, exitVars, cpuVars, dataVars, threadVars, coreVars
  <2>2. TypeOK'
    BY <1>5, <1>i DEF vars, stateVars, exitVars, cpuVars, dataVars, threadVars,
       TypeOK, StateType, CpuType, TxType, DataType, ThreadType
  <2> QED BY <2>1, <2>2, <1>i, Frame DEF TypeOK
<1>6. TypeOK' /\ CoreInv'
  BY <1>1, <1>2, <1>3, <1>4, <1>5 DEF Next, CallerStep, Stopped
<1> QED BY <1>6 DEF TxgInv, CoreInv

\* The pipeline's invariant holds of every reachable state, whatever the
\* number of CPUs, transactions and waiters.
THEOREM Invariance == Spec => []TxgInv
<1>1. Init => TxgInv
  BY InitInv
<1>2. TxgInv /\ [Next]_vars => TxgInv'
  BY NextInv
<1> QED BY <1>1, <1>2, PTL DEF Spec

\* The fields of the pipeline stay in their domains: no count goes below zero.
THEOREM TypeCorrect == Spec => []TypeOK
BY Invariance, PTL DEF TxgInv

\* A txg handed to the sync thread has no holder left.
THEOREM NoHolderSyncs == Spec => []SyncTxgHasNoHolder
<1>1. TxgInv => SyncTxgHasNoHolder
  <2> SUFFICES ASSUME TxgInv, NEW x \in Txs, Holding(x)
               PROVE  /\ th[x].txg > tx_quiesced_txg /\ th[x].txg > tx_syncing_txg
                      /\ th[x].txg > tx_synced_txg
    BY DEF SyncTxgHasNoHolder
  <2>1. HolderOK(x)
    BY DEF TxgInv, HoldInv
  <2>2. /\ NextToSync \in Nat /\ tx_open_txg \in Nat /\ tx_synced_txg \in Nat
        /\ tx_synced_txg < NextToSync
    BY TxgAssumption DEF TxgInv, TypeOK, StateType, NextToSync
  <2> QED BY <2>1, <2>2 DEF HolderOK
<1> QED BY <1>1, Invariance, PTL

\* TXG_SIZE slots are enough: no slot is shared by two txgs.
THEOREM SlotsSuffice == Spec => []SlotsNotShared
<1>1. TxgInv => SlotsNotShared
  <2> SUFFICES ASSUME TxgInv, NEW g \in Slots, NEW t \in InSlot(g), NEW u \in InSlot(g)
               PROVE  t = u
    BY DEF SlotsNotShared
  <2>1. ASSUME NEW v \in InSlot(g) PROVE v \in NextToSync .. tx_open_txg /\ Slot(v) = g
    <3>1. ASSUME NEW x \in Txs, Holding(x), Slot(th[x].txg) = g, v = th[x].txg
          PROVE  v \in NextToSync .. tx_open_txg /\ Slot(v) = g
      BY <3>1 DEF TxgInv, HoldInv, HolderOK
    <3>2. ASSUME NEW e \in dirty[g], v = e[2]
          PROVE  v \in NextToSync .. tx_open_txg /\ Slot(v) = g
      BY <3>2 DEF TxgInv, DataInv
    <3>3. ASSUME NEW c \in Cpus, NEW e \in tc_callbacks[c][g], v = e[2]
          PROVE  v \in NextToSync .. tx_open_txg /\ Slot(v) = g
      BY <3>3 DEF TxgInv, DataInv
    <3>4. \/ \E x \in Txs : Holding(x) /\ Slot(th[x].txg) = g /\ v = th[x].txg
          \/ \E e \in dirty[g] : v = e[2]
          \/ \E c \in Cpus : \E e \in tc_callbacks[c][g] : v = e[2]
      BY <2>1, ZenonT(40) DEF InSlot
    <3> QED BY <3>1, <3>2, <3>3, <3>4, ZenonT(40)
  <2> QED BY <2>1, SlotsDistinct DEF TxgInv, TypeOK
<1> QED BY <1>1, Invariance, PTL

\* The active txgs are at most three, consecutive and unsynced.
THEOREM ActiveAreConsecutive == Spec => []ActiveTxgsConsecutive
<1>1. TxgInv => ActiveTxgsConsecutive
  <2> SUFFICES ASSUME TxgInv PROVE ActiveTxgsConsecutive OBVIOUS
  <2>1. NextToSync \in Nat \ {0} /\ tx_open_txg \in Nat
    BY Window DEF TxgInv, TypeOK
  <2>2. CASE spc \in {"sync", "finish"}
    BY <2>1, <2>2 DEF TxgInv, PipelineInv, ActiveTxgsConsecutive
  <2>3. CASE spc \notin {"sync", "finish"}
    BY <2>1, <2>3 DEF TxgInv, PipelineInv, ActiveTxgsConsecutive
  <2> QED BY <2>2, <2>3
<1> QED BY <1>1, Invariance, PTL

\* Nothing of a synced txg is left in core only.
THEOREM SyncedDurable == Spec => []SyncedIsDurable
<1>1. TxgInv => SyncedIsDurable
  BY TxgAssumption DEF TxgInv, TypeOK, StateType, DataInv, SyncedIsDurable, NextToSync
<1> QED BY <1>1, Invariance, PTL

\* No callback of a synced txg is left undispatched.
THEOREM CallbacksDispatched == Spec => []CallbacksFollowSync
<1>1. TxgInv => CallbacksFollowSync
  BY TxgAssumption DEF TxgInv, TypeOK, StateType, DataInv, CallbacksFollowSync, NextToSync
<1> QED BY <1>1, Invariance, PTL

\* txg_sync_stop leaves nothing behind: no thread, no change that is not on disk,
\* no callback that was not dispatched.
THEOREM StopsClean == Spec => []StoppedIsClean
<1>1. Init => StopInv
  BY StopInit
<1>2. TxgInv /\ TxgInv' /\ StopInv /\ [Next]_vars => StopInv'
  BY StopNext DEF TxgInv
<1>3. TxgInv /\ StopInv => StoppedIsClean
  BY StopClean DEF TxgInv
<1> QED BY <1>1, <1>2, <1>3, Invariance, PTL DEF Spec

-----------------------------------------------------------------------------
\* Which steps move tx_synced_txg, change dirty or take callbacks away.
LEMMA StepKinds ==
  ASSUME TxgInv, [Next]_vars
  PROVE  \/ SyncFinish
         \/ \E x \in Txs : DirtyChange(x)
         \/ /\ UNCHANGED <<tx_synced_txg, dirty>>
            /\ \A c \in Cpus, g \in Slots : tc_callbacks[c][g] \subseteq tc_callbacks'[c][g]
<1> DEFINE Quiet == UNCHANGED <<tx_synced_txg, dirty, tc_callbacks>>
<1> USE DEF stateVars, exitVars, cpuVars, dataVars, threadVars
<1>1. ASSUME NEW x \in Txs, txg_register_callbacks(x)
      PROVE  /\ UNCHANGED <<tx_synced_txg, dirty>>
             /\ \A c \in Cpus, g \in Slots : tc_callbacks[c][g] \subseteq tc_callbacks'[c][g]
  BY <1>1 DEF TxgInv, TypeOK, CpuType, txg_register_callbacks
<1>2. ASSUME NEW x \in Txs, TxStep(x), ~ DirtyChange(x), ~ txg_register_callbacks(x)
      PROVE  Quiet
  BY <1>2 DEF TxStep, txg_hold_open, HoldCount, txg_rele_to_quiesce, txg_rele_to_sync
<1>3. ASSUME QuiesceStep PROVE Quiet
  BY <1>3 DEF QuiesceStep, QuiesceSleep, QuiesceStart, QuiesceLock, QuiesceUnlock,
     QuiesceDrain, QuiesceHandoff, QuiesceExit
<1>c. ASSUME SyncConsume PROVE UNCHANGED tx_synced_txg
  BY <1>c DEF SyncConsume
<1>4. ASSUME SyncStep, ~ SyncFinish PROVE Quiet
  BY <1>4, <1>c DEF SyncStep, SyncSleep, SyncMore, SyncTimer, SyncQuiesced, SyncWrite
<1>5. ASSUME CallerStep PROVE Quiet
  BY <1>5, CallerCore DEF coreVars
<1>6. ASSUME UNCHANGED vars PROVE Quiet
  BY <1>6 DEF vars
<1>7. \/ \E x \in Txs : TxStep(x)
      \/ QuiesceStep \/ SyncStep \/ CallerStep \/ UNCHANGED vars
  BY ZenonT(40) DEF Next, CallerStep, Stopped
<1> QED BY <1>1, <1>2, <1>3, <1>4, <1>5, <1>6, <1>7

\* SyncFinish reports the oldest unsynced txg.
LEMMA FinishesNext ==
  ASSUME TxgInv, SyncFinish
  PROVE  /\ tx_synced_txg' = NextToSync /\ tx_syncing_txg = NextToSync
         /\ NextToSync \in Nat /\ Slot(NextToSync) \in Slots
         /\ NextToSync \in NextToSync .. tx_open_txg
<1>p. spc = "finish" /\ tx_synced_txg' = tx_syncing_txg
  BY DEF SyncFinish
<1>1. tx_synced_txg' = NextToSync /\ tx_syncing_txg = NextToSync
  BY <1>p DEF TxgInv, PipelineInv
<1>2. NextToSync \in Nat
  BY TxgAssumption DEF TxgInv, TypeOK, StateType, NextToSync
<1> QED BY <1>1, <1>2, SlotRange, OpenIsLast DEF TxgInv, TypeOK, StateType

\* DirtyChange leaves tx_synced_txg and the callbacks alone.
LEMMA DirtyOnly ==
  ASSUME NEW x, DirtyChange(x)
  PROVE  UNCHANGED <<tx_synced_txg, tc_callbacks, writing>>
BY DEF DirtyChange, stateVars, cpuVars

\* Txgs are reported synced one by one and in order.
THEOREM SyncsInOrder == Spec => SyncedInOrder
<1>1. TxgInv /\ [Next]_vars =>
        [tx_synced_txg' # tx_synced_txg => tx_synced_txg' = NextToSync]_vars
  BY StepKinds, FinishesNext, DirtyOnly
<1> QED BY <1>1, Invariance, PTL DEF Spec, SyncedInOrder

\* A callback is dispatched when its own txg is reported synced.
THEOREM CallbacksOnTime == Spec => CallbacksNotEarly
<1> DEFINE A == \A c \in Cpus, g \in Slots :
                  \A e \in tc_callbacks[c][g] \ tc_callbacks'[c][g] : e[2] = tx_synced_txg'
<1>1. ASSUME TxgInv, SyncFinish PROVE A
  <2> SUFFICES ASSUME NEW c \in Cpus, NEW g \in Slots,
                      NEW e \in tc_callbacks[c][g], e \notin tc_callbacks'[c][g]
               PROVE  e[2] = tx_synced_txg'
    OBVIOUS
  <2>1. g = Slot(tx_syncing_txg)
    BY <1>1 DEF SyncFinish, txg_dispatch_callbacks, TxgInv, TypeOK, CpuType
  <2>2. e[2] \in NextToSync .. tx_open_txg /\ Slot(e[2]) = g
    BY <1>1 DEF TxgInv, DataInv
  <2> QED BY <1>1, <2>1, <2>2, FinishesNext, SlotsDistinct DEF TxgInv, TypeOK
<1>2. TxgInv /\ [Next]_vars => [A]_vars
  BY <1>1, StepKinds, DirtyOnly
<1> QED BY <1>2, Invariance, PTL DEF Spec, CallbacksNotEarly

-----------------------------------------------------------------------------
\* The changes that are in core only.
Pending == UNION {dirty[g] : g \in Slots}

\* A change made by a transaction is a change of the abstract group commit.
LEMMA ChangeRefines ==
  ASSUME TxgInv, NEW x \in Txs, DirtyChange(x)
  PROVE  GC!GCNext
<1> DEFINE t == th[x].txg
<1>h. t \in NextToSync .. tx_open_txg
  BY DEF TxgInv, HoldInv, HolderOK, Holding, DirtyChange
<1>1. tx_open_txg <= NextToSync + 2 /\ NextToSync \in Nat /\ tx_open_txg \in Nat
  BY Window DEF TxgInv, TypeOK
<1>2. t \in NextToSync .. NextToSync + 3 - 1
  BY <1>1, <1>h
<1>3. Slot(t) \in Slots /\ dirty \in [Slots -> SUBSET Changes]
  BY <1>1, <1>h, SlotRange DEF TxgInv, TypeOK, DataType
<1>4. \A h \in Slots : dirty'[h] = IF h = Slot(t) THEN dirty[h] \cup {<<x, t>>} ELSE dirty[h]
  BY <1>3 DEF DirtyChange
<1>5. Pending' = Pending \cup {<<x, t>>}
  <2>1. ASSUME NEW h \in Slots, NEW e \in dirty'[h] PROVE e \in Pending \cup {<<x, t>>}
    BY <1>4, <2>1, ZenonT(40) DEF Pending
  <2>2. <<x, t>> \in dirty'[Slot(t)]
    BY <1>3, <1>4
  <2>3. \A h \in Slots : dirty[h] \subseteq dirty'[h]
    BY <1>4
  <2>4. Pending' \subseteq Pending \cup {<<x, t>>}
    BY <2>1, ZenonT(40) DEF Pending
  <2>5. Pending \subseteq Pending'
    BY <2>3, ZenonT(40) DEF Pending
  <2>6. <<x, t>> \in Pending'
    BY <1>3, <2>2, ZenonT(40) DEF Pending
  <2> QED BY <2>4, <2>5, <2>6, ZenonT(40)
<1>6. tx_synced_txg' = tx_synced_txg
  BY DirtyOnly
<1> QED BY <1>2, <1>5, <1>6 DEF Pending, GC!GCNext, GC!Change, GC!NextGroup,
          GC!TXG_CONCURRENT_STATES, NextToSync

\* Reporting a txg synced commits exactly its changes.
LEMMA FinishRefines ==
  ASSUME TxgInv, SyncFinish
  PROVE  GC!GCNext
<1> DEFINE g == Slot(NextToSync)
<1>1. /\ tx_synced_txg' = NextToSync /\ tx_syncing_txg = NextToSync /\ g \in Slots
      /\ NextToSync \in NextToSync .. tx_open_txg
  BY FinishesNext
<1>2. dirty \in [Slots -> SUBSET Changes] /\ writing = dirty[g]
  BY <1>1 DEF TxgInv, TypeOK, DataType, DataInv, SyncFinish
<1>3. \A h \in Slots : dirty'[h] = IF h = g THEN {} ELSE dirty[h]
  BY <1>1, <1>2 DEF SyncFinish
<1>4. \A h \in Slots : \A e \in dirty[h] : e[2] = NextToSync <=> h = g
  BY <1>1, SlotsDistinct DEF TxgInv, TypeOK, DataInv
<1>5. Pending' = {e \in Pending : e[2] # NextToSync}
  BY <1>3, <1>4 DEF Pending
<1> QED BY <1>1, <1>5 DEF Pending, GC!GCNext, GC!Commit, GC!NextGroup, NextToSync

\* The pipeline implements the group commit: each txg becomes durable as a
\* whole, after its predecessors, and no change joins a durable txg.
THEOREM Refinement == Spec => CommitsInGroups
<1>1. Init => GC!GCInit
  BY DEF Init, GC!GCInit
<1>2. TxgInv /\ [Next]_vars => [GC!GCNext]_(GC!gcVars)
  <2> SUFFICES ASSUME TxgInv, [Next]_vars PROVE [GC!GCNext]_(GC!gcVars) OBVIOUS
  <2>1. CASE SyncFinish
    BY <2>1, FinishRefines
  <2>2. ASSUME NEW x \in Txs, DirtyChange(x) PROVE GC!GCNext
    BY <2>2, ChangeRefines
  <2>3. CASE UNCHANGED <<tx_synced_txg, dirty>>
    BY <2>3 DEF GC!gcVars
  <2> QED BY <2>1, <2>2, <2>3, StepKinds
<1> QED BY <1>1, <1>2, Invariance, PTL DEF Spec, CommitsInGroups, GC!GCSpec
=============================================================================
