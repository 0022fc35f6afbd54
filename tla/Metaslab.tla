------------------------------ MODULE Metaslab ------------------------------
(***************************************************************************)
(* The allocator of one metaslab (metaslab.c, space_map.c) through the     *)
(* txgs: blocks are allocated in the open, the quiescing and the syncing   *)
(* txg, freed in the syncing one, held back for two txgs, and available    *)
(* again; meanwhile the metaslab is loaded, condensed and unloaded, and    *)
(* the power may fail.  Range trees are sets of blocks of one size, and a  *)
(* space map is the set it leaves allocated.                               *)
(***************************************************************************)
EXTENDS Integers, FiniteSets

CONSTANTS Blocks,       \* the blocks of the metaslab
          LowSpace,     \* the pool may be short of space (defer_allowed is false)
          Aborts,       \* a write in open context may fail and give its block back
          UnloadDelay,  \* metaslab_unload_delay
          MaxTxg,       \* bound: the last txg that opens
          MaxPass,      \* bound: passes of spa_sync
          MaxCrash      \* bound: power failures

ASSUME MetaslabAssumption ==
  /\ LowSpace \in BOOLEAN /\ Aborts \in BOOLEAN
  /\ UnloadDelay \in Nat \ {0} /\ {MaxTxg, MaxPass, MaxCrash} \subseteq Nat

VARIABLES
  ms_tree, ms_alloctree, ms_freeingtree, ms_freedtree, ms_defertree,
  ms_loaded, ms_loading, ms_condensing, ms_selected_txg,
  condense_tree, \* of metaslab_condense
  sm_phys,       \* what the space map, as written so far, leaves allocated
  sm_alloc,      \* the same up to sm_length, the length of the last synced txg
  ms_dirty,      \* the slots of vdev_ms_list that have the metaslab
  txg,           \* the txg spa_sync is at, or will be at next
  open,          \* tx_open_txg
  pc, pass,      \* where spa_sync is
  birth,         \* per block in use: the txg it was allocated in; 0 otherwise
  log,           \* blocks of the intent log that a restart would find
  claims,        \* those a restart has yet to claim
  ub,            \* what the last three uberblocks refer to, newest first
  kept,          \* how many of them are from this boot or the one it started from
  crashes

trees == <<ms_tree, ms_alloctree, ms_freeingtree, ms_freedtree, ms_defertree>>
loadVars == <<ms_loaded, ms_loading, ms_selected_txg>>
smVars == <<sm_phys, sm_alloc, ms_condensing, condense_tree>>
syncVars == <<txg, open, pc, pass>>
useVars == <<birth, log, claims, ub, kept, crashes>>
vars == <<trees, loadVars, smVars, ms_dirty, syncVars, useVars>>

TXG_SIZE == 4
TXG_DEFER_SIZE == 2
Slot(t) == t % TXG_SIZE
Slots == 0 .. TXG_SIZE - 1
Defers == 0 .. TXG_DEFER_SIZE - 1
Deferred == UNION {ms_defertree[i] : i \in Defers}

\* In use according to the tree of txg t.
Referenced(t) == {b \in Blocks : birth[b] \in 1 .. t}

Init ==
  /\ ms_tree = {} /\ ms_freeingtree = {} /\ ms_freedtree = {}
  /\ ms_alloctree = [s \in Slots |-> {}] /\ ms_defertree = [i \in Defers |-> {}]
  /\ ms_loaded = FALSE /\ ms_loading = FALSE /\ ms_selected_txg = 0
  /\ ms_condensing = FALSE /\ condense_tree = {}
  /\ sm_phys = {} /\ sm_alloc = {}
  /\ ms_dirty = {}
  /\ txg = 4 /\ open = 4 /\ pc = "idle" /\ pass = 0
  /\ birth = [b \in Blocks |-> 0]
  /\ log = {} /\ claims = {}
  /\ ub = <<{}, {}, {}>> /\ kept = 1 /\ crashes = 0

-----------------------------------------------------------------------------
(* Loading.                                                                *)

\* metaslab_load: the lock is dropped while the space map is read, up to the
\* length it had at the start.
LoadBegin ==
  /\ ~ms_loaded /\ ~ms_loading
  /\ ms_loading' = TRUE
  /\ ms_tree' = Blocks
  /\ UNCHANGED <<ms_alloctree, ms_freeingtree, ms_freedtree, ms_defertree, ms_loaded,
                 ms_selected_txg, smVars, ms_dirty, syncVars, useVars>>

\* Mutant: the entries of the syncing txg are read too.
LoadedCurrent == (ms_tree \ sm_phys) \ Deferred

\* What is free: what the space map does not leave allocated, but for the
\* deferred blocks.
Loaded == (ms_tree \ sm_alloc) \ Deferred

LoadEnd ==
  /\ ms_loading
  /\ ms_loading' = FALSE
  /\ \/ /\ ms_loaded' = TRUE
        /\ ms_tree' = Loaded
        /\ ms_selected_txg' \in {txg, ms_selected_txg}
     \/ /\ ms_tree' = {}                          \* a read error
        /\ UNCHANGED <<ms_loaded, ms_selected_txg>>
  /\ UNCHANGED <<ms_alloctree, ms_freeingtree, ms_freedtree, ms_defertree, smVars,
                 ms_dirty, syncVars, useVars>>

\* metaslab_preload of a metaslab that is loaded already.
Preload ==
  /\ ms_loaded /\ ms_selected_txg # txg
  /\ ms_selected_txg' = txg
  /\ UNCHANGED <<trees, ms_loaded, ms_loading, smVars, ms_dirty, syncVars, useVars>>

-----------------------------------------------------------------------------
(* Allocations and frees.                                                  *)

\* The txgs for which blocks can be allocated: those that are open or quiescing,
\* and the syncing one until its metaslabs are written.
Allocating == {t \in txg .. open : t = txg => pc \in {"idle", "pass"}}

\* metaslab_group_alloc_normal skips a metaslab that condenses.
CanAllocate == ms_loaded /\ claims = {} /\ ~ms_condensing

\* vdev_dirty is called for the first block of a tree.
Dirtied(tree, t) == IF tree = {} THEN {Slot(t)} ELSE {}

\* metaslab_block_alloc, for data or for the intent log.
metaslab_block_alloc(b, t) ==
  /\ CanAllocate
  /\ t \in Allocating /\ b \in ms_tree
  /\ ms_tree' = ms_tree \ {b}
  /\ ms_alloctree' = [ms_alloctree EXCEPT ![Slot(t)] = @ \cup {b}]
  /\ ms_dirty' = ms_dirty \cup Dirtied(ms_alloctree[Slot(t)], t)
  /\ ms_selected_txg' = t
  /\ birth' = [birth EXCEPT ![b] = t]
  /\ log' \in {log, log \cup {b}}
  /\ UNCHANGED <<ms_freeingtree, ms_freedtree, ms_defertree, ms_loaded, ms_loading,
                 smVars, syncVars, claims, ub, kept, crashes>>

\* metaslab_free_dva with now: the write failed, or another copy did not fit.  The
\* writes of a txg end before its metaslabs are written.
FreeNow(b) ==
  /\ birth[b] \in Allocating /\ b \notin log
  /\ b \in ms_alloctree[Slot(birth[b])]
  /\ birth[b] = txg \/ Aborts
  /\ ms_alloctree' = [ms_alloctree EXCEPT ![Slot(birth[b])] = @ \ {b}]
  /\ ms_tree' = ms_tree \cup {b}
  /\ birth' = [birth EXCEPT ![b] = 0]
  /\ UNCHANGED <<ms_freeingtree, ms_freedtree, ms_defertree, loadVars, smVars, ms_dirty,
                 syncVars, log, claims, ub, kept, crashes>>

\* metaslab_free_dva in the syncing txg, of a block in use.
FreeDva(b) ==
  /\ pc = "pass" /\ birth[b] \in 1 .. txg
  /\ ms_freeingtree' = ms_freeingtree \cup {b}
  /\ ms_dirty' = ms_dirty \cup Dirtied(ms_freeingtree, txg)
  /\ birth' = [birth EXCEPT ![b] = 0]
  /\ UNCHANGED <<ms_tree, ms_alloctree, ms_freedtree, ms_defertree, loadVars, smVars,
                 syncVars, log, claims, ub, kept, crashes>>

\* metaslab_claim_dva after a restart, before anything else is allocated.
Claim(b) ==
  /\ b \in claims /\ ms_loaded
  /\ ms_tree' = ms_tree \ {b}
  /\ ms_alloctree' = [ms_alloctree EXCEPT ![Slot(txg)] = @ \cup {b}]
  /\ ms_dirty' = ms_dirty \cup Dirtied(ms_alloctree[Slot(txg)], txg)
  /\ claims' = claims \ {b}
  /\ birth' = [birth EXCEPT ![b] = txg]
  /\ UNCHANGED <<ms_freeingtree, ms_freedtree, ms_defertree, loadVars, smVars, syncVars,
                 log, ub, kept, crashes>>

-----------------------------------------------------------------------------
(* spa_sync, as far as the metaslab is concerned.                          *)

OpenNext ==
  /\ open < txg + 2 /\ open < MaxTxg /\ claims = {}
  /\ open' = open + 1
  /\ UNCHANGED <<trees, loadVars, smVars, ms_dirty, txg, pc, pass, useVars>>

SyncBegin ==
  /\ pc = "idle" /\ txg < open
  /\ pc' = "pass" /\ pass' = 1
  /\ UNCHANGED <<trees, loadVars, smVars, ms_dirty, txg, open, useVars>>

TXG_CLEAN(t) == t - 1

\* vdev_sync takes the metaslab off the list of the txg, if it is there; it goes to
\* the list of the txg before, whose slot is free, for vdev_sync_done.
MetaslabsBegin ==
  /\ pc = "pass"
  /\ \/ /\ Slot(txg) \in ms_dirty
        /\ ms_dirty' = (ms_dirty \ {Slot(txg)}) \cup {Slot(TXG_CLEAN(txg))}
        /\ pc' = "sync"
     \/ /\ Slot(txg) \notin ms_dirty
        /\ pc' = "next"
        /\ UNCHANGED ms_dirty
  /\ UNCHANGED <<trees, loadVars, smVars, txg, open, pass, useVars>>

alloctree == ms_alloctree[Slot(txg)]

\* Mutant: the blocks of later txgs are written as allocated.
CondenseTreeNow == (Blocks \ ms_freeingtree) \ Deferred

\* Everything but what this txg frees, what is deferred, and what later txgs
\* have allocated.
CondenseTree ==
  ((Blocks \ ms_freeingtree) \ Deferred)
    \ UNION {ms_alloctree[Slot(txg + t)] : t \in 1 .. 2}

\* metaslab_condense, up to where it drops the lock to truncate the space map.
CondenseBegin ==
  /\ pc = "sync" /\ ms_loaded /\ pass = 1
  /\ condense_tree' = CondenseTree
  /\ ms_condensing' = TRUE
  /\ pc' = "condense"
  /\ UNCHANGED <<trees, loadVars, sm_phys, sm_alloc, ms_dirty, txg, open, pass, useVars>>

\* The truncated space map gets the condense tree; the lock is dropped again.
CondenseAlloc ==
  /\ pc = "condense"
  /\ sm_phys' = condense_tree
  /\ condense_tree' = {}
  /\ pc' = "condenseFree"
  /\ UNCHANGED <<trees, loadVars, sm_alloc, ms_condensing, ms_dirty, txg, open, pass,
                 useVars>>

\* Then what is free.
CondenseFree ==
  /\ pc = "condenseFree"
  /\ sm_phys' = sm_phys \ ms_tree
  /\ ms_condensing' = FALSE
  /\ pc' = "written"
  /\ UNCHANGED <<trees, loadVars, sm_alloc, condense_tree, ms_dirty, txg, open, pass,
                 useVars>>

\* Without condensing: what this txg has allocated and then what it has freed is
\* appended.  A metaslab without either is skipped.
SpaceMapWrite ==
  /\ pc = "sync"
  /\ sm_phys' = (sm_phys \cup alloctree) \ ms_freeingtree
  /\ pc' = "written"
  /\ UNCHANGED <<trees, loadVars, sm_alloc, ms_condensing, condense_tree, ms_dirty, txg,
                 open, pass, useVars>>

\* The trees are swapped in pass 1, when the other is empty, and joined later.
Freed == IF pass = 1 THEN ms_freeingtree ELSE ms_freedtree \cup ms_freeingtree

\* The end of metaslab_sync: the trees of this pass are emptied.
MetaslabSynced ==
  /\ pc = "written"
  /\ ms_freedtree' = Freed
  /\ ms_freeingtree' = IF pass = 1 THEN ms_freedtree ELSE {}
  /\ ms_alloctree' = [ms_alloctree EXCEPT ![Slot(txg)] = {}]
  /\ pc' = "next"
  /\ UNCHANGED <<ms_tree, ms_defertree, loadVars, smVars, ms_dirty, txg, open, pass,
                 useVars>>

\* Another pass, while there is something to write.
PassNext ==
  /\ pc = "next" /\ pass < MaxPass
  /\ pc' = "pass" /\ pass' = pass + 1
  /\ UNCHANGED <<trees, loadVars, smVars, ms_dirty, txg, open, useVars>>

\* vdev_config_sync: the uberblock of this txg is on disk.  What the log freed in
\* it is no longer found by a restart.
Commit ==
  /\ pc = "next"
  /\ pc' = IF Slot(TXG_CLEAN(txg)) \in ms_dirty THEN "done" ELSE "end"
  /\ ub' = <<Referenced(txg), ub[1], ub[2]>>
  /\ kept' = IF kept < 3 THEN kept + 1 ELSE 3
  /\ log' = {b \in log : birth[b] # 0}
  /\ UNCHANGED <<trees, loadVars, smVars, ms_dirty, txg, open, pass, birth, claims,
                 crashes>>

\* Frees are not held back when space is short.
DeferAllowed == IF LowSpace THEN {TRUE, FALSE} ELSE {TRUE}

\* The metaslab stays dirty while it has deferred blocks.
DirtyAgain(defers) == IF \E i \in Defers : defers[i] # {} THEN {Slot(txg + 1)} ELSE {}

UnloadDue == ms_loaded /\ ms_selected_txg + UnloadDelay < txg

\* metaslab_sync_done, once no load is under way: the blocks that were deferred
\* two txgs ago are available, those freed now take their place.
metaslab_sync_done ==
  /\ pc = "done" /\ ~ms_loading
  /\ \E allowed \in DeferAllowed :
       LET i == txg % TXG_DEFER_SIZE
           back == ms_defertree[i] \cup (IF allowed THEN {} ELSE ms_freedtree)
           defers == [ms_defertree EXCEPT ![i] = IF allowed THEN ms_freedtree ELSE {}]
       IN  /\ ms_defertree' = defers
           /\ ms_freedtree' = {}
           /\ ms_tree' = IF ~ms_loaded \/ UnloadDue THEN {} ELSE ms_tree \cup back
           /\ ms_dirty' = (ms_dirty \ {Slot(TXG_CLEAN(txg))}) \cup DirtyAgain(defers)
  /\ ms_loaded' = (ms_loaded /\ ~UnloadDue)
  /\ sm_alloc' = sm_phys
  /\ pc' = "end"
  /\ UNCHANGED <<ms_alloctree, ms_freeingtree, ms_loading, ms_selected_txg, sm_phys,
                 ms_condensing, condense_tree, txg, open, pass, useVars>>

SyncEnd ==
  /\ pc = "end"
  /\ pc' = "idle" /\ pass' = 0 /\ txg' = txg + 1
  /\ UNCHANGED <<trees, loadVars, smVars, ms_dirty, open, useVars>>

\* The last txg whose uberblock is on disk.
LastSynced == IF pc \in {"done", "end"} THEN txg ELSE txg - 1

\* zil_claim_log_block claims what was born after the uberblock.
ToClaim == log \ ub[1]

\* A power failure and the restart from the last uberblock; the space map is the
\* one it refers to, and the log's blocks that it does not refer to are to be
\* claimed.  The deferred blocks are in memory only: what they kept for the
\* uberblocks before the last one is kept no more.
Crash ==
  /\ crashes < MaxCrash
  /\ crashes' = crashes + 1
  /\ ms_tree' = {} /\ ms_freeingtree' = {} /\ ms_freedtree' = {}
  /\ ms_alloctree' = [s \in Slots |-> {}] /\ ms_defertree' = [i \in Defers |-> {}]
  /\ ms_loaded' = FALSE /\ ms_loading' = FALSE /\ ms_selected_txg' = 0
  /\ ms_condensing' = FALSE /\ condense_tree' = {}
  /\ sm_alloc' = IF pc \in {"done", "end"} THEN sm_phys ELSE sm_alloc
  /\ sm_phys' = sm_alloc'
  /\ ms_dirty' = {}
  /\ txg' = LastSynced + 1 /\ open' = LastSynced + 1 /\ pc' = "idle" /\ pass' = 0
  /\ birth' = [b \in Blocks |-> IF b \in ub[1] THEN 1 ELSE 0]
  /\ claims' = ToClaim
  /\ kept' = 1
  /\ UNCHANGED <<log, ub>>

Next ==
  \/ LoadBegin \/ LoadEnd \/ Preload
  \/ \E b \in Blocks :
       \/ \E t \in txg .. open : metaslab_block_alloc(b, t)
       \/ FreeNow(b) \/ FreeDva(b) \/ Claim(b)
  \/ OpenNext \/ SyncBegin \/ MetaslabsBegin
  \/ CondenseBegin \/ CondenseAlloc \/ CondenseFree \/ SpaceMapWrite
  \/ MetaslabSynced \/ PassNext \/ Commit \/ metaslab_sync_done \/ SyncEnd
  \/ Crash

Spec == Init /\ [][Next]_vars

-----------------------------------------------------------------------------
\* All trees are sets of blocks of the metaslab.
TypeOK ==
  /\ ms_tree \subseteq Blocks /\ ms_freeingtree \subseteq Blocks
  /\ ms_freedtree \subseteq Blocks /\ condense_tree \subseteq Blocks
  /\ ms_alloctree \in [Slots -> SUBSET Blocks]
  /\ ms_defertree \in [Defers -> SUBSET Blocks]
  /\ sm_phys \subseteq Blocks /\ sm_alloc \subseteq Blocks
  /\ ms_dirty \subseteq Slots /\ birth \in [Blocks -> Nat]
  /\ txg \in Nat /\ open \in txg .. txg + 2

\* What the i-th last uberblock refers to, if it is one that deferring frees
\* protects.
Kept(i) == IF i <= kept THEN ub[i] ELSE {}

\* A block that can be allocated is not in use, not by the file system of any
\* txg, nor by the last uberblock on disk, nor by the intent log that a restart
\* would read.  While frees are deferred, neither is it in use by the two
\* uberblocks before, back to the one this boot started from: a pool can be
\* opened three txgs back.  What is left of the log to claim can be claimed.
FreeIsUnused ==
  ms_loaded => /\ \A b \in ms_tree : birth[b] = 0 /\ b \notin ub[1]
               /\ ms_tree \cap log \subseteq claims /\ claims \subseteq ms_tree
               /\ ~LowSpace => ms_tree \cap (Kept(2) \cup Kept(3)) = {}

\* Between two txgs the space map is exact: what it leaves allocated is what the
\* uberblock refers to, whether the map was appended to, condensed, or both by
\* turns.  No block is lost and none used twice: when the metaslab is loaded,
\* each block is free, allocated in the space map or in the tree of an active
\* txg, or on its way back, and in no two of them (the accounting that
\* metaslab_verify_space relies on).  With deferred blocks the metaslab is on the
\* list of the next txg, which gives them back even if nothing else happens.
SpaceMapExact ==
  /\ pc \in {"idle", "end"} => sm_alloc = ub[1] /\ sm_phys = ub[1]
  /\ pc = "done" => sm_phys = ub[1]
  /\ pc = "idle" /\ Deferred # {} => Slot(txg) \in ms_dirty
  /\ pc = "idle" /\ ms_loaded =>
       LET opened == UNION {ms_alloctree[s] : s \in Slots}
       IN  /\ Blocks = ms_tree \cup sm_alloc \cup opened \cup Deferred
           /\ ms_tree \cap (sm_alloc \cup opened \cup Deferred) = {}
           /\ sm_alloc \cap (opened \cup Deferred) = {}
           /\ opened \cap Deferred = {} /\ ms_defertree[0] \cap ms_defertree[1] = {}

\* "Set the metaslab's ms_condensing flag to ensure that allocations on this
\* metaslab do not occur while we're in the middle of committing it to disk":
\* while the lock is dropped nothing is taken from the free tree, and nothing but a
\* block that a failed write of a later txg gives back is added to it (which the
\* VERIFY(!msp->ms_condensing) of metaslab_free_dva does not let pass).
CondenseUndisturbed ==
  [][ms_condensing /\ ms_condensing' =>
       \/ ms_tree' = ms_tree
       \/ \E b \in Blocks : birth[b] > txg /\ b \notin ms_tree /\ ms_tree' = ms_tree \cup {b}]_vars
=============================================================================
