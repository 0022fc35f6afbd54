------------------------------- MODULE MCSpa --------------------------------
(***************************************************************************)
(* What a pool is made of, side by side: a metaslab through the txgs, the  *)
(* list of dirty vdevs, and the dirty time logs of a mirror.  Every        *)
(* behaviour picks one (part).                                             *)
(***************************************************************************)
EXTENDS Metaslab, TLC

CONSTANTS b1, b2, v1, v2, d1, d2, NULL

VARIABLES part,
          tl, l_txg, l_open, l_pc, cursor, flushed, dirtied, written,
          plan, r_txg, r_open, phase, member, up, has, live, early, missing, scrub, rtxg, r_dirty, config, scan,
          async, scrubAt, waits, disk, partly, skipped, events

listVars == <<tl, l_txg, l_open, l_pc, cursor, flushed, dirtied, written>>
mirrorVars == <<plan, r_txg, r_open, phase, member, up, has, live, early, missing, scrub, rtxg, r_dirty, config, scan,
                async, scrubAt, waits, disk, partly, skipped, events>>

L == INSTANCE TxgList WITH
  Vdevs <- {v1, v2}, MaxTxg <- 7, txg <- l_txg, open <- l_open, pc <- l_pc

\* A mirror of two whose disks fail, two that crash, and a disk that becomes a mirror, without and with
\* crashes.
MCPlans ==
  {[first |-> {d1, d2}, maxTxg |-> 5, maxEvents |-> 2,
    events |-> {"outage", "offline", "writeError", "repairError", "scrub", "cancel"}],
   [first |-> {d1, d2}, maxTxg |-> 5, maxEvents |-> 4,
    events |-> {"writeError", "repairError", "crash"}],
   [first |-> {d1, d2}, maxTxg |-> 4, maxEvents |-> 3,
    events |-> {"outage", "writeError", "repairError", "crash"}],
   [first |-> {d1}, maxTxg |-> 6, maxEvents |-> 3,
    events |-> {"attach", "detach", "dmuSync", "writeError", "scrub"}],
   [first |-> {d1}, maxTxg |-> 6, maxEvents |-> 3,
    events |-> {"attach", "repairError", "crash", "scrub"}]}

M == INSTANCE Resilver WITH
  Disks <- {d1, d2}, Plans <- MCPlans, TXG_INITIAL <- 1, DataTxgs <- {2, 3}, txg <- r_txg, open <- r_open,
  dirty <- r_dirty

SpaInit == /\ part \in {"metaslab", "list", "mirror"}
           /\ Init /\ L!Init
           /\ M!Init /\ (part = "mirror" \/ "cancel" \in plan.events)

SpaNext ==
  \/ part = "metaslab" /\ Next /\ UNCHANGED <<part, listVars, mirrorVars>>
  \/ part = "list" /\ L!Next /\ UNCHANGED <<part, vars, mirrorVars>>
  \/ part = "mirror" /\ M!Next /\ UNCHANGED <<part, plan, vars, listVars>>

SpaSpec == SpaInit /\ [][SpaNext]_<<part, vars, listVars, mirrorVars>>

\* The mirror alone.
MirrorSpec == (SpaInit /\ part = "mirror") /\ [][SpaNext]_<<part, vars, listVars, mirrorVars>>

Perms == Permutations(Blocks)

\* The lists of dirty vdevs are well formed and exact, and the unlocked walk of vdev_config_sync
\* flushes the vdevs that were written.
DirtyVdevsFlushed == L!ListsWellFormed /\ L!NothingForgotten /\ L!FlushesWritten

\* A disk of the mirror that every completed scan has served in full lacks only blocks of txgs in its
\* DTL_MISSING.
HonestIfPresent == M!HonestIfPresent

\* Neither offlining nor detaching a disk loses the last readable copy of a block.
AdminKeepsData == M!AdminKeepsData

=============================================================================
