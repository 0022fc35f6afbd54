------------------------------ MODULE MCLabels ------------------------------
(***************************************************************************)
(* LabelSync on two disks: a top-level vdev each, or a mirror, whatever    *)
(* their names.                                                            *)
(***************************************************************************)
EXTENDS LabelSync, TLC

CONSTANTS d1, d2, top1, top2

MCDisks == {d1, d2}

\* The ring of uberblocks is used again, I/Os fail, the power fails twice.
MCPlans ==
  {[top |-> t, txgs |-> b[1], errors |-> b[2], uptime |-> b[3], crashes |-> b[4]] :
     t \in [MCDisks -> {top1, top2}],
     b \in {<<4, 0, 0, 1>>, <<3, 2, 0, 1>>, <<2, 0, 1, 2>>}}

Perms == Permutations(MCDisks) \cup Permutations({top1, top2})

\* Unless the power fails before the next good flush of a disk whose flush has failed, a restart finds
\* an uberblock, all the data the best one points to and, after a first power failure and without failed
\* writes, a label that agrees with it.
RestartWhole ==
  ~exposed => /\ UberblockLeft /\ DataBehindUberblock
              /\ errors = 0 /\ boots <= 1 => ConfigAgrees
=============================================================================
