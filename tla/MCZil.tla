-------------------------------- MODULE MCZil --------------------------------
(***************************************************************************)
(* The callers of zil_commit and zil_suspend and, side by side with them,  *)
(* what a writer does to the log on disk: every behaviour picks one (part).*)
(***************************************************************************)
EXTENDS ZilCommit, TLC

CONSTANTS t1, t2, s1, s2, w1, c1, d1

VARIABLES
  part,
  state, otxg, times, order, open, synced, stage, dirty, zl_itxg,
  commit_list, zl_lwb_list, zl_lr_seq, zl_destroy_txg, zl_keep_first,
  zl_replayed_seq, zh, guid, wpc, foid, scan, otx, has_lwb, waitfor,
  z_target, commits, inuse, birth, freed, rpc, todo, claim_max, crashes, given_up,
  disk, cache, d_zh, d_synced, d_inuse, d_times, promised

logVars ==
  <<state, otxg, times, order, open, synced, stage, dirty, zl_itxg,
    commit_list, zl_lwb_list, zl_lr_seq, zl_destroy_txg, zl_keep_first,
    zl_replayed_seq, zh, guid, wpc, foid, scan, otx, has_lwb, waitfor,
    z_target, commits, inuse, birth, freed, rpc, todo, claim_max, crashes, given_up,
    disk, cache, d_zh, d_synced, d_inuse, d_times, promised>>
allVars == <<part, vars, logVars>>

\* Operations on one file: it is created and written, with two crashes, or written
\* and removed, with one.  Log blocks may be unavailable, and the data unreadable.
OpKind == (w1 :> "write") @@ (c1 :> "create") @@ (d1 :> "remove")
OpObj == [o \in {w1, c1, d1} |-> 1]

Created == INSTANCE Zil WITH
  Ops <- {c1, w1}, Kind <- OpKind, Obj <- OpObj, Indirect <- {w1}, Blocks <- {1, 2}, Fit <- 1,
  Fresh <- FALSE, FirstTxg <- 3, MaxTxg <- 6, Commits <- 1, Crashes <- 2,
  Faults <- {"alloc", "large", "replay"}, target <- z_target

Removed == INSTANCE Zil WITH
  Ops <- {w1, d1}, Kind <- OpKind, Obj <- OpObj, Indirect <- {}, Blocks <- {1, 2}, Fit <- 1,
  Fresh <- FALSE, FirstTxg <- 3, MaxTxg <- 5, Commits <- 1, Crashes <- 1,
  Faults <- {"alloc", "data"}, target <- z_target

ZilInit ==
  /\ Init
  /\ \/ part \in {"callers", "create"} /\ Created!Init
     \/ part = "remove" /\ Removed!Init
  /\ part # "callers" => ~unplayed

ZilNext ==
  \/ part = "callers" /\ Next /\ UNCHANGED <<part, logVars>>
  \/ part = "create" /\ Created!Next /\ UNCHANGED <<part, vars>>
  \/ part = "remove" /\ Removed!Next /\ UNCHANGED <<part, vars>>

\* Nobody is in a call at first, so the fairness of the callers asks for nothing
\* while the log is exercised.
ZilSpec == ZilInit /\ [][ZilNext]_allVars /\ Fairness

\* What zil_commit has reported as stable is found on disk after a crash at any
\* moment, unless the object was removed or its replay failed, and operations on an
\* object survive in order.  Replay applies none twice, whatever crashes, and the log's blocks are the
\* chain that it visits.
CommittedSurvive ==
  IF part = "remove"
  THEN /\ Removed!CommittedSurvive /\ Removed!SurviveInOrder /\ Removed!AppliedOnce
       /\ Removed!LogBlocksExact /\ Removed!WriterHasBuffer
  ELSE /\ Created!CommittedSurvive /\ Created!SurviveInOrder /\ Created!AppliedOnce
       /\ Created!LogBlocksExact /\ Created!WriterHasBuffer
=============================================================================
