---------------------------- MODULE MCTxgRanges -----------------------------
(***************************************************************************)
(* Two parts that a write meets, of which safety is asked here: the range  *)
(* locks it takes and the transaction groups it ends up in.  Every         *)
(* behaviour picks one (part) and exercises it: the pipeline, the range    *)
(* locks of a volume, or those of a file with appends, growing blocks and  *)
(* truncation.                                                             *)
(***************************************************************************)
EXTENDS MCTxg, TLC

CONSTANTS u1, u2, u3, NoThread

VARIABLES part, tree, lk, rl_call, leaving, calls, z_size, z_blksz, written

rangeVars == <<tree, lk, rl_call, leaving, calls, z_size, z_blksz, written>>

Users == {u1, u2, u3}

Volume == INSTANCE RangeLock WITH
  Threads <- Users, call <- rl_call,
  N <- 3, ZPL <- FALSE, MaxBlk <- 2, InitBlk <- 1, Types <- {"RL_READER", "RL_WRITER"},
  MaxCalls <- 0
File == INSTANCE RangeLock WITH
  Threads <- Users, call <- rl_call,
  N <- 2, ZPL <- TRUE, MaxBlk <- 2, InitBlk <- 1,
  Types <- {"RL_READER", "RL_WRITER", "RL_APPEND"}, MaxCalls <- 1

MCInit == part \in {"txg", "volume", "file"} /\ Init /\ File!Init

\* The end of what is followed of a file, not a deadlock.
AllCallsMade == part = "file" /\ \A u \in Users : calls[u] = 1 /\ rl_call[u] = "none"

MCNext ==
  /\ UNCHANGED part
  /\ \/ part = "txg" /\ Next /\ UNCHANGED rangeVars
     \/ part = "volume" /\ Volume!Next /\ UNCHANGED vars
     \/ part = "file" /\ File!Next /\ UNCHANGED vars
     \/ AllCallsMade /\ UNCHANGED <<vars, rangeVars>>

MCSpec == MCInit /\ [][MCNext]_<<part, vars, rangeVars>>

Perms == Permutations(Users)

\* The tree of nodes is an exact account of the ranges that are locked, and of
\* who must be woken (see RangeLock).
TreeExact == File!TreeInv

\* An append overwrites nothing (see RangeLock).
AppendsAppend == File!AppendOverwritesNothing

\* Ranges that overlap are locked together by readers only (see RangeLock).
RangesExclude == Volume!ImplementsRangeLocks
=============================================================================
