---------------------------- MODULE AtomicCommit ----------------------------
(***************************************************************************)
(* What committing a transaction group promises across power failures: the *)
(* pool has one committed state.  A new state is prepared and, once it is  *)
(* committed, reported.  A power failure leaves the last reported state or *)
(* the whole of the one that was being prepared.                           *)
(***************************************************************************)
CONSTANTS Roots,      \* the states of the pool
          NoRoot,     \* no state: nothing is prepared
          FirstRoot   \* the state of the pool at first

VARIABLES reported,   \* the last state reported as synced
          prepared    \* the state that is being written

commitVars == <<reported, prepared>>

Init == reported = FirstRoot /\ prepared = NoRoot

Prepare ==
  /\ prepared = NoRoot
  /\ prepared' \in Roots
  /\ UNCHANGED reported

Report ==
  /\ prepared # NoRoot
  /\ reported' = prepared
  /\ prepared' = NoRoot

PowerFailure ==
  /\ reported' \in {reported, prepared} \ {NoRoot}
  /\ prepared' = NoRoot

Next == Prepare \/ Report \/ PowerFailure

Spec == Init /\ [][Next]_commitVars
=============================================================================
