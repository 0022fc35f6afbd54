----------------------------- MODULE RangeLocks -----------------------------
(***************************************************************************)
(* What range locks promise: a set of locked ranges in which two that      *)
(* overlap are both read locks.                                            *)
(***************************************************************************)
EXTENDS Integers

CONSTANT Owners

VARIABLE locked      \* records [owner, off, len, type]

Overlap(a, b) == a.off < b.off + b.len /\ b.off < a.off + a.len
Compatible(a, b) == Overlap(a, b) => a.type = "RL_READER" /\ b.type = "RL_READER"

Init == locked = {}

Lock(r) ==
  /\ r.owner \in Owners /\ r.len > 0
  /\ \A s \in locked : s.owner # r.owner /\ Compatible(r, s)
  /\ locked' = locked \cup {r}

Unlock(r) == locked' = locked \ {r}

\* The write lock r shrinks to s.
Reduce(r, s) ==
  /\ r.type = "RL_WRITER" /\ s = [r EXCEPT !.off = s.off, !.len = s.len]
  /\ r.off <= s.off /\ s.off + s.len <= r.off + r.len
  /\ locked' = (locked \ {r}) \cup {s}

Next ==
  \/ \E r \in locked' \ locked : Lock(r)
  \/ \E r \in locked : Unlock(r)
  \/ \E r \in locked, s \in locked' : Reduce(r, s)

Spec == Init /\ [][Next]_locked
=============================================================================
