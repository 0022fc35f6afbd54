----------------------------- MODULE LockProofs ------------------------------
(***************************************************************************)
(* Theorems about three of the reader-writer locks, for any number of      *)
(* threads: what they count is what their threads hold, and each           *)
(* implements the abstract reader-writer lock.  Of the re-entrant lock     *)
(* also: a re-entrant reader never waits, and rrw_held tells the truth     *)
(* under track_all; of the zero-reference lock: no wake-up is lost.        *)
(***************************************************************************)
EXTENDS Rrwlock, FiniteSetTheorems, TLAPS

\* Time for the provers, in seconds; the second pair is for a slow machine.
USE ZenonT(3), SMTT(30), ZenonT(40), SMTT(120)

-----------------------------------------------------------------------------
(* The re-entrant reader-writer lock of rrwlock.c.                         *)

Kinds == {"anon", "linked"}

\* The holds on a lock are finitely many.
LEMMA HoldsFinite ==
  ASSUME NEW i, NEW k
  PROVE  IsFiniteSet(HoldsOn(i, k)) /\ Cardinality(HoldsOn(i, k)) \in Nat
  <1>1. IsFiniteSet(Holds)
    BY RrwlockAssumption, ThreadsAssumption, FS_Product DEF Holds
  <1>2. HoldsOn(i, k) \subseteq Holds
    BY DEF HoldsOn
  <1> QED BY <1>1, <1>2, FS_Subset, FS_CardinalityType

\* No hold of a kind on a lock is the same as a count of zero.
LEMMA HoldsNone ==
  ASSUME NEW i, NEW k
  PROVE  Cardinality(HoldsOn(i, k)) = 0 <=> \A h \in Holds : LockOf[h[1]] = i => hold[h] # k
  <1>1. Cardinality(HoldsOn(i, k)) = 0 <=> HoldsOn(i, k) = {}
    BY HoldsFinite, FS_EmptySet
  <1> QED BY <1>1 DEF HoldsOn

\* A new hold adds one to the count of its kind on its lock, and to no other count.
LEMMA HoldAdd ==
  ASSUME NEW h \in Holds, hold \in [Holds -> {"none", "anon", "linked"}],
         hold[h] = "none", hold' = [hold EXCEPT ![h] = hold'[h]], NEW i, NEW k \in Kinds
  PROVE  Cardinality(HoldsOn(i, k)')
           = IF LockOf[h[1]] = i /\ k = hold'[h] THEN Cardinality(HoldsOn(i, k)) + 1
                                                ELSE Cardinality(HoldsOn(i, k))
  <1>1. CASE LockOf[h[1]] = i /\ k = hold'[h]
    <2>1. HoldsOn(i, k)' = HoldsOn(i, k) \cup {h} /\ h \notin HoldsOn(i, k)
      BY <1>1 DEF HoldsOn, Kinds
    <2>2. Cardinality(HoldsOn(i, k)') = Cardinality(HoldsOn(i, k)) + 1
      BY <2>1, HoldsFinite, FS_AddElement
    <2> QED BY <1>1, <2>2
  <1>2. CASE ~(LockOf[h[1]] = i /\ k = hold'[h])
    <2>1. HoldsOn(i, k)' = HoldsOn(i, k)
      BY <1>2 DEF HoldsOn, Kinds
    <2> QED BY <1>2, <2>1
  <1> QED BY <1>1, <1>2

\* A hold that is dropped takes one from the count of its kind on its lock, and from no other.
LEMMA HoldDrop ==
  ASSUME NEW h \in Holds, hold \in [Holds -> {"none", "anon", "linked"}], hold[h] # "none",
         hold' = [hold EXCEPT ![h] = "none"], NEW i, NEW k \in Kinds
  PROVE  /\ LockOf[h[1]] = i /\ hold[h] = k => Cardinality(HoldsOn(i, k)) > 0
         /\ Cardinality(HoldsOn(i, k)')
              = IF LockOf[h[1]] = i /\ hold[h] = k THEN Cardinality(HoldsOn(i, k)) - 1
                                                   ELSE Cardinality(HoldsOn(i, k))
  <1>1. CASE LockOf[h[1]] = i /\ hold[h] = k
    <2>1. HoldsOn(i, k)' = HoldsOn(i, k) \ {h} /\ h \in HoldsOn(i, k)
      BY <1>1 DEF HoldsOn, Kinds
    <2>2. Cardinality(HoldsOn(i, k)') = Cardinality(HoldsOn(i, k)) - 1
      BY ZenonT(40), <2>1, HoldsFinite, FS_RemoveElement
    <2>3. Cardinality(HoldsOn(i, k)) # 0
      BY <1>1, HoldsNone
    <2> QED BY <1>1, <2>2, <2>3, HoldsFinite
  <1>2. CASE ~(LockOf[h[1]] = i /\ hold[h] = k)
    <2>1. HoldsOn(i, k)' = HoldsOn(i, k)
      BY <1>2 DEF HoldsOn, Kinds
    <2> QED BY <1>2, <2>1
  <1> QED BY <1>1, <1>2

\* A thread that would block has no read hold: its own holds keep a writer out, and a hold
\* that is not anonymous has a node that rrn_find finds.
LEMMA BlockedNotReading ==
  ASSUME RrwInv, NEW t \in Threads, NEW prio \in BOOLEAN, ReadBlocked(t, LockOf[t], prio)
  PROVE  ~Reading(t)
  <1> SUFFICES ASSUME NEW h \in Holds, h[1] = t, hold[h] # "none" PROVE FALSE
    BY DEF Reading, HoldsOf
  <1> DEFINE i == LockOf[t]
  <1>0. i \in Locks /\ hold[h] \in Kinds /\ h[2] \in Tags /\ h = <<t, h[2]>>
    BY RrwlockAssumption, ThreadsAssumption DEF Locks, RrwInv, TypeOK, Kinds, Holds
  <1>1. hold[h] = "anon" => rr_anon_rcount[i] # 0
    BY <1>0, HoldsNone DEF RrwInv, CountInv
  <1>2. hold[h] = "linked" => rr_linked_rcount[i] # 0
    BY <1>0, HoldsNone DEF RrwInv, CountInv
  <1>3. rr_writer[i] = NoThread
    BY <1>0, <1>1, <1>2 DEF RrwInv, OwnerInv, Kinds
  <1>4. hold[h] = "linked" => rrn_find(t, i)
    BY <1>0, <1>2 DEF rrn_find
  <1> QED BY <1>0, <1>1, <1>3, <1>4 DEF ReadBlocked, Kinds

\* Entering to read, first try or after a wake-up, keeps RrwInv.
LEMMA ReadLoopKeeps ==
  ASSUME RrwInv, NEW t \in Threads, NEW prio \in BOOLEAN, NEW g \in Tags, ReadLoop(t, prio, g),
         op[t] \in {"none", "read", "prio"}, entered[t] < MaxEnters,
         t \notin asleep
  PROVE  RrwInv'
  <1> DEFINE i == LockOf[t]
  <1> DEFINE h == <<t, g>>
  <1>0. i \in Locks /\ h \in Holds /\ h[1] = t /\ hold[h] = "none"
    BY RrwlockAssumption, ThreadsAssumption DEF Locks, Holds, ReadLoop
  <1>1. CASE ReadBlocked(t, i, prio)
    <2>1. ~Reading(t)
      BY <1>1, BlockedNotReading
    <2>2. /\ op' = [op EXCEPT ![t] = IF prio THEN "prio" ELSE "read"]
          /\ at' = [at EXCEPT ![t] = i] /\ asleep' = asleep \cup {t}
          /\ UNCHANGED <<lockVars, hold, entered>>
      BY <1>1 DEF ReadLoop, lockVars
    <2>3. TypeOK'
      BY <1>0, <2>2 DEF RrwInv, TypeOK, lockVars
    <2>4. CountInv'
      BY ZenonT(40), <2>2 DEF RrwInv, CountInv, HoldsOn, lockVars
    <2>5. OwnerInv'
      BY <2>2 DEF RrwInv, TypeOK, OwnerInv, OwnsLock, lockVars
    <2>6. CallInv'
      BY <2>1, <2>2 DEF RrwInv, TypeOK, CallInv, Reading, HoldsOf
    <2> QED BY <2>2, <2>3, <2>4, <2>5, <2>6 DEF RrwInv
  <1>2. CASE ~ReadBlocked(t, i, prio)
    <2>0. rr_writer[i] = NoThread
      BY <1>2 DEF ReadBlocked
    <2>1. /\ GrantRead(t, i, g) /\ op' = [op EXCEPT ![t] = "none"] /\ at' = [at EXCEPT ![t] = i]
          /\ entered' = [entered EXCEPT ![t] = @ + 1]
          /\ UNCHANGED <<asleep, rr_writer, rr_writer_wanted>>
      BY <1>2 DEF ReadLoop
    <2>2. PICK kind \in Kinds :
            /\ hold' = [hold EXCEPT ![h] = kind]
            /\ TrackAll => kind = "linked"
            /\ kind = "linked" => /\ rr_linked_rcount' = [rr_linked_rcount EXCEPT ![i] = @ + 1]
                                  /\ rr_anon_rcount' = rr_anon_rcount
            /\ kind = "anon" => /\ rr_anon_rcount' = [rr_anon_rcount EXCEPT ![i] = @ + 1]
                                /\ rr_linked_rcount' = rr_linked_rcount
      BY <2>1 DEF GrantRead, Links, Kinds
    <2>3. TypeOK'
      <3>1. entered' \in [Threads -> 0 .. MaxEnters]
        BY <2>1, RrwlockAssumption, ThreadsAssumption DEF RrwInv, TypeOK
      <3> QED BY <1>0, <2>1, <2>2, <3>1 DEF RrwInv, TypeOK, Kinds
    <2>4. CountInv'
      <3>1. \A j \in Locks, k \in Kinds : Cardinality(HoldsOn(j, k)')
              = IF i = j /\ k = kind THEN Cardinality(HoldsOn(j, k)) + 1 ELSE Cardinality(HoldsOn(j, k))
        <4>1. hold \in [Holds -> {"none", "anon", "linked"}]
          BY DEF RrwInv, TypeOK
        <4>2. hold' = [hold EXCEPT ![h] = hold'[h]] /\ hold'[h] = kind
          BY <1>0, <2>2, <4>1
        <4> QED BY <1>0, <4>1, <4>2, HoldAdd
      <3>2. \A j \in Locks : /\ rr_anon_rcount[j] = Cardinality(HoldsOn(j, "anon"))
                            /\ rr_linked_rcount[j] = Cardinality(HoldsOn(j, "linked"))
        BY DEF RrwInv, CountInv
      <3> QED BY <2>2, <3>1, <3>2 DEF Kinds, RrwInv, TypeOK, CountInv
    <2>5. OwnerInv'
      BY <1>0, <2>0, <2>1, <2>2 DEF RrwInv, TypeOK, OwnerInv, OwnsLock, Kinds
    <2>6. CallInv'
      <3>1. \A u \in Threads : u # t => Reading(u)' = Reading(u)
        BY <1>0, <2>2 DEF RrwInv, TypeOK, Reading, HoldsOf
      <3> QED BY <2>1, <3>1 DEF RrwInv, TypeOK, CallInv
    <2>7. TrackAll => \A x \in Holds : hold'[x] # "anon"
      BY <2>2 DEF RrwInv, TypeOK
    <2> QED BY <2>3, <2>4, <2>5, <2>6, <2>7 DEF RrwInv
  <1> QED BY <1>1, <1>2

\* Dropping a read hold keeps RrwInv.
LEMMA ExitKeeps ==
  ASSUME RrwInv, NEW t \in Threads, NEW g \in Tags, rrw_exit(t, g)
  PROVE  RrwInv'
  <1> DEFINE i == LockOf[t]
  <1> DEFINE h == <<t, g>>
  <1>0. i \in Locks /\ h \in Holds /\ h[1] = t /\ hold[h] \in Kinds
    BY ZenonT(40), RrwlockAssumption, ThreadsAssumption DEF Locks, Holds, rrw_exit, RrwInv, TypeOK, Kinds
  <1>1. /\ hold' = [hold EXCEPT ![h] = "none"] /\ op[t] = "none"
        /\ asleep' \subseteq asleep
        /\ UNCHANGED <<rr_writer, rr_writer_wanted, op, at>>
    BY DEF rrw_exit, AwakeAfter
  <1>2. \A j \in Locks, k \in Kinds :
          /\ i = j /\ hold[h] = k => Cardinality(HoldsOn(j, k)) > 0
          /\ Cardinality(HoldsOn(j, k)')
               = IF i = j /\ hold[h] = k THEN Cardinality(HoldsOn(j, k)) - 1 ELSE Cardinality(HoldsOn(j, k))
    <2>1. hold \in [Holds -> {"none", "anon", "linked"}] /\ hold[h] # "none"
      BY <1>0 DEF RrwInv, TypeOK, Kinds
    <2> QED BY ZenonT(40), <1>0, <1>1, <2>1, HoldDrop
  <1>3. rrn_find_and_remove(t, g) <=> hold[h] = "linked"
    BY <1>0, <1>2 DEF rrn_find_and_remove, RrwInv, CountInv, Kinds
  <1>4. /\ hold[h] = "linked" => /\ rr_linked_rcount' = [rr_linked_rcount EXCEPT ![i] = @ - 1]
                                 /\ rr_anon_rcount' = [rr_anon_rcount EXCEPT ![i] = @]
        /\ hold[h] = "anon" => /\ rr_linked_rcount' = [rr_linked_rcount EXCEPT ![i] = @]
                               /\ rr_anon_rcount' = [rr_anon_rcount EXCEPT ![i] = @ - 1]
    <2>1. CASE hold[h] = "linked"
      BY <1>0, <1>3, <2>1 DEF rrw_exit
    <2>2. CASE hold[h] = "anon"
      BY <1>0, <1>3, <2>2 DEF rrw_exit
    <2> QED BY <1>0, <2>1, <2>2 DEF Kinds
  <1>5. CountInv'
    <2> SUFFICES ASSUME NEW j \in Locks
                 PROVE  /\ rr_anon_rcount'[j] = Cardinality(HoldsOn(j, "anon")')
                        /\ rr_linked_rcount'[j] = Cardinality(HoldsOn(j, "linked")')
      BY DEF CountInv
    <2>1. rr_anon_rcount[j] = Cardinality(HoldsOn(j, "anon")) /\ rr_linked_rcount[j] = Cardinality(HoldsOn(j, "linked"))
      BY DEF RrwInv, CountInv
    <2> QED BY <1>0, <1>2, <1>4, <2>1 DEF Kinds, RrwInv, TypeOK
  <1>6. TypeOK'
    <2>1. /\ hold[h] = "linked" => rr_linked_rcount[i] > 0
          /\ hold[h] = "anon" => rr_anon_rcount[i] > 0
      BY <1>0, <1>2 DEF RrwInv, CountInv, Kinds
    <2>2. rr_anon_rcount' \in [Locks -> Nat] /\ rr_linked_rcount' \in [Locks -> Nat]
      BY <1>0, <1>4, <2>1 DEF RrwInv, TypeOK, Kinds
    <2>3. entered' \in [Threads -> 0 .. MaxEnters]
      BY RrwlockAssumption, ThreadsAssumption DEF rrw_exit, RrwInv, TypeOK
    <2> QED BY ZenonT(40), <1>1, <2>2, <2>3 DEF RrwInv, TypeOK
  <1>7. OwnerInv'
    <2> SUFFICES ASSUME NEW j \in Locks
                 PROVE  /\ rr_writer'[j] # NoThread => rr_anon_rcount'[j] = 0 /\ rr_linked_rcount'[j] = 0
                        /\ \A u \in Threads : rr_writer'[j] = u <=> OwnsLock(u, j)'
      BY DEF OwnerInv
    <2>1. /\ rr_writer[j] # NoThread => rr_anon_rcount[j] = 0 /\ rr_linked_rcount[j] = 0
          /\ \A u \in Threads : rr_writer[j] = u <=> OwnsLock(u, j)
      BY DEF RrwInv, OwnerInv
    <2>2. \A u \in Threads : OwnsLock(u, j)' = OwnsLock(u, j)
      BY <1>1 DEF OwnsLock
    <2>3. rr_writer[i] = NoThread
      BY <1>0, <1>2 DEF RrwInv, OwnerInv, CountInv, Kinds
    <2>4. j # i => rr_anon_rcount'[j] = rr_anon_rcount[j] /\ rr_linked_rcount'[j] = rr_linked_rcount[j]
      BY <1>0, <1>4 DEF Kinds, RrwInv, TypeOK
    <2> QED BY <1>1, <2>1, <2>2, <2>3, <2>4
  <1>8. CallInv'
    <2>1. \A u \in Threads : Reading(u)' => Reading(u)
      BY <1>0, <1>1 DEF RrwInv, TypeOK, Reading, HoldsOf
    <2>2. \A u \in Threads : u # t => entered'[u] = entered[u]
      BY DEF rrw_exit, RrwInv, TypeOK
    <2> QED BY <1>1, <2>1, <2>2 DEF RrwInv, TypeOK, CallInv
  <1>9. TrackAll => \A x \in Holds : hold'[x] # "anon"
    BY <1>1 DEF RrwInv, TypeOK
  <1> QED BY <1>5, <1>6, <1>7, <1>8, <1>9 DEF RrwInv

\* Asking for one lock to write keeps RrwInv.
LEMMA WriteLoopKeeps ==
  ASSUME RrwInv, NEW t \in Threads, NEW i \in Locks, WriteLoop(t, i), t \notin asleep, ~Reading(t),
         (op[t] = "none" /\ i = 0) \/ (op[t] = "write" /\ i = at[t])
  PROVE  RrwInv'
  <1>1. UNCHANGED <<rr_anon_rcount, rr_linked_rcount, hold, entered>>
    BY DEF WriteLoop
  <1>2. CountInv'
    BY <1>1 DEF RrwInv, CountInv, HoldsOn
  <1>3. \A u \in Threads : Reading(u)' = Reading(u)
    BY <1>1 DEF Reading, HoldsOf
  <1>4. TrackAll => \A x \in Holds : hold'[x] # "anon"
    BY <1>1 DEF RrwInv
  <1>5. CASE WriteBlocked(i)
    <2>1. /\ rr_writer_wanted' = [rr_writer_wanted EXCEPT ![i] = TRUE]
          /\ asleep' = asleep \cup {t} /\ op' = [op EXCEPT ![t] = "write"]
          /\ at' = [at EXCEPT ![t] = i] /\ UNCHANGED rr_writer
      BY <1>5 DEF WriteLoop
    <2>2. TypeOK'
      BY <1>1, <2>1 DEF RrwInv, TypeOK
    <2>3. OwnerInv'
      <3>1. \A u \in Threads, j \in Locks : OwnsLock(u, j)' = OwnsLock(u, j)
        <4>1. op \in [Threads -> {"none", "read", "prio", "write", "writer"}] /\ at \in [Threads -> Locks]
          BY DEF RrwInv, TypeOK
        <4>2. \A u \in Threads \ {t} : op'[u] = op[u] /\ at'[u] = at[u]
          BY <2>1, <4>1
        <4>3. op'[t] = "write" /\ at'[t] = i
          BY <2>1, <4>1
        <4>4. \A j \in Locks : OwnsLock(t, j)' = OwnsLock(t, j)
          BY <4>3, RrwlockAssumption, ThreadsAssumption DEF OwnsLock, Locks
        <4> QED BY <4>2, <4>4 DEF OwnsLock
      <3> QED BY <1>1, <2>1, <3>1 DEF RrwInv, OwnerInv
    <2>4. CallInv'
      BY <1>1, <1>3, <2>1 DEF RrwInv, TypeOK, CallInv
    <2> QED BY <1>2, <1>4, <2>2, <2>3, <2>4 DEF RrwInv
  <1>6. CASE ~WriteBlocked(i)
    <2>1. /\ rr_writer_wanted' = [rr_writer_wanted EXCEPT ![i] = FALSE]
          /\ rr_writer' = [rr_writer EXCEPT ![i] = t] /\ UNCHANGED asleep
          /\ op' = [op EXCEPT ![t] = IF i = NLocks - 1 THEN "writer" ELSE "write"]
          /\ at' = [at EXCEPT ![t] = IF i = NLocks - 1 THEN 0 ELSE i + 1]
      BY <1>6 DEF WriteLoop
    <2>2. TypeOK'
      <3>1. (IF i = NLocks - 1 THEN 0 ELSE i + 1) \in Locks
        BY RrwlockAssumption, ThreadsAssumption DEF Locks
      <3> QED BY <1>1, <2>1, <3>1 DEF RrwInv, TypeOK
    <2>3. OwnerInv'
      <3>0. rr_writer[i] = NoThread /\ rr_anon_rcount[i] = 0 /\ rr_linked_rcount[i] = 0
        BY <1>6 DEF WriteBlocked, RrwInv, TypeOK
      <3>1. \A u \in Threads \ {t}, j \in Locks : OwnsLock(u, j)' = OwnsLock(u, j)
        BY <2>1 DEF OwnsLock, RrwInv, TypeOK
      <3>2. \A j \in Locks : OwnsLock(t, j)' <=> (OwnsLock(t, j) \/ j = i)
        <4>1. /\ op'[t] = IF i = NLocks - 1 THEN "writer" ELSE "write"
              /\ at'[t] = IF i = NLocks - 1 THEN 0 ELSE i + 1
          BY <2>1 DEF RrwInv, TypeOK
        <4> QED BY <4>1, RrwlockAssumption, ThreadsAssumption DEF OwnsLock, Locks
      <3>3. \A u \in Threads : ~OwnsLock(u, i)
        BY <3>0, RrwlockAssumption, ThreadsAssumption DEF RrwInv, OwnerInv
      <3> QED BY <1>1, <2>1, <3>0, <3>1, <3>2, <3>3, RrwlockAssumption, ThreadsAssumption DEF RrwInv, TypeOK, OwnerInv
    <2>4. CallInv'
      BY <1>1, <1>3, <2>1 DEF RrwInv, TypeOK, CallInv
    <2> QED BY <1>2, <1>4, <2>2, <2>3, <2>4 DEF RrwInv
  <1> QED BY <1>5, <1>6

\* The writer gives up one lock: RrwInv is kept.
LEMMA WriteExitKeeps ==
  ASSUME RrwInv, NEW t \in Threads, WriteExit(t)
  PROVE  RrwInv'
  <1> DEFINE i == at[t]
  <1>0. i \in Locks /\ op[t] = "writer"
    BY DEF RrwInv, TypeOK, WriteExit
  <1>1. /\ rr_writer' = [rr_writer EXCEPT ![i] = NoThread] /\ asleep' \subseteq asleep
        /\ op' = [op EXCEPT ![t] = IF i = NLocks - 1 THEN "none" ELSE "writer"]
        /\ at' = [at EXCEPT ![t] = IF i = NLocks - 1 THEN 0 ELSE i + 1]
        /\ UNCHANGED <<rr_writer_wanted, rr_anon_rcount, rr_linked_rcount, hold, entered>>
    BY DEF WriteExit, AwakeAfter
  <1>2. CountInv'
    BY <1>1 DEF RrwInv, CountInv, HoldsOn
  <1>3. \A u \in Threads : Reading(u)' = Reading(u)
    BY <1>1 DEF Reading, HoldsOf
  <1>4. TrackAll => \A x \in Holds : hold'[x] # "anon"
    BY <1>1 DEF RrwInv
  <1>5. TypeOK'
    <2>1. (IF i = NLocks - 1 THEN 0 ELSE i + 1) \in Locks
      BY <1>0, RrwlockAssumption, ThreadsAssumption DEF Locks
    <2>2. asleep' \in SUBSET Threads
      BY <1>1 DEF RrwInv, TypeOK
    <2>3. op' \in [Threads -> {"none", "read", "prio", "write", "writer"}] /\ at' \in [Threads -> Locks]
      BY <1>1, <2>1 DEF RrwInv, TypeOK
    <2> QED BY <1>0, <1>1, <2>2, <2>3 DEF RrwInv, TypeOK
  <1>6. OwnerInv'
    <2>1. \A u \in Threads \ {t}, j \in Locks : OwnsLock(u, j)' = OwnsLock(u, j)
      BY <1>1 DEF OwnsLock, RrwInv, TypeOK
    <2>2. \A j \in Locks : OwnsLock(t, j)' <=> (OwnsLock(t, j) /\ j # i)
      BY <1>0, <1>1, RrwlockAssumption, ThreadsAssumption DEF OwnsLock, RrwInv, TypeOK, Locks
    <2>3. rr_writer[i] = t
      BY <1>0 DEF RrwInv, OwnerInv, OwnsLock, Locks
    <2> QED BY <1>0, <1>1, <2>1, <2>2, <2>3, RrwlockAssumption, ThreadsAssumption DEF RrwInv, TypeOK, OwnerInv
  <1>7. CallInv'
    BY <1>0, <1>1, <1>3 DEF RrwInv, TypeOK, CallInv
  <1> QED BY <1>2, <1>4, <1>5, <1>6, <1>7 DEF RrwInv

\* Waking up keeps RrwInv.
LEMMA AsleepKeeps ==
  ASSUME RrwInv, asleep' \subseteq asleep, UNCHANGED <<lockVars, hold, op, at, entered>>
  PROVE  RrwInv'
  <1>1. TypeOK'
    BY DEF RrwInv, TypeOK, lockVars
  <1>2. CountInv'
    BY DEF RrwInv, CountInv, HoldsOn, lockVars
  <1>3. OwnerInv'
    BY DEF RrwInv, OwnerInv, OwnsLock, lockVars
  <1>4. CallInv'
    BY DEF RrwInv, CallInv, Reading, HoldsOf
  <1> QED BY <1>1, <1>2, <1>3, <1>4 DEF RrwInv

\* Every step keeps RrwInv.
LEMMA RrwInductive == RrwInv /\ [Next]_vars => RrwInv'
<1> SUFFICES ASSUME RrwInv, [Next]_vars PROVE RrwInv'
  OBVIOUS
<1>a. CASE UNCHANGED vars
  BY <1>a, AsleepKeeps DEF vars
<1>b. CASE Next
  <2> PICK t \in Threads : ReaderStep(t) \/ WriterStep(t) \/ SpuriousWake(t)
    BY <1>b DEF Next
  <2>0. op[t] \in {"none", "read", "prio", "write", "writer"} /\ (t \in asleep => op[t] # "none")
    BY DEF RrwInv, TypeOK, CallInv
  <2>1. ASSUME NEW g \in Tags, ReadWake(t, g) PROVE RrwInv'
    BY ZenonT(40), <2>1, ReadLoopKeeps DEF ReadWake, Awake, RrwInv, CallInv
  <2>2. ASSUME NEW g \in Tags, rrw_exit(t, g) PROVE RrwInv'
    BY <2>2, ExitKeeps
  <2>3. ASSUME NEW g \in Tags, NEW prio \in BOOLEAN, rrw_enter_read(t, prio, g) PROVE RrwInv'
    BY <2>0, <2>3, ReadLoopKeeps DEF rrw_enter_read
  <2>4. CASE rrm_enter_write(t)
    <3>1. 0 \in Locks
      BY RrwlockAssumption, ThreadsAssumption DEF Locks
    <3> QED BY <2>0, <2>4, <3>1, WriteLoopKeeps DEF rrm_enter_write, Reading
  <2>5. CASE WriteStep(t)
    <3>1. at[t] \in Locks /\ ~Reading(t)
      BY <2>5 DEF WriteStep, RrwInv, TypeOK, CallInv
    <3> QED BY <2>5, <3>1, WriteLoopKeeps DEF WriteStep, Awake
  <2>6. CASE WriteExit(t)
    BY <2>6, WriteExitKeeps
  <2>7. CASE SpuriousWake(t)
    BY <2>7, AsleepKeeps DEF SpuriousWake
  <2> QED BY <2>1, <2>2, <2>3, <2>4, <2>5, <2>6, <2>7 DEF ReaderStep, WriterStep
<1> QED BY <1>a, <1>b

\* The counts of rrwlock.c are the holds, whatever order readers and writers come in.
THEOREM RrwInvariance == Spec => []RrwInv
<1>1. Init => RrwInv
  <2> SUFFICES ASSUME Init PROVE RrwInv
    OBVIOUS
  <2>1. CountInv
    BY HoldsNone, HoldsFinite DEF Init, CountInv, Holds
  <2>2. TypeOK
    BY RrwlockAssumption, ThreadsAssumption DEF Init, TypeOK, Locks
  <2> QED BY <2>1, <2>2, RrwlockAssumption, ThreadsAssumption
          DEF Init, RrwInv, OwnerInv, OwnsLock, CallInv, Reading, HoldsOf
<1> QED BY <1>1, RrwInductive, PTL DEF Spec

\* RrwInv excludes readers while a thread has all the locks, and a second such thread.
LEMMA InvAlone == RrwInv => WriterAlone
<1> SUFFICES ASSUME RrwInv, NEW t \in Threads, NEW u \in Threads, Writing(t)
             PROVE  ~Reading(u) /\ (Writing(u) => u = t)
  BY DEF WriterAlone
<1>1. \A i \in Locks : rr_writer[i] = t
  BY DEF RrwInv, OwnerInv, OwnsLock, Writing, Locks
<1>2. ~Reading(u)
  <2> SUFFICES ASSUME NEW h \in Holds, h[1] = u, hold[h] # "none" PROVE FALSE
    BY DEF Reading, HoldsOf
  <2>1. LockOf[u] \in Locks
    BY RrwlockAssumption, ThreadsAssumption DEF Locks
  <2>2. rr_anon_rcount[LockOf[u]] = 0 /\ rr_linked_rcount[LockOf[u]] = 0
    BY <1>1, <2>1, RrwlockAssumption, ThreadsAssumption DEF RrwInv, OwnerInv
  <2>3. hold[h] # "anon" /\ hold[h] # "linked"
    BY <2>1, <2>2, HoldsNone DEF RrwInv, CountInv
  <2> QED BY <2>3 DEF RrwInv, TypeOK
<1>3. Writing(u) => u = t
  <2>1. 0 \in Locks
    BY RrwlockAssumption, ThreadsAssumption DEF Locks
  <2> QED BY <1>1, <2>1 DEF RrwInv, OwnerInv, OwnsLock, Writing
<1> QED BY <1>2, <1>3

\* A thread that rrm_enter_write returned to is alone, although readers are counted on one of
\* many locks and in one of two counters.
THEOREM Exclusion == Spec => []WriterAlone
  BY RrwInvariance, InvAlone, PTL

\* rrw_enter_read never blocks a thread that reads already, so it cannot deadlock with a writer
\* that waits for that thread.
THEOREM Reentrancy == Spec => []ReentrantNeverWaits
<1>1. RrwInv => ReentrantNeverWaits
  BY DEF RrwInv, TypeOK, CallInv, ReentrantNeverWaits
<1> QED BY <1>1, RrwInvariance, PTL

\* With track_all, rrw_held is true exactly of the threads that read.
THEOREM HeldExact == Spec => []HeldIsExact
<1>1. RrwInv => HeldIsExact
  <2> SUFFICES ASSUME RrwInv, TrackAll, NEW t \in Threads PROVE rrw_held_read(t) <=> Reading(t)
    BY DEF HeldIsExact
  <2>1. LockOf[t] \in Locks
    BY RrwlockAssumption, ThreadsAssumption DEF Locks
  <2>2. rr_anon_rcount[LockOf[t]] = 0
    BY <2>1, HoldsNone DEF RrwInv, CountInv
  <2>3. ASSUME NEW g \in Tags, hold[<<t, g>>] = "linked" PROVE Reading(t)
    BY <2>3 DEF Reading, HoldsOf, Holds
  <2>4. ASSUME Reading(t) PROVE rrn_find(t, LockOf[t])
    <3> PICK h \in Holds : h[1] = t /\ hold[h] # "none"
      BY <2>4 DEF Reading, HoldsOf
    <3>1. hold[h] = "linked" /\ h[2] \in Tags /\ h = <<t, h[2]>>
      BY DEF RrwInv, TypeOK, Holds
    <3>2. rr_linked_rcount[LockOf[t]] # 0
      BY <2>1, <3>1, HoldsNone DEF RrwInv, CountInv
    <3> QED BY <3>1, <3>2 DEF rrn_find
  <2> QED BY ZenonT(40), <2>2, <2>3, <2>4 DEF rrw_held_read, rrn_find
<1> QED BY <1>1, RrwInvariance, PTL

\* Every step of the lock is a step of the abstract reader-writer lock or leaves it as it is;
\* it is taken for writing when the last of the locks is, and given up with the first.
THEOREM RrwRefinement == Spec => ImplementsRWLock
<1>1. Init => RW!Init
  BY DEF Init, RW!Init, TheWriter, Writing
<1>2. RrwInv /\ [Next]_vars => [RW!Next]_RW!lockVars
  <2> SUFFICES ASSUME RrwInv, [Next]_vars PROVE [RW!Next]_RW!lockVars
    OBVIOUS
  <2> DEFINE R == {h \in Holds : hold[h] # "none"}
  <2>0. RrwInv' /\ WriterAlone /\ WriterAlone'
    <3>1. RrwInv'
      BY RrwInductive
    <3>2. RrwInv' => WriterAlone'
      BY InvAlone, PTL
    <3> QED BY <3>1, <3>2, InvAlone
  <2>1. /\ \A t \in Threads : Writing(t) => TheWriter = t
        /\ (\A t \in Threads : ~Writing(t)) => TheWriter = NoThread
    BY <2>0 DEF TheWriter, WriterAlone
  <2>2. /\ \A t \in Threads : Writing(t)' => TheWriter' = t
        /\ (\A t \in Threads : ~Writing(t)') => TheWriter' = NoThread
    BY <2>0 DEF TheWriter, WriterAlone
  <2>3. ASSUME \A t \in Threads : Writing(t)' <=> Writing(t) PROVE TheWriter' = TheWriter
    BY <2>1, <2>2, <2>3
  <2>4. ASSUME UNCHANGED <<hold, op, at>> PROVE UNCHANGED RW!lockVars
    <3>1. TheWriter' = TheWriter
      BY <2>3, <2>4 DEF Writing
    <3> QED BY <2>4, <3>1 DEF RW!lockVars
  <2>a. CASE UNCHANGED vars
    BY <2>a, <2>4 DEF vars
  <2>b. CASE Next
    <3> PICK t \in Threads : ReaderStep(t) \/ WriterStep(t) \/ SpuriousWake(t)
      BY <2>b DEF Next
    <3>0. /\ op \in [Threads -> {"none", "read", "prio", "write", "writer"}]
          /\ at \in [Threads -> Locks] /\ hold \in [Holds -> {"none", "anon", "linked"}]
      BY DEF RrwInv, TypeOK
    <3>1. ASSUME NEW g \in Tags, NEW prio \in BOOLEAN, ReadLoop(t, prio, g), op[t] \in {"none", "read", "prio"}
          PROVE  [RW!Next]_RW!lockVars
      <4>0. <<t, g>> \in Holds /\ hold[<<t, g>>] = "none"
        BY <3>1 DEF Holds, ReadLoop
      <4>1. CASE ReadBlocked(t, LockOf[t], prio)
        <5>1. /\ op' = [op EXCEPT ![t] = IF prio THEN "prio" ELSE "read"]
              /\ at' = [at EXCEPT ![t] = LockOf[t]] /\ hold' = hold
          BY <3>1, <4>1 DEF ReadLoop
        <5>2. \A u \in Threads : Writing(u)' <=> Writing(u)
          BY <3>0, <3>1, <5>1 DEF Writing
        <5>3. UNCHANGED RW!lockVars
          BY <2>3, <5>1, <5>2 DEF RW!lockVars
        <5> QED BY <5>3
      <4>2. CASE ~ReadBlocked(t, LockOf[t], prio)
        <5>1. op' = [op EXCEPT ![t] = "none"] /\ at' = [at EXCEPT ![t] = LockOf[t]]
          BY <3>1, <4>2 DEF ReadLoop
        <5>2. PICK kind \in Kinds : hold' = [hold EXCEPT ![<<t, g>>] = kind]
          BY <3>1, <4>2 DEF ReadLoop, GrantRead, Kinds
        <5>3. R' = R \cup {<<t, g>>} /\ <<t, g>> \notin R
          BY <3>0, <4>0, <5>2 DEF Kinds
        <5>4. \A u \in Threads : Writing(u)' <=> Writing(u)
          BY <3>0, <3>1, <5>1 DEF Writing
        <5>5. Reading(t)'
          <6>1. hold'[<<t, g>>] # "none"
            BY <3>0, <4>0, <5>2 DEF Kinds
          <6> QED BY <4>0, <6>1 DEF Reading, HoldsOf
        <5>6. \A u \in Threads : ~Writing(u)
          BY <2>0, <5>4, <5>5 DEF WriterAlone
        <5>7. RW!AcquireRead(<<t, g>>)
          BY <2>1, <2>3, <5>3, <5>4, <5>6 DEF RW!AcquireRead
        <5> QED BY <4>0, <5>7 DEF RW!Next
      <4> QED BY <4>1, <4>2
    <3>2. ASSUME NEW g \in Tags, rrw_exit(t, g) PROVE [RW!Next]_RW!lockVars
      <4>0. <<t, g>> \in Holds
        BY DEF Holds
      <4>1. hold[<<t, g>>] # "none" /\ hold' = [hold EXCEPT ![<<t, g>>] = "none"] /\ UNCHANGED <<op, at>>
        BY <3>2 DEF rrw_exit
      <4>2. <<t, g>> \in R /\ R' = R \ {<<t, g>>}
        BY <3>0, <4>0, <4>1
      <4>3. TheWriter' = TheWriter
        BY <2>3, <4>1 DEF Writing
      <4>4. RW!ReleaseRead(<<t, g>>)
        BY <4>2, <4>3 DEF RW!ReleaseRead
      <4> QED BY <4>0, <4>4 DEF RW!Next
    <3>3. ASSUME NEW i \in Locks, WriteLoop(t, i), op[t] \in {"none", "write"} PROVE [RW!Next]_RW!lockVars
      <4>1. CASE WriteBlocked(i)
        <5>1. hold' = hold /\ op' = [op EXCEPT ![t] = "write"] /\ at' = [at EXCEPT ![t] = i]
          BY <3>3, <4>1 DEF WriteLoop
        <5>2. \A u \in Threads : Writing(u)' <=> Writing(u)
          BY <3>0, <3>3, <5>1 DEF Writing
        <5> QED BY <2>3, <5>1, <5>2 DEF RW!lockVars
      <4>2. CASE ~WriteBlocked(i)
        <5>1. /\ hold' = hold /\ op' = [op EXCEPT ![t] = IF i = NLocks - 1 THEN "writer" ELSE "write"]
              /\ at' = [at EXCEPT ![t] = IF i = NLocks - 1 THEN 0 ELSE i + 1]
          BY <3>3, <4>2 DEF WriteLoop
        <5>2. CASE i # NLocks - 1
          <6>1. \A u \in Threads : Writing(u)' <=> Writing(u)
            BY <3>0, <3>3, <5>1, <5>2 DEF Writing
          <6> QED BY <2>3, <5>1, <6>1 DEF RW!lockVars
        <5>3. CASE i = NLocks - 1
          <6>1. Writing(t)'
            BY <3>0, <5>1, <5>3 DEF Writing
          <6>2. \A u \in Threads : ~Writing(u)
            <7>1. rr_writer[i] = NoThread
              BY <4>2 DEF WriteBlocked
            <7> QED BY <3>3, <7>1, RrwlockAssumption, ThreadsAssumption DEF RrwInv, OwnerInv, OwnsLock, Writing, Locks
          <6>3. R = {} /\ R' = {}
            <7>1. \A u \in Threads : ~Reading(u)'
              BY <2>0, <6>1 DEF WriterAlone
            <7> QED BY <5>1, <7>1 DEF Reading, HoldsOf, Holds
          <6>4. RW!AcquireWrite(t)
            BY <2>1, <2>2, <6>1, <6>2, <6>3 DEF RW!AcquireWrite
          <6> QED BY <6>4 DEF RW!Next
        <5> QED BY <5>2, <5>3
      <4> QED BY <4>1, <4>2
    <3>4. CASE WriteExit(t)
      <4>1. /\ hold' = hold /\ op' = [op EXCEPT ![t] = IF at[t] = NLocks - 1 THEN "none" ELSE "writer"]
            /\ at' = [at EXCEPT ![t] = IF at[t] = NLocks - 1 THEN 0 ELSE at[t] + 1] /\ op[t] = "writer"
        BY <3>4 DEF WriteExit
      <4>2. ~Writing(t)' /\ \A u \in Threads \ {t} : Writing(u)' <=> Writing(u)
        <5>1. at[t] \in Nat
          BY <3>0, RrwlockAssumption, ThreadsAssumption DEF Locks
        <5> QED BY <3>0, <4>1, <5>1 DEF Writing
      <4>3. CASE Writing(t)
        <5>1. \A u \in Threads : ~Writing(u)'
          BY <2>0, <4>2, <4>3 DEF WriterAlone
        <5>2. RW!ReleaseWrite
          BY <2>1, <2>2, <4>1, <4>3, <5>1, RrwlockAssumption, ThreadsAssumption DEF RW!ReleaseWrite
        <5> QED BY <5>2 DEF RW!Next
      <4>4. CASE ~Writing(t)
        <5>1. TheWriter' = TheWriter
          BY <2>3, <4>2, <4>4
        <5> QED BY <4>1, <5>1 DEF RW!lockVars
      <4> QED BY <4>3, <4>4
    <3>5. CASE SpuriousWake(t)
      BY <2>4, <3>5 DEF SpuriousWake
    <3>6. 0 \in Locks /\ at[t] \in Locks
      BY <3>0, RrwlockAssumption, ThreadsAssumption DEF Locks
    <3>7. CASE ReaderStep(t)
      BY ZenonT(40), <3>1, <3>2, <3>7 DEF ReaderStep, ReadWake, rrw_enter_read
    <3>8. CASE WriterStep(t)
      BY <3>3, <3>4, <3>6, <3>8 DEF WriterStep, rrm_enter_write, WriteStep
    <3> QED BY <3>5, <3>7, <3>8
  <2> QED BY <2>a, <2>b
<1> QED BY <1>1, <1>2, RrwInvariance, PTL DEF Spec, RW!Spec, ImplementsRWLock

-----------------------------------------------------------------------------
(* The reader-writer lock of libspl.                                       *)

VARIABLES ck_writer, n_readers, rw_writer, rw_pc, rw_try

Krw == INSTANCE KRwlock WITH writer <- rw_writer, pc <- rw_pc, try <- rw_try

\* An instance has its own copy of the operators of FiniteSets.
LEMMA KrwCardinality == \A S : Krw!Cardinality(S) = Cardinality(S)
  BY DEF Krw!Cardinality, Cardinality

Quiet == {"none", "swap"} \cup {"drain", "set", "write", "unlock", "giveup", "inc"} \cup {"load", "count"}
Loud == {"check", "uncount", "read", "store"}

\* The threads that are counted are finitely many, so their number is a number.
LEMMA CountedFinite == IsFiniteSet(Krw!CountedSet) /\ Krw!Cardinality(Krw!CountedSet) \in Nat
  BY ThreadsAssumption, FS_Subset, FS_CardinalityType, KrwCardinality DEF Krw!CountedSet

\* A thread that comes to be counted adds one to their number.
LEMMA CountUp ==
  ASSUME NEW t \in Threads, NEW p \in Loud, rw_pc[t] \in Quiet, rw_pc \in [Threads -> Krw!Places],
         rw_pc' = [rw_pc EXCEPT ![t] = p]
  PROVE  Krw!Cardinality(Krw!CountedSet') = Krw!Cardinality(Krw!CountedSet) + 1
  <1>1. Krw!CountedSet' = Krw!CountedSet \cup {t} /\ t \notin Krw!CountedSet
    BY DEF Krw!CountedSet, Krw!Counted, Loud, Quiet
  <1> QED BY ZenonT(40), <1>1, CountedFinite, FS_AddElement, KrwCardinality

\* One that is no longer counted takes one away.
LEMMA CountDown ==
  ASSUME NEW t \in Threads, NEW p \in Quiet, rw_pc[t] \in Loud, rw_pc \in [Threads -> Krw!Places],
         rw_pc' = [rw_pc EXCEPT ![t] = p]
  PROVE  /\ Krw!Cardinality(Krw!CountedSet') = Krw!Cardinality(Krw!CountedSet) - 1
         /\ Krw!Cardinality(Krw!CountedSet) > 0
  <1>1. Krw!CountedSet' = Krw!CountedSet \ {t} /\ t \in Krw!CountedSet
    BY DEF Krw!CountedSet, Krw!Counted, Loud, Quiet
  <1>2. Krw!Cardinality(Krw!CountedSet') = Krw!Cardinality(Krw!CountedSet) - 1
    BY ZenonT(40), <1>1, CountedFinite, FS_RemoveElement, KrwCardinality
  <1>3. Krw!CountedSet # {}
    BY <1>1
  <1> QED BY <1>2, <1>3, CountedFinite, FS_EmptySet, KrwCardinality

\* Any other move leaves their number as it was.
LEMMA CountSame ==
  ASSUME NEW t \in Threads, NEW p, rw_pc \in [Threads -> Krw!Places], rw_pc' = [rw_pc EXCEPT ![t] = p],
         (rw_pc[t] \in Quiet /\ p \in Quiet) \/ (rw_pc[t] \in Loud /\ p \in Loud)
  PROVE  Krw!CountedSet' = Krw!CountedSet
  BY DEF Krw!CountedSet, Krw!Counted, Loud, Quiet

\* Every step keeps KRwInv.
LEMMA KrwInductive == Krw!KRwInv /\ [Krw!Next]_Krw!vars => Krw!KRwInv'
<1> SUFFICES ASSUME Krw!KRwInv, [Krw!Next]_Krw!vars PROVE Krw!KRwInv'
  OBVIOUS
<1>0. rw_pc \in [Threads -> Krw!Places] /\ n_readers \in Nat /\ n_readers = Krw!Cardinality(Krw!CountedSet)
  BY DEF Krw!KRwInv, Krw!TypeOK
<1>a. CASE UNCHANGED Krw!vars
  BY <1>a DEF Krw!vars, Krw!KRwInv, Krw!TypeOK, Krw!CountedSet, Krw!Counted
<1>b. CASE Krw!Next
  <2> PICK t \in Threads :
        \/ Krw!rw_enter_writer(t) \/ Krw!rw_enter_reader(t) \/ Krw!rw_exit(t) \/ Krw!rw_downgrade(t)
        \/ Krw!WriterStep(t) \/ Krw!ReaderStep(t)
    BY <1>b DEF Krw!Next
  <2> USE DEF Krw!Go, Quiet, Loud
  <2>1. CASE Krw!rw_enter_writer(t)
    <3>1. Krw!CountedSet' = Krw!CountedSet BY ZenonT(40), <2>1, <1>0, CountSame DEF Krw!rw_enter_writer
    <3> QED BY <2>1, <3>1 DEF Krw!rw_enter_writer, Krw!KRwInv, Krw!TypeOK, Krw!Places, Krw!WriterSide, Krw!ReaderSide
  <2>2. CASE Krw!rw_enter_reader(t)
    <3>1. Krw!CountedSet' = Krw!CountedSet BY ZenonT(40), <2>2, <1>0, CountSame DEF Krw!rw_enter_reader
    <3> QED BY <2>2, <3>1 DEF Krw!rw_enter_reader, Krw!KRwInv, Krw!TypeOK, Krw!Places, Krw!WriterSide, Krw!ReaderSide
  <2>3. CASE Krw!rw_exit(t)
    <3>1. CASE rw_writer = t
      <4>1. rw_pc[t] = "write" /\ rw_pc' = [rw_pc EXCEPT ![t] = "unlock"]
        BY <2>3, <3>1 DEF Krw!rw_exit, Krw!KRwInv
      <4>2. Krw!CountedSet' = Krw!CountedSet BY ZenonT(40), <4>1, <1>0, CountSame
      <4> QED BY <2>3, <3>1, <4>1, <4>2, ThreadsAssumption
            DEF Krw!rw_exit, Krw!KRwInv, Krw!TypeOK, Krw!Places, Krw!WriterSide, Krw!ReaderSide
    <3>2. CASE rw_writer # t
      <4>1. rw_pc[t] = "read" /\ rw_pc' = [rw_pc EXCEPT ![t] = "none"]
        BY <2>3, <3>2 DEF Krw!rw_exit, Krw!KRwInv
      <4>2. /\ Krw!Cardinality(Krw!CountedSet') = Krw!Cardinality(Krw!CountedSet) - 1
            /\ Krw!Cardinality(Krw!CountedSet) > 0
        BY ZenonT(40), <4>1, <1>0, CountDown
      <4>3. n_readers' = Krw!Cardinality(Krw!CountedSet') /\ n_readers' \in Nat
        BY <4>2, <1>0, <2>3, <3>2 DEF Krw!rw_exit
      <4> QED BY <2>3, <3>2, <4>1, <4>3
            DEF Krw!rw_exit, Krw!KRwInv, Krw!TypeOK, Krw!Places, Krw!WriterSide, Krw!ReaderSide
    <3> QED BY <3>1, <3>2
  <2>4. CASE Krw!rw_downgrade(t)
    <3>1. Krw!CountedSet' = Krw!CountedSet BY ZenonT(40), <2>4, <1>0, CountSame DEF Krw!rw_downgrade
    <3> QED BY <2>4, <3>1, ThreadsAssumption
          DEF Krw!rw_downgrade, Krw!KRwInv, Krw!TypeOK, Krw!Places, Krw!WriterSide, Krw!ReaderSide
  <2>5. CASE Krw!Swap(t)
    <3>1. Krw!CountedSet' = Krw!CountedSet BY ZenonT(40), <2>5, <1>0, CountSame DEF Krw!Swap
    <3> QED BY <2>5, <3>1 DEF Krw!Swap, Krw!KRwInv, Krw!TypeOK, Krw!Places, Krw!WriterSide, Krw!ReaderSide
  <2>6. CASE Krw!Drain(t)
    <3>1. Krw!CountedSet' = Krw!CountedSet BY ZenonT(40), <2>6, <1>0, CountSame DEF Krw!Drain
    <3>2. n_readers = 0 => \A u \in Threads : ~Krw!Counted(u)
      <4>1. n_readers = 0 => Krw!CountedSet = {}
        BY ZenonT(40), <1>0, CountedFinite, FS_EmptySet, KrwCardinality
      <4> QED BY <4>1 DEF Krw!CountedSet
    <3> QED BY <2>6, <3>1, <3>2
            DEF Krw!Drain, Krw!Counted, Krw!KRwInv, Krw!TypeOK, Krw!Places, Krw!WriterSide, Krw!ReaderSide
  <2>7. CASE Krw!GiveUp(t)
    <3>1. Krw!CountedSet' = Krw!CountedSet BY ZenonT(40), <2>7, <1>0, CountSame DEF Krw!GiveUp
    <3> QED BY <2>7, <3>1 DEF Krw!GiveUp, Krw!KRwInv, Krw!TypeOK, Krw!Places, Krw!WriterSide, Krw!ReaderSide
  <2>8. CASE Krw!SetWriter(t)
    <3>1. Krw!CountedSet' = Krw!CountedSet BY ZenonT(40), <2>8, <1>0, CountSame DEF Krw!SetWriter
    <3> QED BY <2>8, <3>1, ThreadsAssumption
          DEF Krw!SetWriter, Krw!KRwInv, Krw!TypeOK, Krw!Places, Krw!WriterSide, Krw!ReaderSide
  <2>9. CASE Krw!WriteUnlock(t)
    <3>1. Krw!CountedSet' = Krw!CountedSet BY ZenonT(40), <2>9, <1>0, CountSame DEF Krw!WriteUnlock
    <3> QED BY <2>9, <3>1 DEF Krw!WriteUnlock, Krw!KRwInv, Krw!TypeOK, Krw!Places, Krw!WriterSide, Krw!ReaderSide
  <2>10. CASE Krw!DowngradeInc(t)
    <3>1. Krw!Cardinality(Krw!CountedSet') = Krw!Cardinality(Krw!CountedSet) + 1
      BY ZenonT(40), <2>10, <1>0, CountUp DEF Krw!DowngradeInc
    <3> QED BY <2>10, <3>1 DEF Krw!DowngradeInc, Krw!KRwInv, Krw!TypeOK, Krw!Places, Krw!WriterSide, Krw!ReaderSide
  <2>11. CASE Krw!DowngradeStore(t)
    <3>1. Krw!CountedSet' = Krw!CountedSet BY ZenonT(40), <2>11, <1>0, CountSame DEF Krw!DowngradeStore
    <3> QED BY <2>11, <3>1 DEF Krw!DowngradeStore, Krw!KRwInv, Krw!TypeOK, Krw!Places, Krw!WriterSide, Krw!ReaderSide
  <2>12. CASE Krw!Load(t)
    <3>1. Krw!CountedSet' = Krw!CountedSet BY ZenonT(40), <2>12, <1>0, CountSame DEF Krw!Load
    <3> QED BY <2>12, <3>1 DEF Krw!Load, Krw!KRwInv, Krw!TypeOK, Krw!Places, Krw!WriterSide, Krw!ReaderSide
  <2>13. CASE Krw!Count(t)
    <3>1. Krw!Cardinality(Krw!CountedSet') = Krw!Cardinality(Krw!CountedSet) + 1
      BY ZenonT(40), <2>13, <1>0, CountUp DEF Krw!Count
    <3> QED BY <2>13, <3>1 DEF Krw!Count, Krw!KRwInv, Krw!TypeOK, Krw!Places, Krw!WriterSide, Krw!ReaderSide
  <2>14. CASE Krw!Check(t)
    <3>1. Krw!CountedSet' = Krw!CountedSet BY ZenonT(40), <2>14, <1>0, CountSame DEF Krw!Check
    <3> QED BY <2>14, <3>1 DEF Krw!Check, Krw!KRwInv, Krw!TypeOK, Krw!Places, Krw!WriterSide, Krw!ReaderSide
  <2>15. CASE Krw!Uncount(t)
    <3>1. Krw!Cardinality(Krw!CountedSet') = Krw!Cardinality(Krw!CountedSet) - 1 /\ Krw!Cardinality(Krw!CountedSet) > 0
      BY ZenonT(40), <2>15, <1>0, CountDown DEF Krw!Uncount
    <3>2. n_readers' = Krw!Cardinality(Krw!CountedSet') /\ n_readers' \in Nat
      BY <3>1, <1>0, <2>15 DEF Krw!Uncount
    <3> QED BY <2>15, <3>2 DEF Krw!Uncount, Krw!KRwInv, Krw!TypeOK, Krw!Places, Krw!WriterSide, Krw!ReaderSide
  <2> QED BY <2>1, <2>2, <2>3, <2>4, <2>5, <2>6, <2>7, <2>8, <2>9, <2>10, <2>11, <2>12, <2>13,
             <2>14, <2>15 DEF Krw!WriterStep, Krw!ReaderStep
<1> QED BY <1>a, <1>b

\* The counters are exact, there is one writer, nobody reads while it writes, and the
\* writer field is right: rw_exit of rwlock.c always releases what the caller has.
THEOREM KrwInvariance == Krw!Spec => []Krw!KRwInv
<1>1. Krw!Init => Krw!KRwInv
  <2> SUFFICES ASSUME Krw!Init PROVE Krw!KRwInv
    OBVIOUS
  <2>1. Krw!CountedSet = {}
    BY DEF Krw!Init, Krw!CountedSet, Krw!Counted
  <2>2. n_readers = Krw!Cardinality(Krw!CountedSet)
    BY <2>1, FS_EmptySet, KrwCardinality DEF Krw!Init
  <2> QED BY <2>2, ThreadsAssumption DEF Krw!Init, Krw!KRwInv, Krw!TypeOK, Krw!Places, Krw!WriterSide, Krw!ReaderSide
<1> QED BY <1>1, KrwInductive, PTL DEF Krw!Spec

\* Every step of the spinning lock is a step of the abstract reader-writer lock or leaves it
\* as it is: rwlock.c gives write holds to one thread alone and read holds to no one beside it,
\* and a downgrade turns the one into the other without a moment of neither.
THEOREM KrwRefinement == Krw!Spec => Krw!ImplementsRWLock
<1>1. Krw!Init => Krw!RW!Init
  BY DEF Krw!Init, Krw!RW!Init, Krw!TheWriter, Krw!Writes
<1>2. Krw!KRwInv /\ [Krw!Next]_Krw!vars => [Krw!RW!Next]_Krw!RW!lockVars
  <2> SUFFICES ASSUME Krw!KRwInv, [Krw!Next]_Krw!vars PROVE [Krw!RW!Next]_Krw!RW!lockVars
    OBVIOUS
  <2> DEFINE R == {t \in Threads : rw_pc[t] = "read"}
  <2>0. Krw!KRwInv'
    BY KrwInductive
  <2>1. /\ \A t \in Threads : Krw!Writes(t) => Krw!TheWriter = t
        /\ (\A t \in Threads : ~Krw!Writes(t)) => Krw!TheWriter = NoThread
    BY DEF Krw!TheWriter, Krw!Writes, Krw!KRwInv, Krw!WriterSide
  <2>2. /\ \A t \in Threads : Krw!Writes(t)' => Krw!TheWriter' = t
        /\ (\A t \in Threads : ~Krw!Writes(t)') => Krw!TheWriter' = NoThread
    BY <2>0 DEF Krw!TheWriter, Krw!Writes, Krw!KRwInv, Krw!WriterSide
  <2>3. ASSUME R' = R, \A t \in Threads : Krw!Writes(t)' <=> Krw!Writes(t) PROVE UNCHANGED Krw!RW!lockVars
    <3>1. Krw!TheWriter' = Krw!TheWriter
      BY <2>1, <2>2, <2>3
    <3> QED BY <3>1, <2>3 DEF Krw!RW!lockVars
  <2>a. CASE UNCHANGED Krw!vars
    BY <2>a, <2>3 DEF Krw!vars, Krw!Writes
  <2>b. CASE Krw!Next
    <3> PICK t \in Threads :
          \/ Krw!rw_enter_writer(t) \/ Krw!rw_enter_reader(t) \/ Krw!rw_exit(t) \/ Krw!rw_downgrade(t)
          \/ Krw!WriterStep(t) \/ Krw!ReaderStep(t)
      BY <2>b DEF Krw!Next
    <3>0. rw_pc \in [Threads -> Krw!Places]
      BY DEF Krw!KRwInv, Krw!TypeOK
    <3>1. CASE Krw!Drain(t) /\ n_readers = 0
      <4>1. Krw!CountedSet = {}
        BY ZenonT(40), <3>1, CountedFinite, FS_EmptySet, KrwCardinality DEF Krw!KRwInv
      <4>2. R = {} /\ R' = {}
        BY <3>0, <3>1, <4>1 DEF Krw!Drain, Krw!CountedSet, Krw!Counted
      <4>3. (\A u \in Threads : ~Krw!Writes(u)) /\ Krw!Writes(t)'
        BY <3>0, <3>1 DEF Krw!Drain, Krw!KRwInv, Krw!Writes, Krw!WriterSide
      <4>4. Krw!RW!AcquireWrite(t)
        BY <2>1, <2>2, <4>2, <4>3 DEF Krw!RW!AcquireWrite
      <4> QED BY <4>4 DEF Krw!RW!Next
    <3>2. CASE Krw!WriteUnlock(t)
      <4>1. R' = R
        BY <3>0, <3>2 DEF Krw!WriteUnlock, Krw!Go
      <4>2. Krw!Writes(t) /\ \A u \in Threads : ~Krw!Writes(u)'
        BY <3>0, <3>2 DEF Krw!WriteUnlock, Krw!Go, Krw!KRwInv, Krw!Writes, Krw!WriterSide
      <4>3. Krw!RW!ReleaseWrite
        BY <2>1, <2>2, <4>1, <4>2, ThreadsAssumption DEF Krw!RW!ReleaseWrite
      <4> QED BY <4>3 DEF Krw!RW!Next
    <3>3. CASE Krw!DowngradeStore(t)
      <4>1. R' = {t}
        BY <3>0, <3>3 DEF Krw!DowngradeStore, Krw!Go, Krw!KRwInv
      <4>2. Krw!Writes(t) /\ \A u \in Threads : ~Krw!Writes(u)'
        BY <3>0, <3>3 DEF Krw!DowngradeStore, Krw!Go, Krw!KRwInv, Krw!Writes, Krw!WriterSide
      <4>3. Krw!RW!Downgrade(t)
        BY <2>1, <2>2, <4>1, <4>2, ThreadsAssumption DEF Krw!RW!Downgrade
      <4> QED BY <4>3 DEF Krw!RW!Next
    <3>4. CASE Krw!Check(t) /\ ck_writer = 0
      <4>1. t \notin R /\ R' = R \cup {t}
        BY <3>0, <3>4 DEF Krw!Check
      <4>2. (\A u \in Threads : ~Krw!Writes(u)) /\ \A u \in Threads : ~Krw!Writes(u)'
        BY <3>0, <3>4 DEF Krw!Check, Krw!KRwInv, Krw!Writes, Krw!WriterSide
      <4>3. Krw!RW!AcquireRead(t)
        BY <2>1, <2>2, <4>1, <4>2 DEF Krw!RW!AcquireRead
      <4> QED BY <4>3 DEF Krw!RW!Next
    <3>5. CASE Krw!rw_exit(t) /\ rw_writer # t
      <4>1. rw_pc[t] = "read" /\ rw_pc' = [rw_pc EXCEPT ![t] = "none"]
        BY <3>5 DEF Krw!rw_exit, Krw!KRwInv
      <4>2. t \in R /\ R' = R \ {t}
        BY <3>0, <4>1
      <4>3. \A u \in Threads : Krw!Writes(u)' <=> Krw!Writes(u)
        BY <3>0, <4>1 DEF Krw!Writes
      <4>4. Krw!TheWriter' = Krw!TheWriter
        BY <2>1, <2>2, <4>3
      <4>5. Krw!RW!ReleaseRead(t)
        BY <4>2, <4>4 DEF Krw!RW!ReleaseRead
      <4> QED BY <4>5 DEF Krw!RW!Next
    <3>6. CASE Krw!rw_exit(t) /\ rw_writer = t
      <4>1. rw_pc[t] = "write" /\ rw_pc' = [rw_pc EXCEPT ![t] = "unlock"]
        BY <3>6 DEF Krw!rw_exit, Krw!KRwInv
      <4> QED BY <2>3, <3>0, <4>1 DEF Krw!Writes
    <3>7. CASE \/ Krw!rw_enter_writer(t) \/ Krw!rw_enter_reader(t) \/ Krw!rw_downgrade(t) \/ Krw!Swap(t)
               \/ (Krw!Drain(t) /\ n_readers # 0)
               \/ Krw!GiveUp(t) \/ Krw!SetWriter(t) \/ Krw!DowngradeInc(t) \/ Krw!Load(t) \/ Krw!Count(t)
               \/ (Krw!Check(t) /\ ck_writer # 0) \/ Krw!Uncount(t)
      <4>1. R' = R
        BY <3>0, <3>7
        DEF Krw!rw_enter_writer, Krw!rw_enter_reader, Krw!rw_downgrade, Krw!Swap, Krw!Drain, Krw!GiveUp, Krw!SetWriter,
             Krw!DowngradeInc, Krw!Load, Krw!Count, Krw!Check, Krw!Uncount, Krw!Go
      <4>2. \A u \in Threads : Krw!Writes(u)' <=> Krw!Writes(u)
        BY <3>0, <3>7
        DEF Krw!rw_enter_writer, Krw!rw_enter_reader, Krw!rw_downgrade, Krw!Swap, Krw!Drain, Krw!GiveUp, Krw!SetWriter,
             Krw!DowngradeInc, Krw!Load, Krw!Count, Krw!Check, Krw!Uncount, Krw!Go, Krw!Writes
      <4> QED BY <4>1, <4>2, <2>3
    <3> QED BY <3>1, <3>2, <3>3, <3>4, <3>5, <3>6, <3>7 DEF Krw!WriterStep, Krw!ReaderStep
  <2> QED BY <2>a, <2>b
<1> QED BY <1>1, <1>2, KrwInvariance, PTL DEF Krw!Spec, Krw!RW!Spec, Krw!ImplementsRWLock

-----------------------------------------------------------------------------
(* The zero-reference lock of zrlock.c.                                    *)

CONSTANT Slots
VARIABLES zr_refcount, zr_mtx, zr_ref, zr_pc, zr_n, zr_asleep

Zrl == INSTANCE Zrlock WITH ref <- zr_ref, pc <- zr_pc, n <- zr_n, asleep <- zr_asleep

\* As above, for the operators of this instance.
LEMMA ZrlCardinality ==
  /\ \A S : Zrl!Cardinality(S) = Cardinality(S)
  /\ \A S : Zrl!IsFiniteSet(S) <=> IsFiniteSet(S)
  BY DEF Zrl!Cardinality, Cardinality, Zrl!IsFiniteSet, IsFiniteSet

\* Every step of the zero-reference lock keeps the count exact.
LEMMA ZrlCounts == Zrl!ZrlSleepInv /\ [Zrl!Next]_Zrl!vars => Zrl!ZrlInv' /\ Zrl!IsFiniteSet(zr_ref')
<1> SUFFICES ASSUME Zrl!ZrlSleepInv, [Zrl!Next]_Zrl!vars PROVE Zrl!ZrlInv' /\ Zrl!IsFiniteSet(zr_ref')
  OBVIOUS
<1> USE DEF Zrl!At, Zrl!Go, Zrl!ZRL_LOCKED
<1>0. Zrl!ZrlInv /\ Zrl!TypeOK /\ Zrl!IsFiniteSet(zr_ref)
  BY DEF Zrl!ZrlSleepInv, Zrl!ZrlInv
<1>1. ASSUME NEW r \in Zrl!Refs, r \notin zr_ref
      PROVE  /\ Zrl!IsFiniteSet(zr_ref \cup {r})
             /\ Zrl!Cardinality(zr_ref \cup {r}) = Zrl!Cardinality(zr_ref) + 1
  BY <1>0, <1>1, FS_AddElement, ZrlCardinality
<1>2. ASSUME NEW r \in zr_ref
      PROVE  /\ Zrl!IsFiniteSet(zr_ref \ {r})
             /\ Zrl!Cardinality(zr_ref \ {r}) = Zrl!Cardinality(zr_ref) - 1
  BY <1>0, FS_RemoveElement, ZrlCardinality
<1>3. /\ Zrl!Cardinality(zr_ref) \in Nat
      /\ Zrl!Cardinality(zr_ref) = 0 <=> zr_ref = {}
  BY <1>0, FS_EmptySet, FS_CardinalityType, ZrlCardinality
<1>4. CASE UNCHANGED Zrl!vars
  BY <1>4, <1>0 DEF Zrl!vars, Zrl!ZrlInv, Zrl!TypeOK, Zrl!Owner
<1>5. CASE Zrl!Next
  <2> PICK t \in Threads :
        \/ Zrl!zrl_add_impl(t) \/ Zrl!AddStep(t) \/ Zrl!DropRef(t)
        \/ Zrl!zrl_tryenter(t) \/ Zrl!LockStep(t) \/ Zrl!SpuriousWake(t)
    BY <1>5 DEF Zrl!Next
  <2>1. CASE Zrl!zrl_add_impl(t)
    BY <2>1, <1>0 DEF Zrl!zrl_add_impl, Zrl!AddTest, Zrl!ZrlInv, Zrl!TypeOK, Zrl!Owner, Zrl!Places
  <2>2. CASE Zrl!AddCas(t) /\ zr_refcount = zr_n[t]
    <3>1. PICK s \in Slots : <<t, s>> \notin zr_ref /\ zr_ref' = zr_ref \cup {<<t, s>>}
      BY <2>2 DEF Zrl!AddCas
    <3>2. /\ zr_pc[t] = "cas" /\ zr_pc' = [zr_pc EXCEPT ![t] = "none"]
          /\ zr_refcount' = zr_refcount + 1 /\ zr_refcount >= 0 /\ zr_n' = zr_n
          /\ zr_mtx' = zr_mtx /\ zr_asleep' = zr_asleep
      BY <2>2, <1>0 DEF Zrl!AddCas, Zrl!ZrlInv
    <3>3. <<t, s>> \in Zrl!Refs
      BY DEF Zrl!Refs
    <3>4. Zrl!Cardinality(zr_ref') = Zrl!Cardinality(zr_ref) + 1 /\ Zrl!IsFiniteSet(zr_ref')
      BY <3>1, <3>3, <1>1
    <3>5. Zrl!TypeOK'
      BY <3>1, <3>2, <3>3, <1>0 DEF Zrl!TypeOK, Zrl!Places
    <3>6. zr_refcount' >= 0 /\ zr_refcount' = Zrl!Cardinality(zr_ref') /\ zr_refcount' # -1
      BY <3>2, <3>4, <1>0 DEF Zrl!ZrlInv, Zrl!TypeOK
    <3>7. \A u \in Threads : ~ Zrl!Owner(u) /\ ~ Zrl!Owner(u)'
      BY <3>2, <1>0 DEF Zrl!ZrlInv, Zrl!TypeOK, Zrl!Owner
    <3>8. \A u \in Threads : zr_pc'[u] = "cas" => zr_n'[u] >= 0
      BY <3>2, <1>0 DEF Zrl!ZrlInv, Zrl!TypeOK
    <3>9. \A u \in Threads : zr_pc'[u] \in {"cas", "mtx", "check", "sleep"}
                               => \E i \in Slots : <<u, i>> \notin zr_ref'
      BY <3>1, <3>2, <1>0 DEF Zrl!ZrlInv, Zrl!TypeOK
    <3> QED BY <3>4, <3>5, <3>6, <3>7, <3>8, <3>9 DEF Zrl!ZrlInv
  <2>3. CASE Zrl!AddCas(t) /\ zr_refcount # zr_n[t]
    BY <2>3, <1>0 DEF Zrl!AddCas, Zrl!AddTest, Zrl!ZrlInv, Zrl!TypeOK, Zrl!Owner, Zrl!Places
  <2>4. CASE Zrl!AddMutex(t)
    BY <2>4, <1>0 DEF Zrl!AddMutex, Zrl!ZrlInv, Zrl!TypeOK, Zrl!Owner, Zrl!Places
  <2>5. CASE Zrl!AddCheck(t)
    BY <2>5, <1>0 DEF Zrl!AddCheck, Zrl!AddTest, Zrl!ZrlInv, Zrl!TypeOK, Zrl!Owner, Zrl!Places
  <2>6. CASE Zrl!AddSleep(t)
    BY <2>6, <1>0 DEF Zrl!AddSleep, Zrl!ZrlInv, Zrl!TypeOK, Zrl!Owner, Zrl!Places
  <2>7. CASE Zrl!DropRef(t)
    <3>1. PICK s \in Slots : Zrl!zrl_remove(t, s)
      BY <2>7 DEF Zrl!DropRef
    <3>2. /\ zr_ref' = zr_ref \ {<<t, s>>} /\ <<t, s>> \in zr_ref /\ zr_refcount' = zr_refcount - 1
          /\ zr_pc' = zr_pc /\ zr_n' = zr_n /\ zr_mtx' = zr_mtx /\ zr_asleep' = zr_asleep
      BY <3>1 DEF Zrl!zrl_remove
    <3>3. Zrl!Cardinality(zr_ref') = Zrl!Cardinality(zr_ref) - 1 /\ Zrl!IsFiniteSet(zr_ref')
      BY <3>2, <1>2
    <3>4. zr_refcount # -1 /\ zr_refcount >= 0 /\ zr_refcount = Zrl!Cardinality(zr_ref) /\ zr_refcount # 0
      BY <3>2, <1>0, <1>3 DEF Zrl!ZrlInv, Zrl!TypeOK
    <3>5. zr_refcount' >= 0 /\ zr_refcount' = Zrl!Cardinality(zr_ref') /\ zr_refcount' # -1
      BY <3>2, <3>3, <3>4, <1>3
    <3> QED BY <3>2, <3>3, <3>4, <3>5, <1>0 DEF Zrl!ZrlInv, Zrl!TypeOK, Zrl!Owner
  <2>8. CASE Zrl!zrl_tryenter(t)
    BY <2>8, <1>0 DEF Zrl!zrl_tryenter, Zrl!ZrlInv, Zrl!TypeOK, Zrl!Owner, Zrl!Places
  <2>9. CASE Zrl!TryCas(t)
    BY <2>9, <1>0, <1>3 DEF Zrl!TryCas, Zrl!ZrlInv, Zrl!TypeOK, Zrl!Owner, Zrl!Places
  <2>10. CASE Zrl!zrl_exit(t)
    BY <2>10, <1>0 DEF Zrl!zrl_exit, Zrl!ZrlInv, Zrl!TypeOK, Zrl!Owner, Zrl!Places
  <2>11. CASE Zrl!ExitStore(t)
    <3>1. zr_refcount = -1 /\ zr_ref = {} /\ zr_pc[t] = "store"
      BY <2>11, <1>0 DEF Zrl!ExitStore, Zrl!ZrlInv, Zrl!Owner
    <3> QED BY <2>11, <3>1, <1>0, <1>3 DEF Zrl!ExitStore, Zrl!ZrlInv, Zrl!TypeOK, Zrl!Owner, Zrl!Places
  <2>12. CASE Zrl!ExitWake(t)
    BY <2>12, <1>0 DEF Zrl!ExitWake, Zrl!ZrlInv, Zrl!TypeOK, Zrl!Owner, Zrl!Places
  <2>13. CASE Zrl!SpuriousWake(t)
    BY <2>13, <1>0 DEF Zrl!SpuriousWake, Zrl!ZrlInv, Zrl!TypeOK, Zrl!Owner
  <2> QED BY <2>1, <2>2, <2>3, <2>4, <2>5, <2>6, <2>7, <2>8, <2>9, <2>10, <2>11, <2>12, <2>13
        DEF Zrl!AddStep, Zrl!LockStep
<1> QED BY <1>4, <1>5

\* Every step keeps the mutex with the thread that is in its section, and a sleeper
\* with somebody to wake it.
LEMMA ZrlSleeps == Zrl!ZrlSleepInv /\ [Zrl!Next]_Zrl!vars => Zrl!ZrlMutexInv' /\ Zrl!SleepersAwaited'
<1> SUFFICES ASSUME Zrl!ZrlSleepInv, [Zrl!Next]_Zrl!vars PROVE Zrl!ZrlMutexInv' /\ Zrl!SleepersAwaited'
  OBVIOUS
<1> USE DEF Zrl!At, Zrl!Go, Zrl!ZRL_LOCKED, Zrl!ZrlMutexInv, Zrl!SleepersAwaited
<1>0. /\ Zrl!ZrlMutexInv /\ Zrl!SleepersAwaited /\ zr_pc \in [Threads -> Zrl!Places]
      /\ zr_asleep \in SUBSET Threads /\ zr_mtx \in Threads \cup {NoThread}
      /\ zr_refcount = -1 => \E u \in Threads : zr_pc[u] \in {"locked", "store"}
  BY DEF Zrl!ZrlSleepInv, Zrl!ZrlInv, Zrl!TypeOK, Zrl!Owner
<1>4. CASE UNCHANGED Zrl!vars
  BY <1>4, <1>0 DEF Zrl!vars
<1>5. CASE Zrl!Next
  <2> PICK t \in Threads :
        \/ Zrl!zrl_add_impl(t) \/ Zrl!AddStep(t) \/ Zrl!DropRef(t)
        \/ Zrl!zrl_tryenter(t) \/ Zrl!LockStep(t) \/ Zrl!SpuriousWake(t)
    BY <1>5 DEF Zrl!Next
  <2>1. CASE Zrl!zrl_add_impl(t)
    BY <2>1, <1>0 DEF Zrl!zrl_add_impl, Zrl!AddTest
  <2>2. CASE Zrl!AddCas(t)
    BY <2>2, <1>0 DEF Zrl!AddCas, Zrl!AddTest
  <2>4. CASE Zrl!AddMutex(t)
    BY <2>4, <1>0, ThreadsAssumption DEF Zrl!AddMutex
  <2>5. CASE Zrl!AddCheck(t)
    <3>1. zr_mtx = t /\ \A u \in Threads : zr_pc[u] # "store"
      BY <2>5, <1>0 DEF Zrl!AddCheck
    <3> QED BY <3>1, <2>5, <1>0, ThreadsAssumption DEF Zrl!AddCheck, Zrl!AddTest
  <2>6. CASE Zrl!AddSleep(t)
    BY <2>6, <1>0, ThreadsAssumption DEF Zrl!AddSleep
  <2>7. CASE Zrl!DropRef(t)
    BY <2>7, <1>0 DEF Zrl!DropRef, Zrl!zrl_remove
  <2>8. CASE Zrl!zrl_tryenter(t)
    BY <2>8, <1>0 DEF Zrl!zrl_tryenter
  <2>9. CASE Zrl!TryCas(t)
    BY <2>9, <1>0 DEF Zrl!TryCas
  <2>10. CASE Zrl!zrl_exit(t)
    BY <2>10, <1>0, ThreadsAssumption DEF Zrl!zrl_exit
  <2>11. CASE Zrl!ExitStore(t)
    BY <2>11, <1>0 DEF Zrl!ExitStore
  <2>12. CASE Zrl!ExitWake(t)
    BY <2>12, <1>0, ThreadsAssumption DEF Zrl!ExitWake
  <2>13. CASE Zrl!SpuriousWake(t)
    BY <2>13, <1>0 DEF Zrl!SpuriousWake
  <2> QED BY <2>1, <2>2, <2>4, <2>5, <2>6, <2>7, <2>8, <2>9, <2>10, <2>11, <2>12, <2>13
        DEF Zrl!AddStep, Zrl!LockStep
<1> QED BY <1>4, <1>5

\* zr_refcount, changed without a lock, is the number of references or says that the lock is
\* taken, never both; and no wake-up of zrl_exit is lost.
THEOREM ZrlInvariance == Zrl!Spec => [](Zrl!ZrlInv /\ Zrl!SleepersAwaited)
<1>1. Zrl!Init => Zrl!ZrlSleepInv
  <2> SUFFICES ASSUME Zrl!Init PROVE Zrl!ZrlSleepInv
    OBVIOUS
  <2>1. Zrl!IsFiniteSet(zr_ref) /\ Zrl!Cardinality(zr_ref) = 0
    BY FS_EmptySet, ZrlCardinality DEF Zrl!Init
  <2>2. Zrl!ZrlInv
    BY <2>1 DEF Zrl!Init, Zrl!ZrlInv, Zrl!TypeOK, Zrl!Places, Zrl!Owner, Zrl!ZRL_LOCKED
  <2> QED BY <2>1, <2>2, ThreadsAssumption DEF Zrl!Init, Zrl!ZrlSleepInv, Zrl!ZrlMutexInv, Zrl!SleepersAwaited
<1>2. Zrl!ZrlSleepInv /\ [Zrl!Next]_Zrl!vars => Zrl!ZrlSleepInv'
  BY ZrlCounts, ZrlSleeps DEF Zrl!ZrlSleepInv
<1>3. Zrl!ZrlSleepInv => Zrl!ZrlInv /\ Zrl!SleepersAwaited
  BY DEF Zrl!ZrlSleepInv
<1> QED BY <1>1, <1>2, <1>3, PTL DEF Zrl!Spec

\* The lock of zrlock.c implements the abstract reader-writer lock: zrl_tryenter succeeds only
\* when there is no reference, and no reference is taken until zrl_exit.
THEOREM ZrlRefinement == Zrl!Spec => Zrl!ImplementsRWLock
<1> DEFINE W == IF \E t \in Threads : Zrl!Owner(t) THEN CHOOSE t \in Threads : Zrl!Owner(t) ELSE NoThread
<1>1. Zrl!Init => Zrl!RW!Init
  BY DEF Zrl!Init, Zrl!RW!Init, Zrl!Owner
<1>2. Zrl!ZrlInv /\ Zrl!ZrlInv' /\ [Zrl!Next]_Zrl!vars => [Zrl!RW!Next]_Zrl!RW!lockVars
  <2> SUFFICES ASSUME Zrl!ZrlInv, Zrl!ZrlInv', [Zrl!Next]_Zrl!vars
               PROVE  Zrl!RW!Next \/ (zr_ref' = zr_ref /\ W' = W)
    BY DEF Zrl!RW!lockVars
  <2> USE DEF Zrl!At, Zrl!Go, Zrl!ZRL_LOCKED
  <2>0. zr_pc \in [Threads -> Zrl!Places] /\ zr_ref \subseteq Zrl!Refs /\ zr_refcount \in Int
    BY DEF Zrl!ZrlInv, Zrl!TypeOK
  <2>1. /\ \A t \in Threads : Zrl!Owner(t) => W = t
        /\ (\A t \in Threads : ~ Zrl!Owner(t)) => W = NoThread
    BY DEF Zrl!ZrlInv
  <2>2. /\ \A t \in Threads : Zrl!Owner(t)' => W' = t
        /\ (\A t \in Threads : ~ Zrl!Owner(t)') => W' = NoThread
    BY DEF Zrl!ZrlInv
  <2>3. ASSUME \A t \in Threads : Zrl!Owner(t)' <=> Zrl!Owner(t) PROVE W' = W
    BY <2>1, <2>2, <2>3
  <2>a. CASE UNCHANGED Zrl!vars
    BY <2>a, <2>3 DEF Zrl!vars, Zrl!Owner
  <2>b. CASE Zrl!Next
    <3> PICK t \in Threads :
          \/ Zrl!zrl_add_impl(t) \/ Zrl!AddStep(t) \/ Zrl!DropRef(t)
          \/ Zrl!zrl_tryenter(t) \/ Zrl!LockStep(t) \/ Zrl!SpuriousWake(t)
      BY <2>b DEF Zrl!Next
    <3>1. CASE Zrl!AddCas(t) /\ zr_refcount = zr_n[t]
      <4>1. PICK s \in Slots : <<t, s>> \notin zr_ref /\ zr_ref' = zr_ref \cup {<<t, s>>}
        BY <3>1 DEF Zrl!AddCas
      <4>2. \A u \in Threads : ~ Zrl!Owner(u) /\ ~ Zrl!Owner(u)'
        BY <3>1, <2>0 DEF Zrl!AddCas, Zrl!ZrlInv, Zrl!Owner
      <4>3. <<t, s>> \in Zrl!Refs /\ W = NoThread /\ W' = W
        BY <4>2, <2>1, <2>2 DEF Zrl!Refs
      <4>4. Zrl!RW!AcquireRead(<<t, s>>)
        BY <4>1, <4>3 DEF Zrl!RW!AcquireRead
      <4> QED BY <4>3, <4>4 DEF Zrl!RW!Next
    <3>2. CASE Zrl!DropRef(t)
      <4>1. PICK s \in Slots : Zrl!zrl_remove(t, s)
        BY <3>2 DEF Zrl!DropRef
      <4>2. <<t, s>> \in zr_ref /\ zr_ref' = zr_ref \ {<<t, s>>} /\ W' = W
        BY <4>1, <2>3 DEF Zrl!zrl_remove, Zrl!Owner
      <4>3. Zrl!RW!ReleaseRead(<<t, s>>)
        BY <4>2 DEF Zrl!RW!ReleaseRead
      <4> QED BY <4>2, <4>3, <2>0 DEF Zrl!RW!Next
    <3>3. CASE Zrl!TryCas(t) /\ zr_refcount = 0
      <4>1. zr_refcount' = -1 /\ zr_ref' = zr_ref /\ Zrl!Owner(t)'
        BY <3>3, <2>0 DEF Zrl!TryCas, Zrl!Owner
      <4>2. zr_ref = {} /\ \A u \in Threads : ~ Zrl!Owner(u)
        BY <4>1, <3>3 DEF Zrl!ZrlInv
      <4>3. Zrl!RW!AcquireWrite(t)
        BY <4>1, <4>2, <2>1, <2>2 DEF Zrl!RW!AcquireWrite
      <4> QED BY <4>3 DEF Zrl!RW!Next
    <3>4. CASE Zrl!ExitStore(t)
      <4>1. Zrl!Owner(t) /\ zr_refcount' = 0 /\ zr_ref' = zr_ref
        BY <3>4 DEF Zrl!ExitStore, Zrl!Owner
      <4>2. \A u \in Threads : ~ Zrl!Owner(u)'
        BY <4>1 DEF Zrl!ZrlInv
      <4>3. Zrl!RW!ReleaseWrite
        BY <4>1, <4>2, <2>1, <2>2, ThreadsAssumption DEF Zrl!RW!ReleaseWrite
      <4> QED BY <4>3 DEF Zrl!RW!Next
    <3>5. CASE \/ Zrl!zrl_add_impl(t) \/ (Zrl!AddCas(t) /\ zr_refcount # zr_n[t]) \/ Zrl!AddMutex(t)
               \/ Zrl!AddCheck(t) \/ Zrl!AddSleep(t) \/ Zrl!zrl_tryenter(t)
               \/ (Zrl!TryCas(t) /\ zr_refcount # 0) \/ Zrl!zrl_exit(t) \/ Zrl!ExitWake(t)
               \/ Zrl!SpuriousWake(t)
      <4>1. zr_ref' = zr_ref /\ \A u \in Threads : Zrl!Owner(u)' <=> Zrl!Owner(u)
        BY <3>5, <2>0 DEF Zrl!zrl_add_impl, Zrl!AddTest, Zrl!AddCas, Zrl!AddMutex, Zrl!AddCheck, Zrl!AddSleep,
             Zrl!zrl_tryenter, Zrl!TryCas, Zrl!zrl_exit, Zrl!ExitWake, Zrl!SpuriousWake, Zrl!Owner
      <4> QED BY <4>1, <2>3
    <3> QED BY <3>1, <3>2, <3>3, <3>4, <3>5 DEF Zrl!AddStep, Zrl!LockStep
  <2> QED BY <2>a, <2>b
<1> QED BY <1>1, <1>2, ZrlInvariance, PTL DEF Zrl!Spec, Zrl!RW!Spec, Zrl!ImplementsRWLock

=============================================================================
