------------------------- MODULE SpaConfigLockProofs --------------------------
(***************************************************************************)
(* Theorems about the configuration locks of spa_misc.c, for any number of *)
(* threads and of locks: the counts are exact, no wake-up is lost, a try   *)
(* takes all its locks or none, and each lock implements the abstract      *)
(* reader-writer lock.  NLocks and the threads are those of Rrwlock, whose *)
(* assumptions about them hold here.                                       *)
(***************************************************************************)
EXTENDS Rrwlock, FiniteSetTheorems, TLAPS

\* Time for the provers, in seconds; the second pair is for a slow machine.
USE ZenonT(3), SMTT(30), ZenonT(40), SMTT(120)

CONSTANTS Writers, Interrupts, Ios
VARIABLES scl_writer, scl_write_wanted, scl_held, scl_call, scl_asleep

Scl == INSTANCE SpaConfigLock WITH held <- scl_held, call <- scl_call, asleep <- scl_asleep

\* The instance has its own copy of the operators of FiniteSets.
LEMMA SclCardinality == \A S : Scl!Cardinality(S) = Cardinality(S)
  BY DEF Scl!Cardinality, Cardinality

\* A set of natural numbers has a least element.
LEMMA Least ==
  ASSUME NEW T \in SUBSET Nat, T # {}
  PROVE  \E x \in T : \A y \in T : x <= y
<1> DEFINE R == {ss \in Nat \X Nat : ss[1] < ss[2]}
<1>1. IsWellFoundedOn(R, Nat)
  BY NatLessThanWellFounded DEF OpToRel
<1>2. \A x, y \in Nat : <<y, x>> \in R <=> y < x
  OBVIOUS
<1> HIDE DEF R
<1>3. PICK x \in T : \A y \in T : ~ (<<y, x>> \in R)
  BY <1>1, WFMin
<1>4. \A y \in T : x \in Nat /\ y \in Nat /\ ~ (y < x)
  BY <1>2, <1>3
<1>5. \A y \in T : x <= y
  BY <1>4
<1> QED BY <1>5

\* The loops of spa_config_enter and spa_config_exit come to a lock they have to visit.
LEMMA SclVisits ==
  ASSUME NEW S \in SUBSET Scl!Locks, S # {}
  PROVE  Scl!First(S) \in S /\ Scl!Max(S) \in S
<1>1. S \subseteq Nat /\ NLocks \in Nat /\ \A x \in S : x <= NLocks
  BY RrwlockAssumption DEF Scl!Locks
<1>2. Scl!First(S) \in S
  <2>1. \E x \in S : \A y \in S : x <= y
    BY <1>1, Least
  <2> QED BY <2>1 DEF Scl!First, Scl!Min
<1>3. Scl!Max(S) \in S
  <2> DEFINE D == {d \in Nat : NLocks - d \in S}
  <2>1. PICK s \in S : TRUE
    OBVIOUS
  <2>2. s \in Nat /\ NLocks - s \in Nat /\ NLocks - (NLocks - s) = s
    BY <1>1, <2>1
  <2>3. NLocks - s \in D
    BY <2>1, <2>2
  <2>4. PICK d \in D : \A e \in D : d <= e
    BY <2>3, Least
  <2>5. NLocks - d \in S /\ d \in Nat
    BY <2>4
  <2>6. ASSUME NEW y \in S PROVE NLocks - d >= y
    <3>1. y \in Nat /\ NLocks - y \in Nat /\ NLocks - (NLocks - y) = y
      BY <1>1
    <3>2. NLocks - y \in D
      BY <3>1
    <3>3. d <= NLocks - y
      BY <3>2, <2>4
    <3> QED BY <3>1, <3>3, <2>5, <1>1
  <2>7. \E x \in S : \A y \in S : x >= y
    BY <2>5, <2>6
  <2> QED BY <2>7 DEF Scl!Max
<1> QED BY <1>2, <1>3

\* Only t's call changes.
OnlyCall(t) == scl_call' \in [Threads -> Scl!Call] /\ \A u \in Threads \ {t} : scl_call'[u] = scl_call[u]

\* The calls that wait for a lock as writers are finitely many.
LEMMA SclWantingFinite ==
  ASSUME NEW i
  PROVE  IsFiniteSet(Scl!Wanting(i)) /\ Scl!Cardinality(Scl!Wanting(i)) \in Nat
  BY ThreadsAssumption, FS_Subset, FS_CardinalityType, SclCardinality DEF Scl!Wanting

\* A call that does not begin or end to wait as a writer leaves the counts alone.
LEMMA SclWantingSame ==
  ASSUME NEW t \in Threads, OnlyCall(t), scl_call'[t].counted = scl_call[t].counted,
         scl_call[t].counted => scl_call'[t].todo = scl_call[t].todo, NEW j
  PROVE  Scl!Wanting(j)' = Scl!Wanting(j)
  BY DEF OnlyCall, Scl!Wanting, Scl!First

\* One that begins to wait as a writer for lock i is one more there.
LEMMA SclWantingMore ==
  ASSUME NEW t \in Threads, OnlyCall(t), ~ scl_call[t].counted, scl_call'[t].counted,
         scl_call'[t].todo = scl_call[t].todo, NEW j
  PROVE  Scl!Cardinality(Scl!Wanting(j)')
           = Scl!Cardinality(Scl!Wanting(j)) + (IF j = Scl!First(scl_call[t].todo) THEN 1 ELSE 0)
<1>1. CASE j = Scl!First(scl_call[t].todo)
  <2>1. Scl!Wanting(j)' = Scl!Wanting(j) \cup {t} /\ t \notin Scl!Wanting(j)
    BY <1>1 DEF OnlyCall, Scl!Wanting, Scl!First
  <2>2. Scl!Cardinality(Scl!Wanting(j)') = Scl!Cardinality(Scl!Wanting(j)) + 1
    BY <2>1, FS_AddElement, SclWantingFinite, SclCardinality
  <2> QED BY <1>1, <2>2
<1>2. CASE j # Scl!First(scl_call[t].todo)
  <2>1. Scl!Wanting(j)' = Scl!Wanting(j)
    BY <1>2 DEF OnlyCall, Scl!Wanting, Scl!First
  <2> QED BY <1>2, <2>1, SclWantingFinite
<1> QED BY <1>1, <1>2

\* One that waited for it and gets it is one less.
LEMMA SclWantingLess ==
  ASSUME NEW t \in Threads, OnlyCall(t), scl_call[t].counted, ~ scl_call'[t].counted, NEW j
  PROVE  /\ Scl!Cardinality(Scl!Wanting(j)')
              = Scl!Cardinality(Scl!Wanting(j)) - (IF j = Scl!First(scl_call[t].todo) THEN 1 ELSE 0)
         /\ Scl!Cardinality(Scl!Wanting(j)') \in Nat
<1>0. Scl!Cardinality(Scl!Wanting(j)') \in Nat
  <2>1. IsFiniteSet(Scl!Wanting(j)')
    <3>1. Scl!Wanting(j)' \subseteq Threads
      BY DEF Scl!Wanting
    <3> QED BY <3>1, ThreadsAssumption, FS_Subset
  <2> QED BY <2>1, FS_CardinalityType, SclCardinality
<1>1. CASE j = Scl!First(scl_call[t].todo)
  <2>1. Scl!Wanting(j)' = Scl!Wanting(j) \ {t} /\ t \in Scl!Wanting(j)
    BY <1>1 DEF OnlyCall, Scl!Wanting, Scl!First
  <2>2. Scl!Cardinality(Scl!Wanting(j)') = Scl!Cardinality(Scl!Wanting(j)) - 1
    BY <2>1, FS_RemoveElement, SclWantingFinite, SclCardinality
  <2> QED BY <1>0, <1>1, <2>2
<1>2. CASE j # Scl!First(scl_call[t].todo)
  <2>1. Scl!Wanting(j)' = Scl!Wanting(j)
    BY <1>2 DEF OnlyCall, Scl!Wanting, Scl!First
  <2> QED BY <1>0, <1>2, <2>1, SclWantingFinite
<1> QED BY <1>1, <1>2

\* A call begins: spa_config_enter, spa_config_tryenter or spa_config_exit.
LEMMA SclBegin ==
  ASSUME Scl!SclCallInv, NEW t \in Threads, NEW tag \in Scl!HoldTags, NEW locks \in SUBSET Scl!Locks,
         NEW rw \in {"RW_READER", "RW_WRITER"},
         \/ Scl!spa_config_enter(t, locks, rw, tag) \/ Scl!spa_config_tryenter(t, locks, rw, tag)
         \/ Scl!spa_config_exit(t, locks, tag)
  PROVE  Scl!SclCallInv'
<1>0. Scl!TypeOK /\ Scl!CallInv /\ Scl!SclInv /\ Scl!OnlyHeldGivenBack
  BY DEF Scl!SclCallInv
<1>1. scl_call \in [Threads -> Scl!Call]
  BY <1>0 DEF Scl!TypeOK
<1>2. /\ scl_call[t].op = "none" /\ locks # {}
      /\ \A u \in Threads : scl_call[u].op # "none" => scl_call[u].tag # tag
      /\ scl_writer' = scl_writer /\ scl_write_wanted' = scl_write_wanted /\ scl_held' = scl_held
      /\ scl_asleep' = scl_asleep
  BY DEF Scl!spa_config_enter, Scl!spa_config_tryenter, Scl!spa_config_exit, Scl!Start
<1> DEFINE New(c) ==
      /\ c \in Scl!Call /\ c.op # "none" /\ c.tag = tag /\ c.todo = locks /\ c.done = {} /\ c.counted = FALSE
      /\ c.rw = "RW_WRITER" => tag = t
      /\ c.op = "exit" => \A i \in locks : tag \in scl_held[i]
      /\ c.op # "exit" => \A i \in locks : tag \notin scl_held[i]
<1>3. PICK c \in Scl!Call : New(c) /\ scl_call' = [scl_call EXCEPT ![t] = c]
  <2>0. Scl!Idle(t) \in Scl!Call
    BY DEF Scl!Idle, Scl!Call, Scl!HoldTags
  <2>1. CASE Scl!spa_config_exit(t, locks, tag)
    <3>1. PICK c : c = [Scl!Idle(t) EXCEPT !.op = "exit", !.tag = tag, !.todo = locks]
      OBVIOUS
    <3>2. c \in Scl!Call
      BY <3>1, <2>0 DEF Scl!Call
    <3>3. c.op = "exit" /\ c.rw = "RW_READER" /\ c.tag = tag /\ c.todo = locks /\ c.done = {} /\ c.counted = FALSE
      BY <3>1 DEF Scl!Idle
    <3>4. scl_call' = [scl_call EXCEPT ![t] = c] /\ \A i \in locks : tag \in scl_held[i]
      BY <3>1, <2>1 DEF Scl!spa_config_exit
    <3> QED BY <3>2, <3>3, <3>4
  <2>2. CASE Scl!spa_config_enter(t, locks, rw, tag) \/ Scl!spa_config_tryenter(t, locks, rw, tag)
    <3>1. PICK o \in {"enter", "try"} : Scl!Start(t, o, locks, rw, tag)
      BY <2>2 DEF Scl!spa_config_enter, Scl!spa_config_tryenter
    <3>2. \A i \in locks : i \in Scl!Locks /\ ~ (i > i)
      BY RrwlockAssumption DEF Scl!Locks
    <3>3. \A i \in locks : tag \notin scl_held[i]
      BY <3>1, <3>2 DEF Scl!Start, Scl!InOrder
    <3>4. PICK c : c = [Scl!Idle(t) EXCEPT !.op = o, !.rw = rw, !.tag = tag, !.todo = locks]
      OBVIOUS
    <3>5. c \in Scl!Call
      BY <3>4, <2>0 DEF Scl!Call
    <3>6. c.op = o /\ c.rw = rw /\ c.tag = tag /\ c.todo = locks /\ c.done = {} /\ c.counted = FALSE
      BY <3>4 DEF Scl!Idle
    <3>7. scl_call' = [scl_call EXCEPT ![t] = c] /\ (rw = "RW_WRITER" => tag = t)
      BY <3>1, <3>4 DEF Scl!Start
    <3> QED BY <3>3, <3>5, <3>6, <3>7
  <2> QED BY <2>1, <2>2
<1>4. scl_call'[t] = c /\ scl_call' \in [Threads -> Scl!Call] /\ \A u \in Threads \ {t} : scl_call'[u] = scl_call[u]
  BY <1>1, <1>3
<1>5. New(scl_call'[t])
  BY <1>3, <1>4
<1>6. t \notin scl_asleep /\ ~ scl_call[t].counted /\ scl_call[t].counted = FALSE
  BY <1>0, <1>1, <1>2 DEF Scl!CallInv, Scl!Call
<1>7. \A i : Scl!Wanting(i)' = Scl!Wanting(i)
  BY <1>4, <1>5, <1>6, SclWantingSame DEF OnlyCall
<1>8. Scl!TypeOK'
  BY <1>0, <1>2, <1>4 DEF Scl!TypeOK
<1>9. Scl!CallInv'
  BY <1>0, <1>2, <1>4, <1>5, <1>6 DEF Scl!CallInv
<1>10. Scl!SclInv'
  BY <1>0, <1>2, <1>4, <1>6, <1>7 DEF Scl!SclInv, Scl!First, Scl!TypeOK
<1>11. Scl!OnlyHeldGivenBack'
  BY <1>0, <1>2, <1>4, <1>5 DEF Scl!OnlyHeldGivenBack
<1> QED BY <1>8, <1>9, <1>10, <1>11 DEF Scl!SclCallInv

\* What is left of a call when lock i was visited.
LEMMA SclVisited ==
  ASSUME NEW t \in Threads, scl_call[t] \in Scl!Call, NEW i \in scl_call[t].todo
  PROVE  /\ Scl!Visited(t, i) \in Scl!Call /\ Scl!Visited(t, i).counted = FALSE
         /\ Scl!Visited(t, i).todo = scl_call[t].todo \ {i}
         /\ scl_call[t].todo = {i} =>
              Scl!Visited(t, i).op = "none" /\ Scl!Visited(t, i).rw = "RW_READER" /\ Scl!Visited(t, i).done = {}
         /\ scl_call[t].todo # {i} =>
              /\ Scl!Visited(t, i).op = scl_call[t].op /\ Scl!Visited(t, i).rw = scl_call[t].rw
              /\ Scl!Visited(t, i).tag = scl_call[t].tag
              /\ Scl!Visited(t, i).done = scl_call[t].done \cup {i}
<1>1. CASE scl_call[t].todo = {i}
  <2>1. Scl!Visited(t, i) = Scl!Idle(t)
    BY <1>1 DEF Scl!Visited
  <2>2. Scl!Idle(t) \in Scl!Call
    BY DEF Scl!Idle, Scl!Call, Scl!HoldTags
  <2> QED BY <1>1, <2>1, <2>2 DEF Scl!Idle
<1>2. CASE scl_call[t].todo # {i}
  <2>1. Scl!Visited(t, i) = [scl_call[t] EXCEPT !.todo = scl_call[t].todo \ {i},
                               !.done = scl_call[t].done \cup {i}, !.counted = FALSE]
    BY <1>2 DEF Scl!Visited
  <2>2. Scl!Visited(t, i) \in Scl!Call
    <3>1. scl_call[t].todo \ {i} \in SUBSET Scl!Locks /\ scl_call[t].done \cup {i} \in SUBSET Scl!Locks
      BY DEF Scl!Call
    <3> QED BY <2>1, <3>1 DEF Scl!Call
  <2> QED BY <1>2, <2>1, <2>2 DEF Scl!Call
<1> QED BY <1>1, <1>2

\* A turn of the loop of spa_config_enter that has to wait.
LEMMA SclWait ==
  ASSUME Scl!SclCallInv, NEW t \in Threads, Scl!EnterLock(t),
         Scl!Blocked(Scl!First(scl_call[t].todo), scl_call[t].rw)
  PROVE  Scl!SclCallInv'
<1>0. Scl!TypeOK /\ Scl!CallInv /\ Scl!SclInv /\ Scl!OnlyHeldGivenBack
  BY DEF Scl!SclCallInv
<1>1. PICK i : i = Scl!First(scl_call[t].todo)
  OBVIOUS
<1>2. PICK w \in BOOLEAN : w = (scl_call[t].rw = "RW_WRITER")
  OBVIOUS
<1>3. /\ scl_call[t].op = "enter" /\ scl_asleep' = scl_asleep \cup {t} /\ Scl!Blocked(i, scl_call[t].rw)
      /\ scl_writer' = scl_writer /\ scl_held' = scl_held
      /\ scl_call' = [scl_call EXCEPT ![t].counted = w]
      /\ scl_write_wanted' = [scl_write_wanted EXCEPT ![i] = IF w THEN Scl!WantedAfterWait(t, i) + 1 ELSE @]
  BY <1>1, <1>2 DEF Scl!EnterLock, Scl!At
<1>4. scl_call \in [Threads -> Scl!Call] /\ scl_write_wanted \in [Scl!Locks -> Nat] /\ scl_call[t].counted \in BOOLEAN
  BY <1>0 DEF Scl!TypeOK, Scl!Call
<1>5. i \in scl_call[t].todo /\ i \in Scl!Locks
  <2>1. scl_call[t].todo # {} /\ scl_call[t].todo \in SUBSET Scl!Locks
    BY <1>0, <1>3, <1>4 DEF Scl!CallInv, Scl!Call
  <2> QED BY <2>1, <1>1, SclVisits
<1>6. /\ scl_call'[t].op = "enter" /\ scl_call'[t].rw = scl_call[t].rw /\ scl_call'[t].tag = scl_call[t].tag
      /\ scl_call'[t].todo = scl_call[t].todo /\ scl_call'[t].done = scl_call[t].done /\ scl_call'[t].counted = w
      /\ \A u \in Threads \ {t} : scl_call'[u] = scl_call[u]
  BY <1>3, <1>4 DEF Scl!Call
<1>7. scl_call' \in [Threads -> Scl!Call]
  BY <1>3, <1>4 DEF Scl!Call
<1>8. \A j \in Scl!Locks : scl_write_wanted'[j] = Scl!Cardinality(Scl!Wanting(j)')
  <2>0. \A j \in Scl!Locks : scl_write_wanted[j] = Scl!Cardinality(Scl!Wanting(j))
    BY <1>0 DEF Scl!SclInv
  <2>1. CASE w = scl_call[t].counted
    <3>1. \A j : Scl!Wanting(j)' = Scl!Wanting(j)
      BY <1>6, <1>7, <2>1, SclWantingSame DEF OnlyCall
    <3>2. scl_write_wanted' = scl_write_wanted
      BY <1>3, <1>4, <1>5, <2>1 DEF Scl!WantedAfterWait
    <3> QED BY <2>0, <3>1, <3>2
  <2>2. CASE w /\ ~ scl_call[t].counted
    <3>1. \A j : Scl!Cardinality(Scl!Wanting(j)') = Scl!Cardinality(Scl!Wanting(j)) + (IF j = i THEN 1 ELSE 0)
      BY <1>1, <1>6, <1>7, <2>2, SclWantingMore DEF OnlyCall
    <3>2. \A j \in Scl!Locks : scl_write_wanted'[j] = scl_write_wanted[j] + (IF j = i THEN 1 ELSE 0)
      BY <1>3, <1>4, <1>5, <2>2 DEF Scl!WantedAfterWait
    <3> QED BY <2>0, <3>1, <3>2
  <2>3. ~ (~ w /\ scl_call[t].counted)
    BY <1>0, <1>2 DEF Scl!CallInv
  <2> QED BY <2>1, <2>2, <2>3, <1>4
<1>9. \A j \in Scl!Locks : scl_write_wanted'[j] \in Nat /\ scl_write_wanted'[j] >= scl_write_wanted[j]
  <2>1. \A j \in Scl!Locks : scl_write_wanted'[j]
          = scl_write_wanted[j] + (IF j = i /\ w /\ ~ scl_call[t].counted THEN 1 ELSE 0)
    BY <1>3, <1>4, <1>5 DEF Scl!WantedAfterWait
  <2> QED BY <2>1, <1>4
<1>10. Scl!TypeOK'
  <2>1. scl_write_wanted' \in [Scl!Locks -> Nat]
    BY <1>3, <1>4, <1>9
  <2> QED BY <1>0, <1>3, <1>7, <2>1 DEF Scl!TypeOK
<1>11. Scl!CallInv'
  <2>1. scl_call'[t].counted => scl_call'[t].rw = "RW_WRITER"
    BY <1>2, <1>6
  <2> QED BY <1>0, <1>3, <1>6, <2>1 DEF Scl!CallInv
<1>12. Scl!SclInv'
  <2>1. \A u \in Threads : scl_call'[u].todo = scl_call[u].todo /\ scl_call'[u].rw = scl_call[u].rw
    BY <1>6
  <2>2. /\ scl_call[t].rw = "RW_WRITER" => scl_held[i] # {}
        /\ scl_call[t].rw = "RW_READER" => scl_held[i] # {} \/ scl_write_wanted[i] > 0
    BY <1>0, <1>3, <1>5 DEF Scl!Blocked, Scl!SclInv
  <2>3. \A j \in Scl!Locks : scl_write_wanted[j] > 0 => scl_write_wanted'[j] > 0
    BY <1>4, <1>9
  <2>4. scl_asleep \subseteq Threads
    BY <1>0 DEF Scl!TypeOK
  <2> QED BY <1>0, <1>1, <1>3, <1>8, <2>1, <2>2, <2>3, <2>4 DEF Scl!SclInv, Scl!First
<1>13. Scl!OnlyHeldGivenBack'
  BY <1>0, <1>3, <1>6 DEF Scl!OnlyHeldGivenBack
<1> QED BY <1>10, <1>11, <1>12, <1>13 DEF Scl!SclCallInv

\* A turn of the loop of spa_config_enter or spa_config_tryenter that takes the lock.
LEMMA SclGrant ==
  ASSUME Scl!SclCallInv, NEW t \in Threads, Scl!EnterLock(t) \/ Scl!TryLock(t),
         ~ Scl!Blocked(Scl!First(scl_call[t].todo), scl_call[t].rw)
  PROVE  Scl!SclCallInv'
<1>0. Scl!TypeOK /\ Scl!CallInv /\ Scl!SclInv /\ Scl!OnlyHeldGivenBack
  BY DEF Scl!SclCallInv
<1>1. PICK i : i = Scl!First(scl_call[t].todo)
  OBVIOUS
<1>2. /\ scl_call \in [Threads -> Scl!Call] /\ scl_write_wanted \in [Scl!Locks -> Nat]
      /\ scl_held \in [Scl!Locks -> SUBSET Scl!HoldTags] /\ scl_writer \in [Scl!Locks -> Threads \cup {NoThread}]
      /\ scl_asleep \in SUBSET Threads
  BY <1>0 DEF Scl!TypeOK
<1>3. scl_call[t].op \in {"enter", "try"} /\ t \notin scl_asleep
  BY DEF Scl!EnterLock, Scl!TryLock, Scl!At
<1>4. i \in scl_call[t].todo /\ i \in Scl!Locks
  <2>1. scl_call[t].todo # {} /\ scl_call[t].todo \in SUBSET Scl!Locks
    BY <1>0, <1>2, <1>3 DEF Scl!CallInv, Scl!Call
  <2> QED BY <2>1, <1>1, SclVisits
<1>5. /\ scl_writer' = IF scl_call[t].rw = "RW_WRITER" THEN [scl_writer EXCEPT ![i] = t] ELSE scl_writer
      /\ scl_held' = [scl_held EXCEPT ![i] = @ \cup {scl_call[t].tag}]
      /\ scl_call' = [scl_call EXCEPT ![t] = Scl!Visited(t, i)]
      /\ scl_asleep' = scl_asleep
  BY <1>1 DEF Scl!EnterLock, Scl!TryLock, Scl!Grant
<1>6. scl_write_wanted' = [scl_write_wanted EXCEPT ![i] = Scl!WantedAfterWait(t, i)]
  <2>1. CASE Scl!EnterLock(t)
    BY <1>1, <2>1 DEF Scl!EnterLock
  <2>2. CASE Scl!TryLock(t)
    <3>1. scl_write_wanted' = scl_write_wanted /\ ~ scl_call[t].counted
      BY <1>0, <2>2 DEF Scl!TryLock, Scl!At, Scl!CallInv
    <3>2. Scl!WantedAfterWait(t, i) = scl_write_wanted[i]
      BY <3>1, <1>2, <1>4 DEF Scl!WantedAfterWait
    <3> QED BY <3>1, <3>2, <1>2
  <2> QED BY <2>1, <2>2
<1>7. scl_call'[t] = Scl!Visited(t, i) /\ \A u \in Threads \ {t} : scl_call'[u] = scl_call[u]
  BY <1>2, <1>5
<1>8. scl_call[t] \in Scl!Call /\ scl_call[t].tag \in Scl!HoldTags /\ scl_call[t].counted \in BOOLEAN
      /\ scl_call[t].rw \in {"RW_READER", "RW_WRITER"}
  BY <1>2 DEF Scl!Call
<1>9. /\ scl_call' \in [Threads -> Scl!Call] /\ scl_call'[t].counted = FALSE
      /\ scl_call'[t].todo = scl_call[t].todo \ {i}
      /\ scl_call[t].todo = {i} =>
           scl_call'[t].op = "none" /\ scl_call'[t].rw = "RW_READER" /\ scl_call'[t].done = {}
      /\ scl_call[t].todo # {i} =>
           /\ scl_call'[t].op = scl_call[t].op /\ scl_call'[t].rw = scl_call[t].rw
           /\ scl_call'[t].tag = scl_call[t].tag /\ scl_call'[t].done = scl_call[t].done \cup {i}
  BY <1>2, <1>4, <1>5, <1>7, <1>8, SclVisited
<1>10. \A j \in Scl!Locks : /\ scl_write_wanted'[j] = Scl!Cardinality(Scl!Wanting(j)')
                            /\ scl_write_wanted'[j] \in Nat
                            /\ j # i => scl_write_wanted'[j] = scl_write_wanted[j]
  <2>0. \A j \in Scl!Locks : scl_write_wanted[j] = Scl!Cardinality(Scl!Wanting(j))
    BY <1>0 DEF Scl!SclInv
  <2>1. CASE ~ scl_call[t].counted
    <3>1. \A j : Scl!Wanting(j)' = Scl!Wanting(j)
      BY <1>7, <1>8, <1>9, <2>1, SclWantingSame DEF OnlyCall
    <3>2. Scl!WantedAfterWait(t, i) = scl_write_wanted[i]
      BY <2>1, <1>2, <1>4 DEF Scl!WantedAfterWait
    <3> QED BY <2>0, <3>1, <3>2, <1>2, <1>6
  <2>2. CASE scl_call[t].counted
    <3>1. \A j : /\ Scl!Cardinality(Scl!Wanting(j)') = Scl!Cardinality(Scl!Wanting(j)) - (IF j = i THEN 1 ELSE 0)
                 /\ Scl!Cardinality(Scl!Wanting(j)') \in Nat
      BY <1>1, <1>7, <1>9, <2>2, SclWantingLess DEF OnlyCall
    <3>2. \A j \in Scl!Locks : scl_write_wanted'[j] = scl_write_wanted[j] - (IF j = i THEN 1 ELSE 0)
      BY <1>2, <1>4, <1>6, <2>2 DEF Scl!WantedAfterWait
    <3>3. \A j \in Scl!Locks : j # i => scl_write_wanted'[j] = scl_write_wanted[j]
      BY <1>2, <1>6
    <3> QED BY <2>0, <3>1, <3>2, <3>3
  <2> QED BY <2>1, <2>2
<1>11. /\ scl_held'[i] = scl_held[i] \cup {scl_call[t].tag}
       /\ \A j \in Scl!Locks \ {i} : scl_held'[j] = scl_held[j] /\ scl_writer'[j] = scl_writer[j]
  BY <1>2, <1>4, <1>5
<1>12. Scl!TypeOK'
  <2>1. scl_write_wanted' \in [Scl!Locks -> Nat]
    BY <1>2, <1>6, <1>10
  <2>2. scl_held' \in [Scl!Locks -> SUBSET Scl!HoldTags]
    BY <1>2, <1>5, <1>8
  <2>3. scl_writer' \in [Scl!Locks -> Threads \cup {NoThread}]
    BY <1>2, <1>5
  <2> QED BY <1>2, <1>5, <1>9, <2>1, <2>2, <2>3 DEF Scl!TypeOK
<1>13. Scl!CallInv'
  <2>1. scl_call[t].todo # {i} => scl_call[t].todo \ {i} # {}
    BY <1>4
  <2>2. /\ scl_call'[t].todo = {} <=> scl_call'[t].op = "none"
        /\ scl_call'[t].todo \cap scl_call'[t].done = {}
        /\ scl_call'[t].rw = "RW_WRITER" => scl_call'[t].tag = t
    BY <1>0, <1>3, <1>9, <2>1 DEF Scl!CallInv
  <2>3. scl_call'[t].op # "none" => scl_call[t].op # "none" /\ scl_call'[t].tag = scl_call[t].tag
    BY <1>3, <1>9
  <2> QED BY <1>0, <1>3, <1>5, <1>7, <1>9, <2>2, <2>3 DEF Scl!CallInv
<1>14. Scl!SclInv'
  <2>1. /\ scl_call[t].rw = "RW_WRITER" => scl_held'[i] = {t} /\ scl_writer'[i] = t
        /\ scl_call[t].rw = "RW_READER" => scl_writer'[i] = NoThread
    BY <1>0, <1>1, <1>2, <1>4, <1>5, <1>11 DEF Scl!Blocked, Scl!CallInv
  <2>2. \A j \in Scl!Locks : scl_writer'[j] # NoThread => scl_held'[j] = {scl_writer'[j]}
    BY <1>0, <1>8, <1>11, <2>1 DEF Scl!SclInv
  <2>3. \A u \in scl_asleep : u \in Threads /\ scl_call'[u] = scl_call[u]
    BY <1>2, <1>3, <1>7
  <2>4. scl_held'[i] # {}
    BY <1>11
  <2>5. \A u \in scl_asleep : \A j \in Scl!Locks :
          Scl!First(scl_call'[u].todo) = j /\ scl_call'[u].rw = "RW_WRITER" => scl_held'[j] # {}
    BY <1>0, <1>11, <2>3, <2>4 DEF Scl!SclInv
  <2>6. \A u \in scl_asleep : \A j \in Scl!Locks :
          Scl!First(scl_call'[u].todo) = j /\ scl_call'[u].rw = "RW_READER"
            => scl_held'[j] # {} \/ scl_write_wanted'[j] > 0
    BY <1>0, <1>10, <1>11, <2>3, <2>4 DEF Scl!SclInv
  <2> QED BY <1>5, <1>10, <2>2, <2>5, <2>6 DEF Scl!SclInv, Scl!First
<1>15. Scl!OnlyHeldGivenBack'
  <2>1. scl_call'[t].op = "none" \/
          /\ scl_call'[t].op \in {"enter", "try"}
          /\ \A j \in scl_call'[t].todo : scl_call'[t].tag \notin scl_held'[j]
          /\ \A j \in scl_call'[t].done : scl_call'[t].tag \in scl_held'[j]
    <3>1. CASE scl_call[t].todo = {i}
      BY <3>1, <1>9
    <3>2. CASE scl_call[t].todo # {i}
      <4>1. scl_call[t].todo \subseteq Scl!Locks /\ scl_call[t].done \subseteq Scl!Locks
        BY <1>8 DEF Scl!Call
      <4>2. \A j \in scl_call'[t].todo : j \in scl_call[t].todo /\ j \in Scl!Locks \ {i}
        BY <1>9, <4>1
      <4>3. \A j \in scl_call'[t].todo : scl_call'[t].tag \notin scl_held'[j]
        BY <1>0, <1>3, <1>9, <1>11, <3>2, <4>2 DEF Scl!OnlyHeldGivenBack
      <4>4. \A j \in scl_call'[t].done : scl_call'[t].tag \in scl_held'[j]
        BY <1>0, <1>3, <1>9, <1>11, <3>2, <4>1 DEF Scl!OnlyHeldGivenBack
      <4> QED BY <1>3, <1>9, <3>2, <4>3, <4>4
    <3> QED BY <3>1, <3>2
  <2>2. ASSUME NEW u \in Threads \ {t}, scl_call[u].op # "none" PROVE scl_call[u].tag # scl_call[t].tag
    BY <1>0, <1>3, <2>2 DEF Scl!CallInv
  <2>3. \A u \in Threads : scl_call[u].todo \subseteq Scl!Locks /\ scl_call[u].done \subseteq Scl!Locks
    BY <1>2 DEF Scl!Call
  <2>4. \A u \in Threads \ {t} : scl_call[u].op = "exit" =>
          \A j \in scl_call[u].todo : scl_call[u].tag \in scl_held'[j]
    BY <1>0, <1>11, <2>3 DEF Scl!OnlyHeldGivenBack
  <2>5. \A u \in Threads \ {t} : scl_call[u].op \in {"enter", "try"} =>
          /\ \A j \in scl_call[u].todo : scl_call[u].tag \notin scl_held'[j]
          /\ \A j \in scl_call[u].done : scl_call[u].tag \in scl_held'[j]
    BY <1>0, <1>11, <2>2, <2>3 DEF Scl!OnlyHeldGivenBack
  <2> QED BY <1>7, <2>1, <2>4, <2>5 DEF Scl!OnlyHeldGivenBack
<1> QED BY <1>12, <1>13, <1>14, <1>15 DEF Scl!SclCallInv

\* A turn of the loop of spa_config_tryenter that is refused.
LEMMA SclRefuse ==
  ASSUME Scl!SclCallInv, NEW t \in Threads, Scl!TryLock(t),
         Scl!Blocked(Scl!First(scl_call[t].todo), scl_call[t].rw)
  PROVE  Scl!SclCallInv'
<1>0. Scl!TypeOK /\ Scl!CallInv /\ Scl!SclInv /\ Scl!OnlyHeldGivenBack
  BY DEF Scl!SclCallInv
<1>1. scl_call \in [Threads -> Scl!Call] /\ scl_asleep \in SUBSET Threads
  BY <1>0 DEF Scl!TypeOK
<1>2. /\ scl_call[t].op = "try" /\ t \notin scl_asleep
      /\ scl_call' = [scl_call EXCEPT ![t] = Scl!Refused(t)]
      /\ scl_writer' = scl_writer /\ scl_held' = scl_held /\ scl_write_wanted' = scl_write_wanted
      /\ scl_asleep' = scl_asleep
  BY DEF Scl!TryLock, Scl!At
<1>3. PICK c : c = Scl!Refused(t)
  OBVIOUS
<1>4. /\ c \in Scl!Call /\ c.counted = FALSE /\ c.rw = "RW_READER" /\ c.done = {} /\ c.todo = scl_call[t].done
      /\ IF c.todo = {} THEN c.op = "none" ELSE c.op = "exit" /\ c.tag = scl_call[t].tag
  <2>0. Scl!Idle(t) \in Scl!Call /\ scl_call[t] \in Scl!Call
    BY <1>1 DEF Scl!Idle, Scl!Call, Scl!HoldTags
  <2>1. CASE scl_call[t].done = {}
    <3>1. c = Scl!Idle(t)
      BY <1>3, <2>1 DEF Scl!Refused
    <3> QED BY <3>1, <2>0, <2>1 DEF Scl!Idle
  <2>2. CASE scl_call[t].done # {}
    <3>1. c = [Scl!Idle(t) EXCEPT !.op = "exit", !.tag = scl_call[t].tag, !.todo = scl_call[t].done]
      BY <1>3, <2>2 DEF Scl!Refused
    <3>2. c \in Scl!Call
      BY <3>1, <2>0 DEF Scl!Call
    <3> QED BY <2>2, <3>1, <3>2 DEF Scl!Idle
  <2> QED BY <2>1, <2>2
<1>5. scl_call'[t] = c /\ scl_call' \in [Threads -> Scl!Call] /\ \A u \in Threads \ {t} : scl_call'[u] = scl_call[u]
  BY <1>1, <1>2, <1>3, <1>4
<1>6. scl_call[t].counted = FALSE
  BY <1>0, <1>1, <1>2 DEF Scl!CallInv, Scl!Call
<1>7. \A i : Scl!Wanting(i)' = Scl!Wanting(i)
  BY <1>4, <1>5, <1>6, SclWantingSame DEF OnlyCall
<1>8. Scl!TypeOK'
  BY <1>0, <1>2, <1>5 DEF Scl!TypeOK
<1>9. Scl!CallInv'
  <2>1. c.op # "none" => scl_call[t].op # "none" /\ c.tag = scl_call[t].tag
    BY <1>2, <1>4
  <2> QED BY <1>0, <1>2, <1>4, <1>5, <2>1 DEF Scl!CallInv
<1>10. Scl!SclInv'
  <2>1. \A u \in scl_asleep : scl_call'[u] = scl_call[u]
    BY <1>1, <1>2, <1>5
  <2> QED BY <1>0, <1>2, <1>7, <2>1 DEF Scl!SclInv, Scl!First
<1>11. Scl!OnlyHeldGivenBack'
  BY <1>0, <1>2, <1>4, <1>5 DEF Scl!OnlyHeldGivenBack
<1> QED BY <1>8, <1>9, <1>10, <1>11 DEF Scl!SclCallInv

\* A turn of the loop of spa_config_exit.
LEMMA SclExit ==
  ASSUME Scl!SclCallInv, NEW t \in Threads, Scl!ExitLock(t)
  PROVE  Scl!SclCallInv'
<1>0. Scl!TypeOK /\ Scl!CallInv /\ Scl!SclInv /\ Scl!OnlyHeldGivenBack
  BY DEF Scl!SclCallInv
<1>1. PICK i : i = Scl!Max(scl_call[t].todo)
  OBVIOUS
<1>2. /\ scl_call \in [Threads -> Scl!Call] /\ scl_write_wanted \in [Scl!Locks -> Nat]
      /\ scl_held \in [Scl!Locks -> SUBSET Scl!HoldTags] /\ scl_writer \in [Scl!Locks -> Threads \cup {NoThread}]
      /\ scl_asleep \in SUBSET Threads
  BY <1>0 DEF Scl!TypeOK
<1>3. scl_call[t].op = "exit" /\ t \notin scl_asleep /\ scl_write_wanted' = scl_write_wanted
  BY DEF Scl!ExitLock, Scl!At
<1>4. i \in scl_call[t].todo /\ i \in Scl!Locks
  <2>1. scl_call[t].todo # {} /\ scl_call[t].todo \in SUBSET Scl!Locks
    BY <1>0, <1>2, <1>3 DEF Scl!CallInv, Scl!Call
  <2> QED BY <2>1, <1>1, SclVisits
<1>5. PICK left : left = scl_held[i] \ {scl_call[t].tag}
  OBVIOUS
<1>6. /\ scl_held' = [scl_held EXCEPT ![i] = left]
      /\ scl_call' = [scl_call EXCEPT ![t] = Scl!Visited(t, i)]
      /\ IF left = {}
         THEN scl_writer' = [scl_writer EXCEPT ![i] = NoThread] /\ scl_asleep' \in Scl!Wake(i)
         ELSE scl_writer' = scl_writer /\ scl_asleep' = scl_asleep
  BY <1>1, <1>5 DEF Scl!ExitLock
<1>7. scl_call'[t] = Scl!Visited(t, i) /\ \A u \in Threads \ {t} : scl_call'[u] = scl_call[u]
  BY <1>2, <1>6
<1>8. scl_call[t] \in Scl!Call /\ scl_call[t].counted = FALSE
  BY <1>0, <1>2, <1>3 DEF Scl!Call, Scl!CallInv
<1>9. /\ scl_call' \in [Threads -> Scl!Call] /\ scl_call'[t].counted = FALSE
      /\ scl_call'[t].todo = scl_call[t].todo \ {i}
      /\ scl_call[t].todo = {i} =>
           scl_call'[t].op = "none" /\ scl_call'[t].rw = "RW_READER" /\ scl_call'[t].done = {}
      /\ scl_call[t].todo # {i} =>
           /\ scl_call'[t].op = scl_call[t].op /\ scl_call'[t].rw = scl_call[t].rw
           /\ scl_call'[t].tag = scl_call[t].tag /\ scl_call'[t].done = scl_call[t].done \cup {i}
  <2>1. scl_call[t] \in Scl!Call
    BY <1>8
  <2>2. Scl!Visited(t, i) \in Scl!Call
    BY <1>4, <2>1, SclVisited
  <2>3. scl_call' \in [Threads -> Scl!Call]
    BY <1>2, <1>6, <2>2
  <2>4. /\ Scl!Visited(t, i).counted = FALSE /\ Scl!Visited(t, i).todo = scl_call[t].todo \ {i}
        /\ scl_call[t].todo = {i} =>
             Scl!Visited(t, i).op = "none" /\ Scl!Visited(t, i).rw = "RW_READER" /\ Scl!Visited(t, i).done = {}
    BY <1>4, <2>1, SclVisited
  <2>5. scl_call[t].todo # {i} =>
          /\ Scl!Visited(t, i).op = scl_call[t].op /\ Scl!Visited(t, i).rw = scl_call[t].rw
          /\ Scl!Visited(t, i).tag = scl_call[t].tag /\ Scl!Visited(t, i).done = scl_call[t].done \cup {i}
    BY <1>4, <2>1, SclVisited
  <2> QED BY <1>7, <2>3, <2>4, <2>5
<1>10. \A j : Scl!Wanting(j)' = Scl!Wanting(j)
  BY <1>7, <1>8, <1>9, SclWantingSame DEF OnlyCall
<1>11. /\ scl_held'[i] = left
       /\ \A j \in Scl!Locks \ {i} : scl_held'[j] = scl_held[j] /\ scl_writer'[j] = scl_writer[j]
       /\ left = {} => scl_writer'[i] = NoThread
  BY <1>2, <1>4, <1>6
<1>12. /\ scl_asleep' \subseteq scl_asleep
       /\ left = {} => \A u \in scl_asleep' : Scl!First(scl_call[u].todo) # i
  BY <1>6 DEF Scl!Wake
<1>13. Scl!TypeOK'
  <2>1. scl_held' \in [Scl!Locks -> SUBSET Scl!HoldTags]
    <3>1. left \in SUBSET Scl!HoldTags
      BY <1>2, <1>4, <1>5
    <3> QED BY <1>2, <1>6, <3>1
  <2>2. scl_writer' \in [Scl!Locks -> Threads \cup {NoThread}]
    BY <1>2, <1>6
  <2> QED BY <1>2, <1>3, <1>9, <1>12, <2>1, <2>2 DEF Scl!TypeOK
<1>14. Scl!CallInv'
  <2>1. scl_call[t].todo # {i} => scl_call[t].todo \ {i} # {}
    BY <1>4
  <2>2. /\ scl_call'[t].todo = {} <=> scl_call'[t].op = "none"
        /\ scl_call'[t].todo \cap scl_call'[t].done = {}
        /\ scl_call'[t].rw = "RW_WRITER" => scl_call'[t].tag = t
    BY <1>0, <1>3, <1>9, <2>1 DEF Scl!CallInv
  <2>3. scl_call'[t].op # "none" => scl_call[t].op # "none" /\ scl_call'[t].tag = scl_call[t].tag
    BY <1>3, <1>9
  <2>4. t \notin scl_asleep' /\ \A u \in scl_asleep' : u \in scl_asleep
    BY <1>3, <1>12
  <2> QED BY <1>0, <1>7, <1>9, <2>2, <2>3, <2>4 DEF Scl!CallInv
<1>15. Scl!SclInv'
  <2>1. left # {} => scl_writer'[i] = NoThread
    <3>1. scl_call[t].tag \in scl_held[i]
      BY <1>0, <1>3, <1>4 DEF Scl!OnlyHeldGivenBack
    <3>2. scl_writer[i] # NoThread => scl_held[i] = {scl_writer[i]}
      BY <1>0, <1>4 DEF Scl!SclInv
    <3> QED BY <3>1, <3>2, <1>5, <1>6
  <2>2. \A j \in Scl!Locks : scl_writer'[j] # NoThread => scl_held'[j] = {scl_writer'[j]}
    BY <1>0, <1>11, <2>1 DEF Scl!SclInv
  <2>3. \A u \in scl_asleep' : u \in scl_asleep /\ scl_call'[u] = scl_call[u]
    BY <1>2, <1>3, <1>7, <1>12
  <2>4. \A u \in scl_asleep' : \A j \in Scl!Locks :
          Scl!First(scl_call'[u].todo) = j /\ scl_call'[u].rw = "RW_WRITER" => scl_held'[j] # {}
    BY <1>0, <1>11, <1>12, <2>3 DEF Scl!SclInv
  <2>5. \A u \in scl_asleep' : \A j \in Scl!Locks :
          Scl!First(scl_call'[u].todo) = j /\ scl_call'[u].rw = "RW_READER"
            => scl_held'[j] # {} \/ scl_write_wanted'[j] > 0
    BY <1>0, <1>3, <1>11, <1>12, <2>3 DEF Scl!SclInv
  <2> QED BY <1>0, <1>3, <1>10, <2>2, <2>4, <2>5 DEF Scl!SclInv, Scl!First
<1>16. Scl!OnlyHeldGivenBack'
  <2>1. scl_call'[t].op = "none" \/
          (scl_call'[t].op = "exit" /\ \A j \in scl_call'[t].todo : scl_call'[t].tag \in scl_held'[j])
    <3>1. CASE scl_call[t].todo = {i}
      BY <3>1, <1>9
    <3>2. CASE scl_call[t].todo # {i}
      <4>1. \A j \in scl_call'[t].todo : j \in scl_call[t].todo /\ j \in Scl!Locks \ {i}
        BY <1>8, <1>9 DEF Scl!Call
      <4> QED BY <1>0, <1>3, <1>9, <1>11, <3>2, <4>1 DEF Scl!OnlyHeldGivenBack
    <3> QED BY <3>1, <3>2
  <2>2. ASSUME NEW u \in Threads \ {t}, scl_call[u].op # "none" PROVE scl_call[u].tag # scl_call[t].tag
    BY <1>0, <1>3, <2>2 DEF Scl!CallInv
  <2>3. \A u \in Threads : scl_call[u].todo \subseteq Scl!Locks /\ scl_call[u].done \subseteq Scl!Locks
    BY <1>2 DEF Scl!Call
  <2>4. \A u \in Threads \ {t} : scl_call[u].op = "exit" =>
          \A j \in scl_call[u].todo : scl_call[u].tag \in scl_held'[j]
    BY <1>0, <1>5, <1>11, <2>2, <2>3 DEF Scl!OnlyHeldGivenBack
  <2>5. \A u \in Threads \ {t} : scl_call[u].op \in {"enter", "try"} =>
          /\ \A j \in scl_call[u].todo : scl_call[u].tag \notin scl_held'[j]
          /\ \A j \in scl_call[u].done : scl_call[u].tag \in scl_held'[j]
    BY <1>0, <1>5, <1>11, <2>2, <2>3 DEF Scl!OnlyHeldGivenBack
  <2> QED BY <1>7, <2>1, <2>4, <2>5 DEF Scl!OnlyHeldGivenBack
<1> QED BY <1>13, <1>14, <1>15, <1>16 DEF Scl!SclCallInv

\* Every step keeps the invariant.
LEMMA SclInductive == Scl!SclCallInv /\ [Scl!Next]_Scl!vars => Scl!SclCallInv'
<1> SUFFICES ASSUME Scl!SclCallInv, [Scl!Next]_Scl!vars PROVE Scl!SclCallInv'
  OBVIOUS
<1>1. CASE UNCHANGED Scl!vars
  <2>1. \A i : Scl!Wanting(i)' = Scl!Wanting(i)
    BY <1>1 DEF Scl!vars, Scl!Wanting, Scl!First
  <2>2. Scl!TypeOK' /\ Scl!CallInv' /\ Scl!OnlyHeldGivenBack'
    BY <1>1 DEF Scl!vars, Scl!SclCallInv, Scl!TypeOK, Scl!CallInv, Scl!OnlyHeldGivenBack
  <2>3. Scl!SclInv'
    BY <1>1, <2>1 DEF Scl!vars, Scl!SclCallInv, Scl!SclInv, Scl!First
  <2> QED BY <2>2, <2>3 DEF Scl!SclCallInv
<1>2. CASE Scl!Next
  <2> PICK t \in Threads :
        \/ \E locks \in SUBSET Scl!Locks, rw \in {"RW_READER", "RW_WRITER"}, tag \in Scl!HoldTags :
             Scl!spa_config_enter(t, locks, rw, tag) \/ Scl!spa_config_tryenter(t, locks, rw, tag)
        \/ \E tag \in Scl!HoldTags : Scl!Exit(t, tag)
        \/ Scl!Step(t)
        \/ Scl!SpuriousWake(t)
    BY <1>2 DEF Scl!Next
  <2>1. CASE \E locks \in SUBSET Scl!Locks, rw \in {"RW_READER", "RW_WRITER"}, tag \in Scl!HoldTags :
               Scl!spa_config_enter(t, locks, rw, tag) \/ Scl!spa_config_tryenter(t, locks, rw, tag)
    BY <2>1, SclBegin
  <2>2. CASE \E tag \in Scl!HoldTags : Scl!Exit(t, tag)
    <3>1. "RW_READER" \in {"RW_READER", "RW_WRITER"}
      OBVIOUS
    <3> QED BY <2>2, <3>1, SclBegin DEF Scl!Exit
  <2>3. CASE Scl!Step(t)
    BY <2>3, SclWait, SclGrant, SclRefuse, SclExit DEF Scl!Step
  <2>4. CASE Scl!SpuriousWake(t)
    <3>1. \A i : Scl!Wanting(i)' = Scl!Wanting(i)
      BY <2>4 DEF Scl!SpuriousWake, Scl!Wanting, Scl!First
    <3>2. Scl!TypeOK' /\ Scl!CallInv' /\ Scl!OnlyHeldGivenBack'
      BY <2>4 DEF Scl!SpuriousWake, Scl!SclCallInv, Scl!TypeOK, Scl!CallInv, Scl!OnlyHeldGivenBack
    <3>3. Scl!SclInv'
      BY <2>4, <3>1 DEF Scl!SpuriousWake, Scl!SclCallInv, Scl!SclInv, Scl!First
    <3> QED BY <3>2, <3>3 DEF Scl!SclCallInv
  <2> QED BY <2>1, <2>2, <2>3, <2>4
<1> QED BY <1>1, <1>2

\* A writer of a configuration lock is alone, scl_write_wanted counts the writers that wait,
\* whoever sleeps has somebody to wait for, and spa_config_exit, also of a refused
\* spa_config_tryenter, gives back only what is held.
THEOREM SclInvariance == Scl!Spec => []Scl!SclCallInv
<1>1. Scl!Init => Scl!SclCallInv
  <2> SUFFICES ASSUME Scl!Init PROVE Scl!SclCallInv
    OBVIOUS
  <2>1. scl_call \in [Threads -> Scl!Call]
    <3>1. \A t \in Threads : Scl!Idle(t) \in Scl!Call
      BY DEF Scl!Idle, Scl!Call, Scl!HoldTags
    <3> QED BY <3>1 DEF Scl!Init
  <2>2. \A t \in Threads : /\ scl_call[t].op = "none" /\ scl_call[t].todo = {} /\ scl_call[t].rw = "RW_READER"
                           /\ scl_call[t].counted = FALSE
    BY DEF Scl!Init, Scl!Idle
  <2>3. \A i : Scl!Wanting(i) = {}
    BY <2>2 DEF Scl!Wanting
  <2>4. Scl!Cardinality({}) = 0
    BY FS_EmptySet, SclCardinality
  <2>5. Scl!TypeOK
    BY <2>1 DEF Scl!Init, Scl!TypeOK
  <2>6. Scl!CallInv /\ Scl!OnlyHeldGivenBack
    BY <2>2 DEF Scl!Init, Scl!CallInv, Scl!OnlyHeldGivenBack
  <2>7. Scl!SclInv
    BY <2>3, <2>4 DEF Scl!Init, Scl!SclInv
  <2> QED BY <2>5, <2>6, <2>7 DEF Scl!SclCallInv
<1> QED BY <1>1, SclInductive, PTL DEF Scl!Spec

\* spa_config_tryenter returns with all the locks it was asked for, or with none of them.
THEOREM SclTry == Scl!Spec => Scl!TryAllOrNothing
<1> DEFINE Whole(t) ==
      scl_call[t].op = "try" /\ scl_call'[t].op = "none"
        => LET got == {i \in scl_call[t].todo \cup scl_call[t].done : scl_call[t].tag \in scl_held'[i]}
           IN  got \in {{}, scl_call[t].todo \cup scl_call[t].done}
<1>1. ASSUME Scl!SclCallInv, [Scl!Next]_Scl!vars, NEW t \in Threads PROVE Whole(t)
  <2> SUFFICES ASSUME scl_call[t].op = "try", scl_call'[t].op = "none",
                      NEW got, got = {i \in scl_call[t].todo \cup scl_call[t].done : scl_call[t].tag \in scl_held'[i]}
               PROVE  got = {} \/ got = scl_call[t].todo \cup scl_call[t].done
    OBVIOUS
  <2>0. /\ scl_call \in [Threads -> Scl!Call] /\ scl_call[t] \in Scl!Call
        /\ scl_held \in [Scl!Locks -> SUBSET Scl!HoldTags]
        /\ \A i \in scl_call[t].todo : scl_call[t].tag \notin scl_held[i]
        /\ \A i \in scl_call[t].done : scl_call[t].tag \in scl_held[i]
        /\ scl_call[t].todo # {} /\ scl_call[t].todo \in SUBSET Scl!Locks /\ scl_call[t].done \in SUBSET Scl!Locks
    BY <1>1 DEF Scl!SclCallInv, Scl!TypeOK, Scl!CallInv, Scl!OnlyHeldGivenBack, Scl!Call
  <2>1. Scl!TryLock(t)
    <3>1. scl_call' # scl_call
      OBVIOUS
    <3>2. PICK u \in Threads :
            \/ \E locks \in SUBSET Scl!Locks, rw \in {"RW_READER", "RW_WRITER"}, tag \in Scl!HoldTags :
                 Scl!spa_config_enter(u, locks, rw, tag) \/ Scl!spa_config_tryenter(u, locks, rw, tag)
            \/ \E tag \in Scl!HoldTags : Scl!Exit(u, tag)
            \/ Scl!Step(u)
            \/ Scl!SpuriousWake(u)
      BY <1>1, <3>1 DEF Scl!Next, Scl!vars
    <3>3. \E c : scl_call' = [scl_call EXCEPT ![u] = c]
      BY <3>1, <3>2 DEF Scl!spa_config_enter, Scl!spa_config_tryenter, Scl!Start, Scl!Exit, Scl!spa_config_exit,
           Scl!Step, Scl!EnterLock, Scl!Grant, Scl!TryLock, Scl!ExitLock, Scl!SpuriousWake
    <3>4. u = t
      BY <3>3, <2>0
    <3>5. ~ Scl!EnterLock(t) /\ ~ Scl!ExitLock(t) /\ ~ Scl!SpuriousWake(t)
      BY <3>1 DEF Scl!EnterLock, Scl!ExitLock, Scl!At, Scl!SpuriousWake
    <3>6. \A locks, rw, tag :
            /\ ~ Scl!spa_config_enter(t, locks, rw, tag) /\ ~ Scl!spa_config_tryenter(t, locks, rw, tag)
            /\ ~ Scl!spa_config_exit(t, locks, tag)
      BY DEF Scl!spa_config_enter, Scl!spa_config_tryenter, Scl!Start, Scl!spa_config_exit
    <3> QED BY <3>2, <3>4, <3>5, <3>6 DEF Scl!Exit, Scl!Step
  <2>2. PICK i : i = Scl!First(scl_call[t].todo)
    OBVIOUS
  <2>3. i \in scl_call[t].todo
    BY <2>0, <2>2, SclVisits
  <2>4. CASE Scl!Blocked(i, scl_call[t].rw)
    <3>1. scl_held' = scl_held /\ scl_call'[t] = Scl!Refused(t)
      BY <2>0, <2>1, <2>2, <2>4 DEF Scl!TryLock
    <3>2. scl_call[t].done # {} => Scl!Refused(t).op = "exit"
      BY DEF Scl!Refused, Scl!Idle
    <3>3. scl_call[t].done = {}
      BY <3>1, <3>2
    <3> QED BY <2>0, <3>1, <3>3
  <2>5. CASE ~ Scl!Blocked(i, scl_call[t].rw)
    <3>1. scl_held' = [scl_held EXCEPT ![i] = @ \cup {scl_call[t].tag}] /\ scl_call'[t] = Scl!Visited(t, i)
      BY <2>0, <2>1, <2>2, <2>5 DEF Scl!TryLock, Scl!Grant
    <3>2. scl_call[t].todo = {i}
      <4>1. scl_call[t] \in Scl!Call
        BY <2>0
      <4>2. scl_call[t].todo # {i} => Scl!Visited(t, i).op = scl_call[t].op
        BY <2>3, <4>1, SclVisited
      <4> QED BY <3>1, <4>2
    <3>3. \A j \in scl_call[t].todo \cup scl_call[t].done : scl_call[t].tag \in scl_held'[j]
      BY <2>0, <3>1, <3>2
    <3> QED BY <3>3
  <2> QED BY <2>4, <2>5
<1>2. Scl!SclCallInv /\ [Scl!Next]_Scl!vars => [\A t \in Threads : Whole(t)]_Scl!vars
  BY <1>1
<1> QED BY <1>2, SclInvariance, PTL DEF Scl!Spec, Scl!TryAllOrNothing

\* Each of the configuration locks implements the abstract reader-writer lock, provided no
\* I/O is taken for the owner of a free lock.
THEOREM SclRefinement == NoThread \notin Ios => (Scl!Spec => Scl!ImplementsRWLock)
<1> SUFFICES ASSUME NoThread \notin Ios PROVE Scl!Spec => Scl!ImplementsRWLock
  OBVIOUS
<1>1. Scl!Init => \A i \in Scl!Locks : Scl!RW(i)!Init
  BY DEF Scl!Init, Scl!RW!Init
<1>2. ASSUME Scl!SclCallInv, [Scl!Next]_Scl!vars, NEW i \in Scl!Locks PROVE [Scl!RW(i)!Next]_(Scl!RW(i)!lockVars)
  <2> DEFINE R == scl_held[i] \ {scl_writer[i]}
  <2>0. /\ scl_call \in [Threads -> Scl!Call] /\ scl_held \in [Scl!Locks -> SUBSET Scl!HoldTags]
        /\ scl_writer \in [Scl!Locks -> Threads \cup {NoThread}]
        /\ scl_writer[i] # NoThread => scl_held[i] = {scl_writer[i]}
        /\ NoThread \notin Scl!HoldTags
    BY <1>2, ThreadsAssumption DEF Scl!SclCallInv, Scl!TypeOK, Scl!SclInv, Scl!HoldTags
  <2>1. ASSUME scl_held' = scl_held, scl_writer' = scl_writer PROVE UNCHANGED Scl!RW(i)!lockVars
    BY <2>1 DEF Scl!RW!lockVars
  <2>2. ASSUME scl_held'[i] = scl_held[i], scl_writer'[i] = scl_writer[i] PROVE UNCHANGED Scl!RW(i)!lockVars
    BY <2>2 DEF Scl!RW!lockVars
  <2>3. CASE UNCHANGED Scl!vars
    BY <2>1, <2>3 DEF Scl!vars
  <2>4. CASE Scl!Next
    <3> PICK t \in Threads :
          \/ \E locks \in SUBSET Scl!Locks, rw \in {"RW_READER", "RW_WRITER"}, tag \in Scl!HoldTags :
               Scl!spa_config_enter(t, locks, rw, tag) \/ Scl!spa_config_tryenter(t, locks, rw, tag)
          \/ \E tag \in Scl!HoldTags : Scl!Exit(t, tag)
          \/ Scl!Step(t)
          \/ Scl!SpuriousWake(t)
      BY <2>4 DEF Scl!Next
    <3>0. scl_call[t] \in Scl!Call /\ scl_call[t].tag \in Scl!HoldTags /\ scl_call[t].todo \in SUBSET Scl!Locks
      BY <2>0 DEF Scl!Call
    <3>1. CASE \/ \E locks \in SUBSET Scl!Locks, rw \in {"RW_READER", "RW_WRITER"}, tag \in Scl!HoldTags :
                    Scl!spa_config_enter(t, locks, rw, tag) \/ Scl!spa_config_tryenter(t, locks, rw, tag)
               \/ \E tag \in Scl!HoldTags : Scl!Exit(t, tag)
               \/ Scl!SpuriousWake(t)
      BY <2>1, <3>1 DEF Scl!spa_config_enter, Scl!spa_config_tryenter, Scl!Start, Scl!Exit, Scl!spa_config_exit,
           Scl!SpuriousWake
    <3>2. CASE Scl!EnterLock(t) \/ Scl!TryLock(t)
      <4>1. PICK k : k = Scl!First(scl_call[t].todo)
        OBVIOUS
      <4>2. scl_call[t].op \in {"enter", "try"}
        BY <3>2 DEF Scl!EnterLock, Scl!TryLock, Scl!At
      <4>3. k \in scl_call[t].todo /\ k \in Scl!Locks
        <5>1. scl_call[t].todo # {}
          BY <1>2, <4>2 DEF Scl!SclCallInv, Scl!CallInv
        <5> QED BY <5>1, <3>0, <4>1, SclVisits
      <4>4. CASE Scl!Blocked(k, scl_call[t].rw)
        BY <2>1, <3>2, <4>1, <4>4 DEF Scl!EnterLock, Scl!TryLock
      <4>5. CASE ~ Scl!Blocked(k, scl_call[t].rw)
        <5>1. /\ scl_writer' = IF scl_call[t].rw = "RW_WRITER" THEN [scl_writer EXCEPT ![k] = t] ELSE scl_writer
              /\ scl_held' = [scl_held EXCEPT ![k] = @ \cup {scl_call[t].tag}]
          BY <3>2, <4>1, <4>5 DEF Scl!EnterLock, Scl!TryLock, Scl!Grant
        <5>2. CASE k # i
          BY <2>0, <2>2, <5>1, <5>2
        <5>3. CASE k = i /\ scl_call[t].rw = "RW_WRITER"
          <6>1. scl_held[i] = {} /\ scl_call[t].tag = t /\ scl_writer[i] = NoThread
            BY <1>2, <2>0, <4>5, <5>3 DEF Scl!Blocked, Scl!SclCallInv, Scl!CallInv
          <6>2. scl_writer'[i] = t /\ scl_held'[i] = {t}
            BY <2>0, <5>1, <5>3, <6>1
          <6>3. Scl!RW(i)!AcquireWrite(t)
            BY <6>1, <6>2 DEF Scl!RW!AcquireWrite
          <6> QED BY <6>3 DEF Scl!RW!Next
        <5>4. CASE k = i /\ scl_call[t].rw # "RW_WRITER"
          <6>1. scl_writer[i] = NoThread /\ scl_call[t].tag \notin scl_held[i]
            <7>1. scl_call[t].rw = "RW_READER"
              BY <3>0, <5>4 DEF Scl!Call
            <7> QED BY <1>2, <4>2, <4>3, <4>5, <5>4, <7>1 DEF Scl!Blocked, Scl!SclCallInv, Scl!OnlyHeldGivenBack
          <6>2. scl_writer'[i] = NoThread /\ scl_held'[i] = scl_held[i] \cup {scl_call[t].tag}
            BY <2>0, <5>1, <5>4, <6>1
          <6>3. R' = R \cup {scl_call[t].tag} /\ scl_call[t].tag \notin R
            BY <2>0, <3>0, <6>1, <6>2
          <6>4. Scl!RW(i)!AcquireRead(scl_call[t].tag)
            BY <6>1, <6>2, <6>3 DEF Scl!RW!AcquireRead
          <6> QED BY <3>0, <6>4 DEF Scl!RW!Next
        <5> QED BY <5>2, <5>3, <5>4
      <4> QED BY <4>4, <4>5
    <3>3. CASE Scl!ExitLock(t)
      <4>1. PICK k : k = Scl!Max(scl_call[t].todo)
        OBVIOUS
      <4>2. scl_call[t].op = "exit"
        BY <3>3 DEF Scl!ExitLock, Scl!At
      <4>3. k \in scl_call[t].todo /\ k \in Scl!Locks
        <5>1. scl_call[t].todo # {}
          BY <1>2, <4>2 DEF Scl!SclCallInv, Scl!CallInv
        <5> QED BY <5>1, <3>0, <4>1, SclVisits
      <4>4. PICK left : left = scl_held[k] \ {scl_call[t].tag}
        OBVIOUS
      <4>5. /\ scl_held' = [scl_held EXCEPT ![k] = left]
            /\ scl_writer' = IF left = {} THEN [scl_writer EXCEPT ![k] = NoThread] ELSE scl_writer
        BY <3>3, <4>1, <4>4 DEF Scl!ExitLock
      <4>6. CASE k # i
        BY <2>0, <2>2, <4>5, <4>6
      <4>7. CASE k = i
        <5>1. scl_call[t].tag \in scl_held[i]
          BY <1>2, <4>2, <4>3, <4>7 DEF Scl!SclCallInv, Scl!OnlyHeldGivenBack
        <5>2. scl_held'[i] = scl_held[i] \ {scl_call[t].tag}
          BY <2>0, <4>4, <4>5, <4>7
        <5>3. scl_writer'[i] = NoThread
          BY <2>0, <4>3, <4>4, <4>5, <4>7, <5>1
        <5>4. CASE scl_writer[i] # NoThread
          <6>1. R = {} /\ R' = {}
            BY <2>0, <5>1, <5>2, <5>4
          <6>2. Scl!RW(i)!ReleaseWrite
            BY <5>3, <5>4, <6>1 DEF Scl!RW!ReleaseWrite
          <6> QED BY <6>2 DEF Scl!RW!Next
        <5>5. CASE scl_writer[i] = NoThread
          <6>1. scl_call[t].tag \in R /\ R' = R \ {scl_call[t].tag}
            BY <2>0, <3>0, <5>1, <5>2, <5>3, <5>5
          <6>2. Scl!RW(i)!ReleaseRead(scl_call[t].tag)
            BY <5>3, <5>5, <6>1 DEF Scl!RW!ReleaseRead
          <6> QED BY <3>0, <6>2 DEF Scl!RW!Next
        <5> QED BY <5>4, <5>5
      <4> QED BY <4>6, <4>7
    <3> QED BY <3>1, <3>2, <3>3 DEF Scl!Step
  <2> QED BY <1>2, <2>3, <2>4
<1>3. Scl!SclCallInv /\ [Scl!Next]_Scl!vars => [\A i \in Scl!Locks : [Scl!RW(i)!Next]_(Scl!RW(i)!lockVars)]_Scl!vars
  BY <1>2
<1> QED BY <1>1, <1>3, SclInvariance, PTL DEF Scl!Spec, Scl!ImplementsRWLock
=============================================================================
