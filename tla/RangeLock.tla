------------------------------ MODULE RangeLock ------------------------------
(***************************************************************************)
(* The range locks of a file or volume (zfs_rlock.c).  Locked ranges are   *)
(* nodes of a tree ordered by offset; read locks that overlap are cut into *)
(* proxies with reference counts.  Waiters sleep on condition variables    *)
(* inside the nodes, which come and go.                                    *)
(*                                                                         *)
(* A node has its sleepers in wq (r_wr_cv) and rq (r_rd_cv).  A section    *)
(* under z_range_lock is one action.  Unlocking a write lock, and reducing *)
(* it, wake the sleepers after z_range_lock is dropped.  The writes of     *)
(* zfs_write that the append and grow logic depends on are included.       *)
(***************************************************************************)
EXTENDS LockThreads, FiniteSetsExt

CONSTANTS
  N,             \* bound: the offsets are 0..N-1
  ZPL,           \* z_vnode is set: a file, not a volume
  MaxBlk,        \* z_max_blksz
  InitBlk,       \* z_blksz at first
  Types,         \* the locks clients ask for
  MaxCalls       \* bound: the calls of each thread; 0 for no bound

VARIABLES
  tree,
  lk,            \* the rl_t of each thread: the range it has or wants
  call,          \* where each thread is
  leaving,       \* the node of a write lock already out of the tree, as a set
  calls,
  z_size, z_blksz,
  written        \* the offsets written below z_size

fileVars == <<z_size, z_blksz, written>>
vars == <<tree, lk, call, leaving, calls, fileVars>>

NoLock == [off |-> 0, len |-> 0, type |-> "RL_READER", off0 |-> 0, len0 |-> 0, append |-> FALSE]
UINT64_MAX == 2 * N
MAXOFFSET_T == UINT64_MAX \div 2
Offsets == 0..(N - 1)
NoNode == [off |-> -1]

\* owner: the thread whose rl_t this is; NoThread for a proxy.
Node(off, len, type, cnt, owner) ==
  [off |-> off, len |-> len, type |-> type, cnt |-> cnt, owner |-> owner,
   write_wanted |-> FALSE, read_wanted |-> FALSE, wq |-> {}, rq |-> {}]
End(n) == n.off + n.len

Nodes ==
  [off : 0..UINT64_MAX, len : 1..UINT64_MAX, type : {"RL_READER", "RL_WRITER"}, cnt : 1..Cardinality(Threads),
   owner : Threads \cup {NoThread}, write_wanted : BOOLEAN, read_wanted : BOOLEAN,
   wq : SUBSET Threads, rq : SUBSET Threads]

TypeOK ==
  /\ \A n \in tree : n \in Nodes
  /\ \A t \in Threads :
       /\ lk[t].off \in 0..UINT64_MAX /\ lk[t].len \in 0..UINT64_MAX
       /\ lk[t].type \in {"RL_READER", "RL_WRITER", "RL_APPEND"}
       /\ lk[t].off0 \in 0..UINT64_MAX /\ lk[t].len0 \in 0..UINT64_MAX /\ lk[t].append \in BOOLEAN
       /\ call[t] \in {"none", "lock", "held", "wrote", "wakeUnlock", "wakeReduce"}
       /\ leaving[t] \subseteq Nodes
  /\ z_size \in 0..UINT64_MAX /\ z_blksz \in Nat /\ written \subseteq 0..UINT64_MAX

\* The tree: the node at off, the nearest before and after, and the next.
Find(T, off) == IF \E n \in T : n.off = off THEN CHOOSE n \in T : n.off = off ELSE NoNode
Before(T, off) == Find(T, Max({n.off : n \in {m \in T : m.off < off}} \cup {-1}))
After(T, off) == Find(T, Min({n.off : n \in {m \in T : m.off > off}} \cup {UINT64_MAX + 1}))

Update(T, n, new) == (T \ {n}) \cup {new}

-----------------------------------------------------------------------------
(* Write locks.                                                            *)

ISP2(n) == \E k \in 0..n : 2^k = n
MAX(a, b) == IF a > b THEN a ELSE b
MIN(a, b) == IF a < b THEN a ELSE b

\* Mutant: the end of file is read when the call begins.
WriterRangeStale(t) == [off |-> lk[t].off0, len |-> lk[t].len0]

\* What the writer locks: an append starts at the end of the file as it is now,
\* and a write that makes the block grow takes the whole file.
WriterRange(t) ==
  LET off == IF ZPL /\ lk[t].type = "RL_APPEND" THEN z_size ELSE lk[t].off0
      end_size == MAX(z_size, off + lk[t].len0)
  IN  IF ZPL /\ end_size > z_blksz /\ (~ISP2(z_blksz) \/ z_blksz < MaxBlk)
      THEN [off |-> 0, len |-> UINT64_MAX]
      ELSE [off |-> off, len |-> lk[t].len0]

\* Mutant: the range before is not looked at.
WriterConflictAfter(T, r) ==
  LET at == Find(T, r.off)  after == After(T, r.off)
  IN  IF at # NoNode THEN at
      ELSE IF after # NoNode /\ after.off < r.off + r.len THEN after
      ELSE NoNode

\* The node in the way of a writer that zfs_range_lock_writer comes upon first.
WriterConflict(T, r) ==
  LET at == Find(T, r.off)  after == After(T, r.off)  before == Before(T, r.off)
  IN  IF at # NoNode THEN at
      ELSE IF after # NoNode /\ after.off < r.off + r.len THEN after
      ELSE IF before # NoNode /\ End(before) > r.off THEN before
      ELSE NoNode

\* lk[t] is the range as locked; off0 and len0 what was asked for.
zfs_range_lock_writer(t) ==
  /\ call[t] = "lock" /\ lk[t].type # "RL_READER"
  /\ \A n \in tree \cup UNION {leaving[u] : u \in Threads} : t \notin n.wq
  /\ LET r == WriterRange(t)
         n == WriterConflict(tree, r)
     IN  IF n = NoNode
         THEN /\ tree' = tree \cup {Node(r.off, r.len, "RL_WRITER", 1, t)}
              /\ lk' = [lk EXCEPT ![t] = [@ EXCEPT !.off = r.off, !.len = r.len, !.type = "RL_WRITER"]]
              /\ call' = [call EXCEPT ![t] = "held"]
         ELSE /\ tree' = Update(tree, n, [n EXCEPT !.write_wanted = TRUE, !.wq = @ \cup {t}])
              /\ UNCHANGED <<lk, call>>
  /\ UNCHANGED <<leaving, calls, fileVars>>

-----------------------------------------------------------------------------
(* Read locks.                                                             *)

\* If n is someone's rl_t, a proxy takes its place.
zfs_range_proxify(T, n) ==
  IF n.owner = NoThread THEN T
  ELSE Update(T, n, Node(n.off, n.len, "RL_READER", 1, NoThread))

\* Cuts n at off: two proxies with its count.
zfs_range_split(T, n, off) ==
  Update(zfs_range_proxify(T, n), Find(zfs_range_proxify(T, n), n.off),
         Node(n.off, off - n.off, "RL_READER", n.cnt, NoThread))
    \cup {Node(off, End(n) - off, "RL_READER", n.cnt, NoThread)}

zfs_range_new_proxy(T, off, len) == T \cup {Node(off, len, "RL_READER", 1, NoThread)}

\* r_cnt++ on the proxy at off.
Bump(T, off) == Update(T, Find(T, off), [Find(T, off) EXCEPT !.cnt = @ + 1])

\* The gap between the ranges prev and next gets a proxy.
FillGap(T, prev, next) ==
  IF prev # NoNode /\ End(prev) < next.off
  THEN zfs_range_new_proxy(T, End(prev), next.off - End(prev)) ELSE T

\* The forward search of zfs_range_add_reader for a new lock that ends at end.
RECURSIVE Walk(_, _, _, _)
Walk(T, end, prev, next) ==
  IF next = NoNode \/ end <= next.off
  THEN zfs_range_new_proxy(T, End(prev), end - End(prev))
  ELSE LET T1 == FillGap(T, prev, next) IN
       IF end = End(next) THEN Bump(zfs_range_proxify(T1, next), next.off)
       ELSE IF end < End(next) THEN Bump(zfs_range_split(T1, next, end), next.off)
       ELSE LET T2 == Bump(zfs_range_proxify(T1, next), next.off)
            IN  Walk(T2, end, Find(T2, next.off), After(T2, next.off))

\* The tree with a read lock of t added; prev is at or before its offset.
zfs_range_add_reader(T, t, off, len, prev) ==
  LET splits == prev # NoNode /\ End(prev) > off /\ prev.off # off
      T1 == IF splits THEN zfs_range_split(T, prev, off) ELSE T
      next == IF prev # NoNode /\ End(prev) > off THEN Find(T1, off) ELSE After(T1, off)
  IN  IF next = NoNode \/ off + len <= next.off
      THEN T1 \cup {Node(off, len, "RL_READER", 1, t)}
      ELSE Walk(IF off < next.off THEN zfs_range_new_proxy(T1, off, next.off - off) ELSE T1,
                off + len, NoNode, next)

\* A node that a reader must wait for.
KeepsReaderOut(n) == n.type = "RL_WRITER" \/ n.write_wanted

\* The node in the way of a reader: prev, or the first one behind it in range.
ReaderConflict(T, off, len, prev) ==
  LET S == {n \in T : n.off < off + len /\ (n.off > off \/ n = prev) /\ End(n) > off /\ KeepsReaderOut(n)}
  IN  IF S = {} THEN NoNode ELSE Find(S, Min({n.off : n \in S}))

zfs_range_lock_reader(t) ==
  /\ call[t] = "lock" /\ lk[t].type = "RL_READER"
  /\ \A n \in tree \cup UNION {leaving[u] : u \in Threads} : t \notin n.rq
  /\ LET off == lk[t].off0  len == lk[t].len0
         at == Find(tree, off)
         prev == IF at # NoNode THEN at ELSE Before(tree, off)
         n == ReaderConflict(tree, off, len, prev)
     IN  IF n = NoNode
         THEN /\ tree' = zfs_range_add_reader(tree, t, off, len, prev)
              /\ lk' = [lk EXCEPT ![t].off = off, ![t].len = len]
              /\ call' = [call EXCEPT ![t] = "held"]
         ELSE /\ tree' = Update(tree, n, [n EXCEPT !.read_wanted = TRUE, !.rq = @ \cup {t}])
              /\ UNCHANGED <<lk, call>>
  /\ UNCHANGED <<leaving, calls, fileVars>>

\* Mutant: every piece is removed, whoever else counts on it.
ReleasePiecesAll(T, off, end) == {n \in T : ~(off <= n.off /\ n.off < end)}

\* The tree after the pieces of a read lock were released.
ReleasePieces(T, off, end) ==
  {IF off <= n.off /\ n.off < end THEN [n EXCEPT !.cnt = @ - 1] ELSE n :
     n \in {m \in T : ~(off <= m.off /\ m.off < end /\ m.cnt = 1)}}

\* A node that leaves the tree wakes its sleepers: they are in no node then.
zfs_range_unlock_reader(t) ==
  /\ call[t] \in {"held", "wrote"} /\ lk[t].type = "RL_READER"
  /\ LET own == {n \in tree : n.owner = t}
     IN  tree' = IF own # {} THEN tree \ own
                 ELSE ReleasePieces(tree, lk[t].off, lk[t].off + lk[t].len)
  /\ lk' = [lk EXCEPT ![t] = NoLock]
  /\ call' = [call EXCEPT ![t] = "none"]
  /\ UNCHANGED <<leaving, calls, fileVars>>

-----------------------------------------------------------------------------
(* The calls.                                                              *)

\* off + len is cut at UINT64_MAX; what is asked for starts below N.
zfs_range_lock(t, off, len, type) ==
  /\ call[t] = "none"
  /\ IF MaxCalls = 0 THEN UNCHANGED calls
     ELSE calls[t] < MaxCalls /\ calls' = [calls EXCEPT ![t] = @ + 1]
  /\ lk' = [lk EXCEPT ![t] = [off |-> off, len |-> len, type |-> type, off0 |-> off, len0 |-> len,
                              append |-> type = "RL_APPEND"]]
  /\ call' = [call EXCEPT ![t] = "lock"]
  /\ UNCHANGED <<tree, leaving, fileVars>>

Own(t) == CHOOSE n \in tree : n.owner = t

\* A write lock leaves the tree; its sleepers are woken later.
zfs_range_unlock(t) ==
  /\ call[t] \in {"held", "wrote"} /\ lk[t].type = "RL_WRITER"
  /\ tree' = tree \ {Own(t)}
  /\ leaving' = [leaving EXCEPT ![t] = {Own(t)}]
  /\ lk' = [lk EXCEPT ![t] = NoLock]
  /\ call' = [call EXCEPT ![t] = "wakeUnlock"]
  /\ UNCHANGED <<calls, fileVars>>

\* cv_broadcast on both condition variables of the node.
UnlockWake(t) ==
  /\ call[t] = "wakeUnlock"
  /\ leaving' = [leaving EXCEPT ![t] = {}]
  /\ call' = [call EXCEPT ![t] = "none"]
  /\ UNCHANGED <<tree, lk, calls, fileVars>>

\* The block size zfs_write asks for.  A block above z_max_blksz, whose size is no
\* power of 2 then, grows to the next one at most.
NewBlksz(end_size) ==
  MIN(end_size, IF z_blksz > MaxBlk THEN Min({2^k : k \in 0..z_blksz} \ 0..z_blksz) ELSE MaxBlk)

\* The block sizes that growing to size may leave (sizes count SPA_MINBLOCKSIZE):
\* a file of several blocks keeps its own, and the DMU may refuse (ENOTSUP).
zfs_grow_blocksize(size) ==
  IF size <= z_blksz \/ (z_blksz # 0 /\ z_size > z_blksz) THEN {z_blksz} ELSE {z_blksz, size}

\* Where zfs_write writes, which for an append is at the end of the file when the
\* whole of it was locked; n is cut at the largest offset.
WriteOff(t) ==
  IF lk[t].len # UINT64_MAX THEN lk[t].off ELSE IF lk[t].append THEN z_size ELSE lk[t].off0
WriteLen(t) == MIN(lk[t].len0, MAXOFFSET_T - WriteOff(t))

\* zfs_write over-locked: it grows the block and reduces the lock to the range
\* it writes.
zfs_range_reduce(t) ==
  /\ ZPL /\ call[t] = "held" /\ lk[t].type = "RL_WRITER"
  /\ lk[t].len = UINT64_MAX /\ lk[t].len0 # UINT64_MAX
  /\ WriteOff(t) < MAXOFFSET_T                       \* EFBIG otherwise
  /\ z_blksz' \in zfs_grow_blocksize(NewBlksz(MAX(z_size, WriteOff(t) + WriteLen(t))))
  /\ tree' = Update(tree, Own(t), [Own(t) EXCEPT !.off = WriteOff(t), !.len = WriteLen(t)])
  /\ lk' = [lk EXCEPT ![t].off = WriteOff(t), ![t].len = WriteLen(t)]
  /\ call' = [call EXCEPT ![t] = "wakeReduce"]
  /\ UNCHANGED <<leaving, calls, z_size, written>>

\* The wake-up of zfs_range_reduce; the flags stay set.
ReduceWake(t) ==
  /\ call[t] = "wakeReduce"
  /\ tree' = Update(tree, Own(t), [Own(t) EXCEPT !.wq = {}, !.rq = {}])
  /\ call' = [call EXCEPT ![t] = "held"]
  /\ UNCHANGED <<lk, leaving, calls, fileVars>>

\* zfs_write writes its range, or what it gets to before an error, and raises z_size.
zfs_write(t) ==
  /\ ZPL /\ call[t] = "held" /\ lk[t].type = "RL_WRITER" /\ lk[t].len # UINT64_MAX
  /\ \E tx_bytes \in 1..WriteLen(t) :
       /\ written' = written \cup lk[t].off..(lk[t].off + tx_bytes - 1)
       /\ z_size' = MAX(z_size, lk[t].off + tx_bytes)
  /\ call' = [call EXCEPT ![t] = "wrote"]
  /\ UNCHANGED <<tree, lk, leaving, calls, z_blksz>>

\* zfs_trunc, with the whole file locked.
zfs_trunc(t, size) ==
  /\ ZPL /\ call[t] = "held" /\ lk[t].type = "RL_WRITER" /\ lk[t].len0 = UINT64_MAX
  /\ size < z_size
  /\ z_size' = size /\ written' = written \cap 0..(size - 1)
  /\ call' = [call EXCEPT ![t] = "wrote"]
  /\ UNCHANGED <<tree, lk, leaving, calls, z_blksz>>

-----------------------------------------------------------------------------
\* The tree of a znode is empty at first; the file is empty.
Init ==
  /\ tree = {}
  /\ lk = [t \in Threads |-> NoLock]
  /\ call = [t \in Threads |-> "none"]
  /\ leaving = [t \in Threads |-> {}]
  /\ calls = [t \in Threads |-> 0]
  /\ z_size = 0 /\ z_blksz = InitBlk /\ written = {}

WithoutSleeper(n, t) == [n EXCEPT !.wq = @ \ {t}, !.rq = @ \ {t}]
SpuriousWake(t) ==
  /\ \E n \in tree : t \in n.wq \cup n.rq
  /\ tree' = {WithoutSleeper(n, t) : n \in tree}
  /\ UNCHANGED <<lk, call, leaving, calls, fileVars>>

LockStep(t) == zfs_range_lock_writer(t) \/ zfs_range_lock_reader(t)
Release(t) == zfs_range_unlock(t) \/ zfs_range_unlock_reader(t)
WakeStep(t) == UnlockWake(t) \/ ReduceWake(t)

Next ==
  \/ \E t \in Threads :
       \/ \E off \in Offsets, len \in 1..N, type \in Types :
            off + len <= N /\ (type = "RL_APPEND" => off = 0) /\ zfs_range_lock(t, off, len, type)
       \/ ZPL /\ zfs_range_lock(t, 0, UINT64_MAX, "RL_WRITER")
       \/ LockStep(t) \/ Release(t) \/ WakeStep(t)
       \/ zfs_range_reduce(t) \/ zfs_write(t) \/ (\E s \in Offsets : zfs_trunc(t, s))
       \/ SpuriousWake(t)

Spec == Init /\ [][Next]_vars

-----------------------------------------------------------------------------
(* Safety.                                                                 *)

Holds(t) == call[t] \in {"held", "wrote", "wakeReduce"}
Has(t, x) == Holds(t) /\ lk[t].off <= x /\ x < lk[t].off + lk[t].len

\* The tree is an exact account of the locks: nodes do not overlap; the count of
\* a node is the number of locks over each of its offsets; what is locked is
\* covered; a node that is somebody's rl_t is exactly that lock; and a node with
\* sleepers has the flag that makes an unlock wake them and is never cut or
\* replaced by a proxy, which nobody would wake them from.
TreeInv ==
  /\ \A m, n \in tree : m # n => End(m) <= n.off \/ End(n) <= m.off
  /\ \A n \in tree : \A x \in n.off..(End(n) - 1) : Cardinality({t \in Threads : Has(t, x)}) = n.cnt
  /\ \A t \in Threads : Holds(t) =>
       \A x \in lk[t].off..(lk[t].off + lk[t].len - 1) : \E n \in tree : n.off <= x /\ x < End(n)
  /\ \A n \in tree : n.owner # NoThread =>
       Holds(n.owner) /\ lk[n.owner].off = n.off /\ lk[n.owner].len = n.len /\ n.cnt = 1
  /\ \A n \in tree : n.wq # {} => n.write_wanted
  /\ \A n \in tree : n.rq # {} => n.read_wanted /\ KeepsReaderOut(n)

\* An append overwrites nothing, although z_size is read before the lock is
\* granted and others may write meanwhile.
AppendOverwritesNothing ==
  \A t \in Threads :
    call[t] \in {"held", "wakeReduce"} /\ lk[t].type = "RL_WRITER" /\ lk[t].append
      /\ lk[t].len # UINT64_MAX
      => written \cap lk[t].off..(lk[t].off + lk[t].len - 1) = {}

\* The locks implement the abstract range locks: no two threads have overlapping
\* ranges unless both read.
Locked == {[owner |-> t, off |-> lk[t].off, len |-> lk[t].len, type |-> lk[t].type] :
             t \in {u \in Threads : Holds(u)}}
RL == INSTANCE RangeLocks WITH Owners <- Threads, locked <- Locked
ImplementsRangeLocks == RL!Spec
=============================================================================
