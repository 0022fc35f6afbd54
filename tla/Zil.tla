--------------------------------- MODULE Zil ---------------------------------
(***************************************************************************)
(* The intent log (zil.c) from the records of operations to their replay   *)
(* after a crash.  An operation is done in a txg and leaves a record in    *)
(* the itxg of that txg.  zil_commit writes records to a chain of log      *)
(* blocks, each of which names the next before it is written.  zil_sync    *)
(* moves the header along the chain as txgs sync.  After a crash the chain *)
(* is claimed, replayed and destroyed.                                     *)
(*                                                                         *)
(* There is one zil_commit at a time: ZilCommit shows that the others wait *)
(* for one that began after their call.                                    *)
(***************************************************************************)
EXTENDS Integers, FiniteSets, FiniteSetsExt, Sequences, SequencesExt, TLC

CONSTANTS Ops,       \* operations
          Kind,      \* of an operation: "create", "write", "rename" or "remove"
          Obj,       \* the object of an operation
          Indirect,  \* the writes whose data is in a block of its own (WR_INDIRECT)
          Blocks,    \* space for log blocks, a set of positive numbers
          Fit,       \* the records that fit in a log block
          Fresh,     \* whether there is no log at first
          FirstTxg, MaxTxg,  \* bounds: the txgs that nobody waits for
          Commits,   \* bound: calls of zil_commit
          Crashes,   \* bound
          Faults     \* what may fail: "alloc", "write", "data", "replay"; "large":
                     \* a record may be too long for any log block

VARIABLES
  \* the operations
  state,   \* "new", "tx" (in a transaction), "done" or "lost" (in a crash)
  otxg,    \* the txg of its transaction, or of its replay
  times,   \* how often it was applied to the data
  order,   \* the operations in the order they were done
  \* the txgs
  open, synced, stage,
  dirty,   \* the txgs in which the data set is dirty
  \* the log in memory
  zl_itxg, commit_list, zl_lwb_list, zl_lr_seq, zl_destroy_txg, zl_keep_first,
  zl_replayed_seq, zh, guid,
  \* zil_commit
  wpc, foid, scan, otx, has_lwb, waitfor, target, commits,
  \* space: blocks in use, when they were allocated and freed
  inuse, birth, freed,
  \* recovery: how far it is, the records to replay and those it gave up
  rpc, todo, claim_max, crashes, given_up,
  \* the disk: log blocks, and by operation the data of indirect writes
  disk, cache, d_zh, d_synced, d_inuse, d_times,
  promised  \* the operations whose commitment was reported

opvars == <<state, otxg, times, order>>
txgvars == <<open, synced, stage, dirty>>
logvars == <<zl_lr_seq, zl_destroy_txg, zl_keep_first, zl_replayed_seq, zh, guid>>
wvars == <<wpc, foid, scan, otx, has_lwb, waitfor, target, commits>>
space == <<inuse, birth, freed>>
recovery == <<rpc, todo, claim_max, crashes, given_up>>
media == <<disk, cache, d_zh, d_synced, d_inuse, d_times>>
vars == <<opvars, txgvars, zl_itxg, commit_list, zl_lwb_list, logvars, wvars, space, recovery,
          media, promised>>

Objs == {Obj[o] : o \in Ops}
TXG_CONCURRENT_STATES == 3
TXG_SIZE == 4
TXG_DEFER_SIZE == 2

Hole == [blk |-> 0, guid |-> 0, seq |-> 0, birth |-> 0]
NoHeader == [log |-> Hole, claim_txg |-> 0, blk_seq |-> 0, lr_seq |-> 0, replay_seq |-> 0,
             needed |-> FALSE]
NoItxs == [txg |-> 0, sync |-> <<>>, async |-> [f \in Objs |-> <<>>]]

NewLwb(p, t) ==
  [ptr |-> p, max_txg |-> t, recs |-> <<>>, buf |-> TRUE, zio |-> FALSE, tx |-> 0,
   writing |-> FALSE, next |-> Hole]

\* The file system has just been mounted, or the log was created before.
FirstBlock == [blk |-> 1, guid |-> 1, seq |-> 1, birth |-> FirstTxg]
FirstHeader == IF Fresh THEN NoHeader ELSE [NoHeader EXCEPT !.log = FirstBlock]
FirstInuse == IF Fresh THEN {} ELSE {1}

Init ==
  /\ state = [o \in Ops |-> "new"] /\ otxg = [o \in Ops |-> 0]
  /\ times = [o \in Ops |-> 0] /\ order = <<>>
  /\ open = FirstTxg + 1 /\ synced = FirstTxg /\ stage = "none" /\ dirty = {}
  /\ zl_itxg = [i \in 0 .. TXG_SIZE - 1 |-> NoItxs]
  /\ commit_list = <<>> /\ zl_lr_seq = 0
  /\ zl_lwb_list = IF Fresh THEN <<>> ELSE <<NewLwb(FirstBlock, FirstTxg)>>
  /\ zl_destroy_txg = 0 /\ zl_keep_first = FALSE
  /\ zl_replayed_seq = [i \in 0 .. TXG_SIZE - 1 |-> 0] /\ zh = FirstHeader
  /\ guid = IF Fresh THEN 0 ELSE 1
  /\ wpc = "idle" /\ foid = 0 /\ scan = 0 /\ otx = 0 /\ has_lwb = FALSE /\ waitfor = 0
  /\ target = {} /\ commits = 0
  /\ inuse = FirstInuse /\ birth = [b \in Blocks |-> 0] /\ freed = [b \in Blocks |-> 0]
  /\ rpc = "run" /\ todo = <<>> /\ claim_max = 0 /\ crashes = 0 /\ given_up = {}
  /\ disk = <<>> /\ cache = <<>> /\ d_zh = FirstHeader /\ d_synced = FirstTxg
  /\ d_inuse = FirstInuse /\ d_times = [o \in Ops |-> 0] /\ promised = {}

Slot(t) == t % TXG_SIZE

\* What txg_wait_synced(0) waits for.
AllTxgs == open + TXG_DEFER_SIZE

-----------------------------------------------------------------------------
(* The chain on disk                                                       *)

\* A log block is valid where it was written for this place of this chain and
\* names a next block.
ReadLogBlock(d, p) ==
  /\ p.blk \in DOMAIN d /\ d[p.blk].guid = p.guid /\ d[p.blk].seq = p.seq
  /\ d[p.blk].next # Hole

\* A block that was allocated in a txg that is not synced is claimed, unless the
\* space is taken.
Claimable(p, first, alloc) == p.birth < first \/ p.blk \notin alloc

\* zil_claim_log_record: the data of an indirect write must be readable, unless
\* its txg has synced.  The log ends before a record whose data is not.
DataClaimable(d, r, first) == r.op \in Indirect /\ r.txg >= first => r.op \in DOMAIN d

RECURSIVE ParseFrom(_, _, _, _, _, _)
ParseFrom(d, h, p, first, alloc, acc) ==
  LET claimed == h.claim_txg # 0
  IN  IF \/ p = Hole
         \/ claimed /\ p.seq > h.blk_seq
         \/ ~claimed /\ ~Claimable(p, first, alloc)
        THEN acc
        ELSE LET acc1 == [acc EXCEPT !.blks = Append(@, p)]
                 last == IF acc.recs = <<>> THEN 0 ELSE Last(acc.recs).seq
             IN  IF \/ claimed /\ last = h.lr_seq /\ p.seq = h.blk_seq
                    \/ ~ReadLogBlock(d, p)
                   THEN acc1
                   ELSE LET c == d[p.blk]
                            Good(r) == IF claimed THEN r.seq <= h.lr_seq
                                         ELSE DataClaimable(d, r, first)
                            n == Max({k \in 0 .. Len(c.recs) : \A i \in 1 .. k : Good(c.recs[i])})
                            rs == SubSeq(c.recs, 1, n)
                            acc2 == [acc1 EXCEPT !.recs = @ \o rs]
                        IN  IF rs # c.recs THEN acc2
                              ELSE ParseFrom(d, h, c.next, first, alloc, acc2)

\* zil_parse: the blocks visited, the last of which may be unreadable, and the
\* records.
Parse(d, h, first, alloc) ==
  ParseFrom(d, h, h.log, first, alloc, [blks |-> <<>>, recs |-> <<>>])

\* A record that zil_replay passes over.
Skipped(h, r) == r.seq <= h.replay_seq \/ r.txg < h.claim_txg

-----------------------------------------------------------------------------
(* Operations                                                              *)

\* The object is there: it was created, where that is one of the operations, and
\* not removed.
Exists(f) ==
  \A p \in {q \in Ops : Obj[q] = f} :
    (Kind[p] = "create" => times[p] > 0) /\ (Kind[p] = "remove" => times[p] = 0)

\* An operation enters a txg.  The locks on its object are held until its record
\* is assigned.
Begin(o) ==
  /\ rpc = "run" /\ state[o] = "new"
  /\ Kind[o] # "create" => Exists(Obj[o])
  /\ \A p \in Ops : Obj[p] = Obj[o] => state[p] # "tx"
  /\ state' = [state EXCEPT ![o] = "tx"]
  /\ otxg' = [otxg EXCEPT ![o] = open]
  /\ UNCHANGED <<times, order, txgvars, zl_itxg, commit_list, zl_lwb_list, logvars, wvars,
                 space, recovery, media, promised>>

Joined(s, a) == s \o a

\* zil_async_to_sync: one itxg.
ToSync(x, f) ==
  LET fs == IF f = 0 THEN Objs ELSE {f}
  IN  [x EXCEPT !.sync = FoldSet(LAMBDA g, s : Joined(s, x.async[g]), @, fs),
                !.async = [g \in Objs |-> IF g \in fs THEN <<>> ELSE x.async[g]]]

\* What zil_itx_assign does to the records of all active txgs first.
BeforeAssign(o, x, t) ==
  CASE x.txg = t /\ Kind[o] = "rename" -> ToSync(x, Obj[o])
    [] x.txg = t /\ Kind[o] = "remove" -> [x EXCEPT !.async[Obj[o]] = <<>>]
    [] OTHER -> x

\* The txgs that may be active, as the last synced one tells.
Active == synced + 1 .. synced + TXG_CONCURRENT_STATES

\* zil_itx_assign, and the end of the transaction.
zil_itx_assign(o) ==
  /\ state[o] = "tx"
  /\ LET t == otxg[o]
         z == [i \in DOMAIN zl_itxg |->
                 IF \E u \in Active : Slot(u) = i
                   THEN BeforeAssign(o, zl_itxg[i], CHOOSE u \in Active : Slot(u) = i)
                   ELSE zl_itxg[i]]
         x == IF z[Slot(t)].txg = t THEN z[Slot(t)] ELSE [NoItxs EXCEPT !.txg = t]
     IN  zl_itxg' = [z EXCEPT ![Slot(t)] =
                       IF Kind[o] = "write" THEN [x EXCEPT !.async[Obj[o]] = Append(@, o)]
                         ELSE [x EXCEPT !.sync = Append(@, o)]]
  /\ state' = [state EXCEPT ![o] = "done"]
  /\ times' = [times EXCEPT ![o] = @ + 1]
  /\ order' = Append(order, o)
  /\ dirty' = dirty \cup {otxg[o]}
  /\ UNCHANGED <<otxg, open, synced, stage, commit_list, zl_lwb_list, logvars, wvars, space,
                 recovery, media, promised>>

-----------------------------------------------------------------------------
(* zil_commit                                                              *)

\* What a caller of zil_commit(f) may rely on afterwards.
Asked(f) ==
  {o \in Ops : state[o] = "done" /\ (f = 0 \/ Obj[o] = f \/ Kind[o] # "write")}

zil_commit(f) ==
  /\ rpc = "run" /\ wpc = "idle" /\ commits < Commits
  /\ commits' = commits + 1
  /\ foid' = f /\ target' = Asked(f)
  /\ wpc' = "async" /\ scan' = 0 /\ otx' = synced + 1
  /\ UNCHANGED <<opvars, txgvars, zl_itxg, commit_list, zl_lwb_list, logvars, has_lwb, waitfor,
                 space, recovery, media, promised>>

\* zil_async_to_sync: one txg after the other, counted from the last synced txg
\* when it began.
AsyncToSync ==
  /\ wpc = "async"
  /\ LET t == otx + scan
     IN  zl_itxg' = [zl_itxg EXCEPT ![Slot(t)] = IF @.txg = t THEN ToSync(@, foid) ELSE @]
  /\ IF scan < TXG_CONCURRENT_STATES - 1
       THEN scan' = scan + 1 /\ UNCHANGED <<wpc, otx>>
       ELSE scan' = 0 /\ wpc' = "collect" /\ otx' = synced + 1
  /\ UNCHANGED <<opvars, txgvars, commit_list, zl_lwb_list, logvars, foid, has_lwb, waitfor,
                 target, commits, space, recovery, media, promised>>

\* zil_get_commit_list: one txg after the other.
GetCommitList ==
  /\ wpc = "collect"
  /\ LET t == otx + scan
         x == zl_itxg[Slot(t)]
         more == IF x.txg = t THEN x.sync ELSE <<>>
     IN  /\ commit_list' = commit_list \o more
         /\ zl_itxg' = [zl_itxg EXCEPT ![Slot(t)] = IF x.txg = t THEN [x EXCEPT !.sync = <<>>] ELSE x]
  /\ IF scan < TXG_CONCURRENT_STATES - 1
       THEN scan' = scan + 1 /\ UNCHANGED wpc
       ELSE scan' = 0 /\ wpc' = "choose"
  /\ UNCHANGED <<opvars, txgvars, zl_lwb_list, logvars, foid, otx, has_lwb, waitfor, target,
                 commits, space, recovery, media, promised>>

\* The end of zil_commit_writer and of the call.
Return ==
  /\ promised' = promised \cup target
  /\ wpc' = "idle" /\ target' = {} /\ has_lwb' = FALSE
  /\ foid' = 0 /\ otx' = 0 /\ waitfor' = 0

Nothing ==
  /\ wpc = "choose" /\ commit_list = <<>>
  /\ Return
  /\ UNCHANGED <<opvars, txgvars, zl_itxg, commit_list, zl_lwb_list, logvars, scan, commits,
                 space, recovery, media>>

\* The last log write buffer, if there is one.
TakeTail ==
  /\ wpc = "choose" /\ commit_list # <<>> /\ zl_lwb_list # <<>>
  /\ has_lwb' = TRUE /\ wpc' = "write"
  /\ UNCHANGED <<opvars, txgvars, zl_itxg, commit_list, zl_lwb_list, logvars, foid, scan, otx,
                 waitfor, target, commits, space, recovery, media, promised>>

\* zio_alloc_zil: space that is free, if there is any.
Free == Blocks \ inuse
Alloc(b) ==
  /\ inuse' = inuse \cup {b}
  /\ birth' = [birth EXCEPT ![b] = open]
  /\ freed' = [freed EXCEPT ![b] = 0]
AllocFails == (Free = {} \/ "alloc" \in Faults) /\ UNCHANGED space

\* zil_create, once an earlier destruction has synced: the block that the header
\* has kept, or a new one, which the header must point at before it is used.
zil_create ==
  /\ wpc = "choose" /\ commit_list # <<>> /\ zl_lwb_list = <<>>
  /\ synced >= zl_destroy_txg
  /\ \/ /\ zh.log # Hole
        /\ zl_lwb_list' = <<NewLwb(zh.log, 0)>>
        /\ has_lwb' = TRUE /\ wpc' = "write"
        /\ UNCHANGED <<waitfor, guid, space, dirty>>
     \/ /\ zh.log = Hole
        /\ dirty' = dirty \cup {open} /\ waitfor' = open /\ wpc' = "created"
        /\ \/ /\ Free # {} /\ Alloc(Min(Free))
              /\ guid' = guid + 1
              /\ zl_lwb_list' = <<NewLwb([blk |-> Min(Free), guid |-> guid + 1, seq |-> 1,
                                          birth |-> open], open)>>
              /\ has_lwb' = TRUE
           \/ AllocFails /\ UNCHANGED <<zl_lwb_list, guid, has_lwb>>
  /\ UNCHANGED <<opvars, open, synced, stage, zl_itxg, commit_list, zl_lr_seq, zl_destroy_txg,
                 zl_keep_first, zl_replayed_seq, zh, foid, scan, otx, target, commits, recovery,
                 media, promised>>

Created ==
  /\ wpc = "created" /\ synced >= waitfor
  /\ wpc' = "write"
  /\ UNCHANGED <<opvars, txgvars, zl_itxg, commit_list, zl_lwb_list, logvars, foid, scan, otx,
                 has_lwb, waitfor, target, commits, space, recovery, media, promised>>

lwb == Last(zl_lwb_list)

\* zil_lwb_write_start holds its transaction until the block is written.
Held(t) == t

\* zil_lwb_write_start: the next block is allocated, this one names it and is
\* written.  zio: zil_lwb_write_init was called for the next one.
WriteStart(zio) ==
  /\ dirty' = dirty \cup {open}
  /\ LET Started(next) == [lwb EXCEPT !.tx = Held(open), !.writing = TRUE, !.next = next]
     IN  \/ /\ Free # {} /\ Alloc(Min(Free))
            /\ LET next == [blk |-> Min(Free), guid |-> lwb.ptr.guid, seq |-> lwb.ptr.seq + 1,
                            birth |-> open]
               IN  zl_lwb_list' = Front(zl_lwb_list) \o <<Started(next), [NewLwb(next, open) EXCEPT !.zio = zio]>>
            /\ has_lwb' = TRUE
         \/ /\ AllocFails
            /\ zl_lwb_list' = Front(zl_lwb_list) \o <<Started(Hole)>>
            /\ has_lwb' = FALSE

Full == has_lwb /\ Len(lwb.recs) = Fit

Record == Head(commit_list)
Rest == Tail(commit_list)

\* zil_lwb_commit: the record does not fit.  It goes into the next block; without
\* one it is left out, and if it does not fit there either its txg is waited for.
NextBlock ==
  /\ wpc = "write" /\ commit_list # <<>> /\ otxg[Record] > synced /\ Full
  /\ WriteStart(TRUE)
  /\ \/ has_lwb' /\ wpc' = "place" /\ UNCHANGED <<commit_list, waitfor>>
     \/ ~has_lwb' /\ commit_list' = Rest /\ UNCHANGED <<wpc, waitfor>>
     \/ /\ has_lwb' /\ "large" \in Faults
        /\ commit_list' = Rest /\ wpc' = "created" /\ waitfor' = otxg[Record]
  /\ UNCHANGED <<opvars, open, synced, stage, zl_itxg, logvars, foid, scan,
                 otx, target, commits, recovery, media, promised>>

\* A record is passed over: its txg has synced, or there is no log block.
PassOver ==
  /\ wpc = "write" /\ commit_list # <<>>
  /\ otxg[Record] <= synced \/ ~has_lwb
  /\ commit_list' = Rest
  /\ UNCHANGED <<opvars, txgvars, zl_itxg, zl_lwb_list, logvars, wvars, space, recovery, media,
                 promised>>

Removed(o) == \E p \in Ops : Kind[p] = "remove" /\ Obj[p] = Obj[o] /\ state[p] \in {"done", "lost"}

\* zil_lwb_commit: there is room for the record.
Room ==
  \/ wpc = "place"
  \/ wpc = "write" /\ commit_list # <<>> /\ has_lwb /\ ~Full /\ otxg[Record] > synced

\* zl_get_data fails with ENOENT, as the object was removed: the record is passed over.
ObjectGone ==
  /\ Room /\ Kind[Record] = "write" /\ Removed(Record)
  /\ wpc' = "write" /\ commit_list' = Rest
  /\ zl_lwb_list' = Front(zl_lwb_list) \o <<[lwb EXCEPT !.zio = TRUE]>>
  /\ UNCHANGED <<opvars, txgvars, zl_itxg, logvars, foid, scan, otx, has_lwb, waitfor, target,
                 commits, space, recovery, media, promised>>

\* zl_get_data fails with EIO: the record is not logged, its txg is waited for.
DataError ==
  /\ Room /\ "data" \in Faults /\ Kind[Record] = "write" /\ ~Removed(Record)
  /\ waitfor' = otxg[Record] /\ wpc' = "created"
  /\ commit_list' = Rest
  /\ zl_lwb_list' = Front(zl_lwb_list) \o <<[lwb EXCEPT !.zio = TRUE]>>
  /\ UNCHANGED <<opvars, txgvars, zl_itxg, logvars, foid, scan, otx, has_lwb, target, commits,
                 space, recovery, media, promised>>

\* A log block is needed until the txgs of its records have synced.
MaxTxgOf(l, t) == Max({l.max_txg, t})

\* zil_lwb_commit: the record goes into the block.
AddRecord ==
  /\ Room /\ ~(Kind[Record] = "write" /\ Removed(Record))
  /\ zl_lwb_list' = Front(zl_lwb_list) \o
       <<[lwb EXCEPT !.recs = Append(@, [op |-> Record, txg |-> otxg[Record], seq |-> zl_lr_seq + 1]),
                     !.max_txg = MaxTxgOf(lwb, otxg[Record]), !.zio = TRUE]>>
  /\ zl_lr_seq' = zl_lr_seq + 1
  /\ wpc' = "write" /\ commit_list' = Rest
  /\ UNCHANGED <<opvars, txgvars, zl_itxg, zl_destroy_txg, zl_keep_first, zl_replayed_seq, zh,
                 guid, foid, scan, otx, has_lwb, waitfor, target, commits, space, recovery,
                 media, promised>>

\* The last block is written out.
LastBlock ==
  /\ wpc = "write" /\ commit_list = <<>> /\ has_lwb /\ lwb.zio
  /\ WriteStart(FALSE)
  /\ wpc' = "wait"
  /\ UNCHANGED <<opvars, open, synced, stage, zl_itxg, commit_list, logvars, foid, scan, otx,
                 waitfor, target, commits, recovery, media, promised>>

NoLastBlock ==
  /\ wpc = "write" /\ commit_list = <<>> /\ ~(has_lwb /\ lwb.zio)
  /\ wpc' = "wait"
  /\ UNCHANGED <<opvars, txgvars, zl_itxg, commit_list, zl_lwb_list, logvars, foid, scan, otx,
                 has_lwb, waitfor, target, commits, space, recovery, media, promised>>

\* The write of a log block ends, with that of the data of its indirect writes
\* (children of its zio); it fails unnoticed, as its zio has
\* ZIO_FLAG_DONT_PROPAGATE.  zil_lwb_write_done gives up the buffer and ends the
\* transaction.
WriteDone(i) ==
  /\ i \in DOMAIN zl_lwb_list /\ zl_lwb_list[i].writing
  /\ LET l == zl_lwb_list[i]
         c == [guid |-> l.ptr.guid, seq |-> l.ptr.seq, recs |-> l.recs, next |-> l.next]
         data == {r.op : r \in Range(l.recs)} \cap Indirect
     IN  \/ cache' = (l.ptr.blk :> c) @@ [o \in data |-> "data"] @@ cache
         \/ "write" \in Faults /\ UNCHANGED cache
  /\ zl_lwb_list' = [zl_lwb_list EXCEPT ![i].writing = FALSE, ![i].buf = FALSE, ![i].tx = 0]
  /\ UNCHANGED <<opvars, txgvars, zl_itxg, commit_list, logvars, wvars, space, recovery, disk,
                 d_zh, d_synced, d_inuse, d_times, promised>>

\* zio_wait on the root.
Waited ==
  /\ wpc = "wait" /\ \A i \in DOMAIN zl_lwb_list : ~zl_lwb_list[i].writing
  /\ wpc' = "flush"
  /\ UNCHANGED <<opvars, txgvars, zl_itxg, commit_list, zl_lwb_list, logvars, foid, scan, otx,
                 has_lwb, waitfor, target, commits, space, recovery, media, promised>>

\* zil_flush_vdevs: what was written is stable.
Flushed == cache @@ disk

\* Without a further log block the last one cannot be read back.
Waits == ~has_lwb

Flush ==
  /\ wpc = "flush"
  /\ disk' = Flushed /\ cache' = <<>>
  /\ IF Waits
       THEN /\ wpc' = "sync" /\ waitfor' = AllTxgs
            /\ UNCHANGED <<promised, target, has_lwb, foid, otx>>
       ELSE Return
  /\ UNCHANGED <<opvars, txgvars, zl_itxg, commit_list, zl_lwb_list, logvars, scan, commits,
                 space, recovery, d_zh, d_synced, d_inuse, d_times>>

\* txg_wait_synced has come back.
Synced ==
  /\ wpc = "sync" /\ synced >= waitfor
  /\ Return
  /\ UNCHANGED <<opvars, txgvars, zl_itxg, commit_list, zl_lwb_list, logvars, scan, commits,
                 space, recovery, media>>

-----------------------------------------------------------------------------
(* Txgs                                                                    *)

\* The txg that somebody waits for.
Awaited == Max({waitfor, claim_max, zl_destroy_txg})

NextTxg ==
  /\ open < synced + TXG_CONCURRENT_STATES
  /\ open < MaxTxg \/ (open = synced + 1 /\ synced < Awaited)
  /\ open' = open + 1
  /\ UNCHANGED <<opvars, synced, stage, dirty, zl_itxg, commit_list, zl_lwb_list, logvars, wvars,
                 space, recovery, media, promised>>

Syncing == synced + 1

\* Nobody is in the txg any more.
Quiesced ==
  /\ Syncing < open
  /\ \A o \in Ops : state[o] = "tx" => otxg[o] # Syncing
  /\ \A i \in DOMAIN zl_lwb_list : zl_lwb_list[i].tx # Syncing

\* The log block is not needed any more.
Gone(l, t) == ~l.buf /\ l.max_txg <= t

\* zil_sync: the destruction of the log, then the blocks at the front that are not
\* needed any more.
zil_sync ==
  LET t == Syncing
      h1 == IF zl_replayed_seq[Slot(t)] # 0
              THEN [zh EXCEPT !.replay_seq = zl_replayed_seq[Slot(t)]] ELSE zh
      kept == [zh.log EXCEPT !.guid = guid + 1, !.seq = 1]
      h2 == IF zl_destroy_txg # t THEN h1
              ELSE IF zl_keep_first THEN [NoHeader EXCEPT !.log = kept] ELSE NoHeader
      n == Max({k \in 0 .. Len(zl_lwb_list) : \A i \in 1 .. k : Gone(zl_lwb_list[i], t)})
      gone == {zl_lwb_list[i].ptr.blk : i \in 1 .. n}
  IN  /\ zh' = IF zl_lwb_list = <<>> THEN h2
                 ELSE [h2 EXCEPT !.log = IF n = Len(zl_lwb_list) THEN Hole
                                           ELSE zl_lwb_list[n + 1].ptr]
      /\ guid' = IF zl_destroy_txg = t /\ zl_keep_first THEN guid + 1 ELSE guid
      /\ zl_replayed_seq' = IF zl_destroy_txg = t THEN [i \in DOMAIN zl_replayed_seq |-> 0]
                              ELSE [zl_replayed_seq EXCEPT ![Slot(t)] = 0]
      /\ zl_lwb_list' = SubSeq(zl_lwb_list, n + 1, Len(zl_lwb_list))
      /\ freed' = [b \in Blocks |-> IF b \in gone THEN t ELSE freed[b]]

SyncStart ==
  /\ stage = "none" /\ Quiesced
  /\ stage' = "written"
  /\ IF Syncing \in dirty THEN zil_sync
       ELSE UNCHANGED <<zh, guid, zl_replayed_seq, zl_lwb_list, freed>>
  /\ UNCHANGED <<opvars, open, synced, dirty, zl_itxg, commit_list, zl_lr_seq, zl_destroy_txg,
                 zl_keep_first, wvars, inuse, birth, recovery, media, promised>>

\* Mutant: the records go before the uberblock is written.
OrderSwapped == <<"written", "cleaned", "committed">>

\* spa_sync commits the txg, then cleans up, then counts it as synced.
OrderOfSync == <<"written", "committed", "cleaned">>

After(s) == CHOOSE u \in {"written", "committed", "cleaned", "none"} :
              \E i \in 1 .. 3 : OrderOfSync[i] = s /\ u = (OrderOfSync \o <<"none">>)[i + 1]

Enters(u) ==
  /\ stage # "none" /\ After(stage) = u
  /\ stage' = u

\* The uberblock: data, header and allocations of the txg are on disk.
SyncCommit ==
  /\ Enters("committed")
  /\ d_zh' = zh /\ d_synced' = Syncing
  /\ d_times' = [o \in Ops |-> IF otxg[o] <= Syncing /\ state[o] = "done" THEN times[o] ELSE d_times[o]]
  /\ inuse' = {b \in inuse : freed[b] # Syncing}
  /\ d_inuse' = {b \in inuse' : birth[b] <= Syncing}
  /\ disk' = cache @@ disk /\ cache' = <<>>
  /\ UNCHANGED <<opvars, open, synced, dirty, zl_itxg, commit_list, zl_lwb_list, logvars, wvars,
                 birth, freed, recovery, promised>>

Cleaned(x) == NoItxs

\* zil_clean.
zil_clean ==
  /\ Enters("cleaned")
  /\ zl_itxg' = [zl_itxg EXCEPT ![Slot(Syncing)] = Cleaned(@)]
  /\ UNCHANGED <<opvars, open, synced, dirty, commit_list, zl_lwb_list, logvars, wvars, space,
                 recovery, media, promised>>

SyncDone ==
  /\ Enters("none")
  /\ synced' = Syncing /\ dirty' = dirty \ {Syncing}
  /\ UNCHANGED <<opvars, open, zl_itxg, commit_list, zl_lwb_list, logvars, wvars, space, recovery,
                 media, promised>>

-----------------------------------------------------------------------------
(* A crash, and recovery                                                   *)

\* The machine stops; some of what the device has not flushed is lost.  spa_load
\* then claims the log, in the first txg.
Crash(S) ==
  /\ crashes < Crashes /\ S \subseteq DOMAIN cache
  /\ crashes' = crashes + 1
  /\ LET d == [b \in S |-> cache[b]] @@ disk
         first == d_synced + 1
         p == Parse(d, d_zh, first, d_inuse)
         claims == d_zh.claim_txg = 0 /\ d_zh.log # Hole
         new == {x.blk : x \in {y \in Range(p.blks) : y.birth >= first}}
         found == {r.op : r \in {x \in Range(p.recs) : ~Skipped(zh', x)}}
         births == {y.birth : y \in Range(p.blks)}
     IN  /\ disk' = d
         /\ zh' = IF ~claims THEN d_zh
                    ELSE [d_zh EXCEPT !.claim_txg = first,
                                      !.blk_seq = IF p.blks = <<>> THEN 0 ELSE Last(p.blks).seq,
                                      !.lr_seq = IF p.recs = <<>> THEN 0 ELSE Last(p.recs).seq,
                                      !.needed = p.recs # <<>> \/ Len(p.blks) > 1]
         /\ inuse' = IF claims THEN d_inuse \cup new ELSE d_inuse
         /\ birth' = [b \in Blocks |-> IF claims /\ b \in new THEN first ELSE 0]
         /\ claim_max' = IF claims THEN Max(births \cup {first}) ELSE first
         /\ dirty' = IF claims THEN {first} ELSE {}
         /\ open' = first /\ synced' = d_synced
         /\ order' = SelectSeq(order, LAMBDA o : d_times[o] > 0 \/ o \in found)
  /\ freed' = [b \in Blocks |-> 0]
  /\ cache' = <<>> /\ stage' = "none"
  /\ state' = [o \in Ops |-> IF d_times[o] > 0 THEN "done" ELSE IF state[o] = "new" THEN "new" ELSE "lost"]
  /\ times' = d_times
  /\ otxg' = [o \in Ops |-> IF d_times[o] > 0 THEN otxg[o] ELSE 0]
  /\ zl_itxg' = [i \in DOMAIN zl_itxg |-> NoItxs]
  /\ commit_list' = <<>> /\ zl_lwb_list' = <<>> /\ zl_lr_seq' = 0
  /\ zl_destroy_txg' = 0 /\ zl_keep_first' = FALSE
  /\ zl_replayed_seq' = [i \in DOMAIN zl_replayed_seq |-> 0]
  /\ wpc' = "idle" /\ foid' = 0 /\ scan' = 0 /\ otx' = 0 /\ has_lwb' = FALSE /\ waitfor' = 0
  /\ target' = {}
  /\ rpc' = "claimed" /\ todo' = <<>>
  /\ UNCHANGED <<guid, commits, given_up, d_zh, d_synced, d_inuse, d_times, promised>>

\* spa_load waits for the txgs from which log blocks were claimed.
ClaimsAwaited == synced >= claim_max

zil_destroy(keep) ==
  /\ zl_destroy_txg' = open /\ zl_keep_first' = keep
  /\ dirty' = dirty \cup {open}
  /\ LET bs == {p.blk : p \in Range(Parse(disk, zh, 0, {}).blks)}
     IN  freed' = [b \in Blocks |-> IF ~keep /\ b \in bs THEN open ELSE freed[b]]

\* zil_replay: a log without content is destroyed, but for its first block.  Before
\* another is replayed, removals that are in progress must sync.
Mount ==
  /\ rpc = "claimed" /\ ClaimsAwaited
  /\ IF zh.needed
       THEN /\ rpc' = "mounting" /\ waitfor' = AllTxgs
            /\ UNCHANGED <<zl_destroy_txg, zl_keep_first, dirty, freed>>
       ELSE /\ rpc' = "run" /\ UNCHANGED waitfor
            /\ IF zh.log = Hole THEN UNCHANGED <<zl_destroy_txg, zl_keep_first, dirty, freed>>
                 ELSE zil_destroy(TRUE)
  /\ UNCHANGED <<opvars, open, synced, stage, zl_itxg, commit_list, zl_lwb_list, zl_lr_seq,
                 zl_replayed_seq, zh, guid, wpc, foid, scan, otx, has_lwb, target, commits, inuse,
                 birth, todo, claim_max, crashes, given_up, media, promised>>

ReplayStart ==
  /\ rpc = "mounting" /\ synced >= waitfor
  /\ rpc' = "replay" /\ todo' = Parse(disk, zh, 0, {}).recs
  /\ UNCHANGED <<opvars, txgvars, zl_itxg, commit_list, zl_lwb_list, logvars, wvars, space,
                 claim_max, crashes, given_up, media, promised>>

\* zil_replay_log_record passes over what was replayed or committed before, and
\* over writes, which may be logged out of order, to an object that is gone.
PassedOver(r) == Skipped(zh, r) \/ (Kind[r.op] = "write" /\ ~Exists(Obj[r.op]))

\* zil_replay_log_record: the operation, and in the same txg how far replay came
\* (zil_replaying).
Replay ==
  /\ rpc \in {"replay", "again"} /\ todo # <<>> /\ (rpc = "again" => synced >= waitfor)
  /\ rpc' = "replay" /\ todo' = Tail(todo)
  /\ LET r == Head(todo)
     IN  IF PassedOver(r) THEN UNCHANGED <<state, otxg, times, dirty, zl_replayed_seq>>
           ELSE /\ state' = [state EXCEPT ![r.op] = "done"]
                /\ otxg' = [otxg EXCEPT ![r.op] = open]
                /\ times' = [times EXCEPT ![r.op] = @ + 1]
                /\ dirty' = dirty \cup {open}
                /\ zl_replayed_seq' = [zl_replayed_seq EXCEPT ![Slot(open)] = r.seq]
  /\ UNCHANGED <<order, open, synced, stage, zl_itxg, commit_list, zl_lwb_list, zl_lr_seq,
                 zl_destroy_txg, zl_keep_first, zh, guid, wvars, space, claim_max, crashes,
                 given_up, media, promised>>

\* The replay function fails.  It is tried again when removals have synced; if it
\* fails again (zil_replay_error) the rest of the log is given up.
ReplayFails ==
  /\ "replay" \in Faults /\ todo # <<>> /\ ~PassedOver(Head(todo))
  /\ \/ /\ rpc = "replay"
        /\ rpc' = "again" /\ waitfor' = AllTxgs /\ UNCHANGED <<todo, given_up>>
     \/ /\ rpc = "again" /\ synced >= waitfor
        /\ rpc' = "replay" /\ todo' = <<>> /\ UNCHANGED waitfor
        /\ given_up' = given_up \cup {r.op : r \in Range(todo)}
  /\ UNCHANGED <<opvars, txgvars, zl_itxg, commit_list, zl_lwb_list, logvars, wpc, foid, scan,
                 otx, has_lwb, target, commits, space, claim_max, crashes, media, promised>>

\* The log is destroyed, then the file system is open.
Replayed ==
  /\ rpc = "replay" /\ todo = <<>>
  /\ zil_destroy(FALSE)
  /\ rpc' = "destroyed"
  /\ UNCHANGED <<opvars, open, synced, stage, zl_itxg, commit_list, zl_lwb_list, zl_lr_seq,
                 zl_replayed_seq, zh, guid, wvars, inuse, birth, todo, claim_max, crashes,
                 given_up, media, promised>>

Destroyed ==
  /\ rpc = "destroyed" /\ synced >= zl_destroy_txg
  /\ rpc' = "run"
  /\ UNCHANGED <<opvars, txgvars, zl_itxg, commit_list, zl_lwb_list, logvars, wvars, space, todo,
                 claim_max, crashes, given_up, media, promised>>

Next ==
  \/ \E o \in Ops : Begin(o) \/ zil_itx_assign(o)
  \/ \E f \in Objs \cup {0} : zil_commit(f)
  \/ AsyncToSync \/ GetCommitList \/ Nothing \/ TakeTail \/ zil_create \/ Created
  \/ NextBlock \/ PassOver \/ ObjectGone \/ DataError \/ AddRecord \/ LastBlock \/ NoLastBlock
  \/ \E i \in 1 .. Cardinality(Blocks) : WriteDone(i)
  \/ Waited \/ Flush \/ Synced
  \/ NextTxg \/ SyncStart \/ SyncCommit \/ zil_clean \/ SyncDone
  \/ \E S \in SUBSET DOMAIN cache : Crash(S)
  \/ Mount \/ ReplayStart \/ Replay \/ ReplayFails \/ Replayed \/ Destroyed

Spec == Init /\ [][Next]_vars

-----------------------------------------------------------------------------
\* The fields have their types.
TypeOK ==
  /\ state \in [Ops -> {"new", "tx", "done", "lost"}]
  /\ synced < open /\ d_synced \in {synced, synced + 1}
  /\ stage \in {"none", "written", "committed", "cleaned"}
  /\ \A i \in DOMAIN zl_itxg :
       zl_itxg[i].txg \in {0} \cup {t \in synced + 1 .. open : Slot(t) = i}
  /\ inuse \subseteq Blocks /\ d_inuse \subseteq Blocks
  /\ DOMAIN disk \subseteq Blocks \cup Indirect /\ DOMAIN cache \subseteq Blocks \cup Indirect

\* What a crash now would leave of the log, if nothing more is flushed.
Chain == Parse(disk, d_zh, d_synced + 1, d_inuse)

InLog ==
  {r.op : r \in {x \in Range(Chain.recs) :
                   /\ x.seq > d_zh.replay_seq
                   /\ x.txg >= IF d_zh.claim_txg # 0 THEN d_zh.claim_txg ELSE d_synced + 1}}

\* The operations that survive a crash.
Survive == {o \in Ops : d_times[o] > 0} \cup InLog

Position(o) == CHOOSE i \in DOMAIN order : order[i] = o
Before(p, o) == p \in Range(order) /\ o \in Range(order) /\ Position(p) < Position(o)

\* A later removal of the object makes an operation void.
Void(o, S) == \E p \in S : Kind[p] = "remove" /\ Obj[p] = Obj[o] /\ Before(o, p)

\* What zil_commit has reported as stable is found on disk after a crash at any
\* moment, and is there again when the file system is open, unless the object was
\* removed or replay has failed for good.
CommittedSurvive ==
  \A o \in {p \in promised \ given_up : ~Removed(p)} :
    o \in Survive /\ (rpc = "run" => times[o] = 1)

\* The operations of a txg on one object survive in order: with one of them all
\* earlier ones, except for writes that a later operation other than a rename need not
\* wait for.
SurviveInOrder ==
  \A o \in Survive, p \in Ops :
    /\ Before(p, o) /\ Obj[p] = Obj[o] /\ otxg[p] = otxg[o]
    /\ ~(Kind[p] = "write" /\ Kind[o] = "remove")
    => p \in Survive \/ Void(p, Range(order))

\* No operation is applied to the data twice, by whatever crashes during replay.
AppliedOnce == \A o \in Ops : times[o] <= 1 /\ (d_times[o] > 0 => o \notin InLog)

\* The space in use on disk is the chain that recovery will visit and free: no log
\* block leaks in a crash, and none is freed that was given to someone else.
LogBlocksExact ==
  d_inuse = {p.blk : p \in {x \in Range(Chain.blks) :
                              d_zh.claim_txg # 0 \/ x.birth <= d_synced}}

\* The writer has a buffer to write to: "ASSERT(lwb->lwb_buf != NULL)" in
\* zil_lwb_commit.
WriterHasBuffer ==
  wpc = "write" /\ has_lwb => zl_lwb_list # <<>> /\ lwb.buf /\ ~lwb.writing
=============================================================================
