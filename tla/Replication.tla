---------------------------- MODULE Replication -----------------------------
(***************************************************************************)
(* A send piped into a receive: SendStream writes the records, RecvStream  *)
(* reads them.  The pipe between the two processes, behind vn_rdwr, is     *)
(* external; it keeps the order and ends when the sender is gone.  In this *)
(* build vn_rdwr is a stub that always fails, so that every send ends at   *)
(* its first record: the pipe is the one that the code is written for.     *)
(***************************************************************************)
EXTENDS SendStream

CONSTANTS
  rmain, wr, drr_end,      \* the receiver's threads, and the record DRR_END
  RecvSize(_)              \* item_size in the receiver's queue

ASSUME ReplicationAssumption ==
  /\ rmain # wr /\ drr_end \notin Blocks \cup {eos, NoItem}
  /\ \A x \in Blocks \cup {drr_end, eos} : RecvSize(x) \in 1..(bq_maxsize - 1)

VARIABLES r_list, r_size, r_bq,
          next_rrd, r_mpc, wpc, r_err, rwa_err, done, waits, applied, r_records

rvars == <<r_list, r_size, r_bq,
           next_rrd, r_mpc, wpc, r_err, rwa_err, done, waits, applied, r_records>>

Whole == Recorded(NBlocks)

\* The k-th record of the stream is record k for the receiver.
R == INSTANCE RecvStream WITH
  Threads <- {rmain, wr}, main <- rmain, NRecords <- Len(Whole),
  Items <- (1..Len(Whole)) \cup {drr_end, eos}, Size <- RecvSize,
  bq_list <- r_list, bq_size <- r_size, bq <- r_bq,
  mpc <- r_mpc, err <- r_err, records <- r_records

\* The header of r is in the pipe; DRR_END follows a send that succeeded.
Arrived(r) == IF r = drr_end THEN mpc = "done" /\ err = "0" ELSE r <= Len(dumped)

\* receive_read blocks until there is something to read, or fails.
Receive ==
  /\ Arrived(R!Following(0))
  /\ R!RecvNext
  /\ next_rrd' \notin {next_rrd, NoItem} => Arrived(next_rrd')
  /\ UNCHANGED vars

ReplInit == Init /\ R!Init
ReplNext == (SendNext /\ UNCHANGED rvars) \/ Receive

ReplSpec ==
  /\ ReplInit /\ [][ReplNext]_<<vars, rvars>>
  /\ SendFairness
  /\ WF_rvars(Receive /\ R!Main) /\ WF_rvars(Receive /\ R!Writer)
  /\ \A t \in {rmain, wr} : WF_rvars(Receive /\ R!Queue(t))

-----------------------------------------------------------------------------
\* What the receiver applied are the first blocks of the snapshot, in order and
\* without gaps, whatever fails on either side and however the four threads and
\* two queues interleave; if dmu_recv_stream reports success it is all of them,
\* and dmu_send_impl reported success too.
Transferred ==
  /\ Len(applied) <= Len(Whole)
  /\ \A i \in DOMAIN applied : dumped[applied[i]] = Whole[i]
  /\ r_mpc = "done" /\ r_err = "0" => Len(applied) = Len(Whole) /\ mpc = "done" /\ err = "0"

\* When dmu_send_impl or dmu_recv_stream returns, its queue is empty, no other
\* thread will touch it or the arguments on the stack again, and every record
\* was freed; until then no record of the sender is lost, or freed while in use.
QueuesUnused == RecordsAccounted /\ DestroyedUnused /\ R!DestroyedUnused

\* Inductive: what the receiver has read was written before it was read, and DRR_END
\* by a send that succeeded.
Behind(c) ==
  /\ c <= Len(dumped)
  /\ next_rrd \notin {NoItem, R!Following(0)} => Arrived(next_rrd)
  /\ r_mpc \notin {"loop", "put"} /\ r_err = "0" => rwa_err # "0" \/ Arrived(drr_end)
ReplInv == SendInv /\ \E c \in 0..Len(Whole) : R!RecvInv(c) /\ Behind(c)

\* Both calls return, whichever thread fails and however full the queues are.
BothReturn ==
  /\ <>(mpc = "done" /\ tpc = "exit")
  /\ Arrived(R!Following(0)) ~> r_mpc = "done"
=============================================================================
