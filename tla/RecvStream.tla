----------------------------- MODULE RecvStream -----------------------------
(***************************************************************************)
(* dmu_recv_stream (dmu_send.c): the main thread reads the records of a    *)
(* stream, one ahead, and hands them through a blocking queue to a writer  *)
(* thread, which applies them.  Reading, applying and the user may stop    *)
(* it at any record.                                                       *)
(***************************************************************************)
EXTENDS Bqueue

CONSTANTS
  NRecords,     \* bound: the records of the stream before DRR_END
  main, wr, drr_end, eos

Records == 1..NRecords

VARIABLES
  next_rrd,     \* the record read ahead
  mpc, wpc,     \* where the two threads are
  err, rwa_err, \* the main thread's error and rwa.err
  done,         \* rwa.done
  waits,        \* the main thread sleeps on rwa.cv
  applied,      \* the records applied
  records       \* the receive_record_args that are allocated

recvVars == <<next_rrd, mpc, wpc, err, rwa_err, done, waits, applied, records>>
vars == <<queueVars, recvVars>>

TypeOK ==
  /\ BqTypeOK
  /\ next_rrd \in Items \cup {NoItem}
  /\ mpc \in {"loop", "put", "stop", "last", "wait", "done"}
  /\ wpc \in {"next", "take", "exit"}
  /\ {err, rwa_err} \subseteq {"0", "EINTR", "EIO"} /\ done \in BOOLEAN /\ waits \in BOOLEAN
  /\ applied \in Seq(Records) /\ records \subseteq Items

Following(r) == IF r = NRecords THEN drr_end ELSE r + 1

-----------------------------------------------------------------------------
(* The main thread.                                                        *)

\* The loop ends if the record could not be read.
AfterRead(e) == mpc' = IF e = "0" THEN "put" ELSE "stop"

\* receive_read_record: reads the payload of the record at hand and the header
\* of the next.  It may fail before or after it has the next header.
receive_read_record ==
  /\ mpc = "loop" /\ rwa_err = "0" /\ next_rrd # drr_end
  /\ \E e \in {"0", "EIO"}, next \in {Following(next_rrd), NoItem} :
       /\ e = "0" => next # NoItem
       /\ err' = e
       /\ next_rrd' = next
       /\ AfterRead(e)
       /\ IF mpc' = "put"
          THEN /\ bqueue_enqueue(main, next_rrd)
               /\ records' = records \cup ({next} \ {NoItem})
          ELSE /\ records' = (records \ {next_rrd}) \cup ({next} \ {NoItem})
               /\ UNCHANGED queueVars
  /\ UNCHANGED <<wpc, rwa_err, done, waits, applied>>

\* DRR_END: the checksum of the whole stream is right, or not.
ReadEnd ==
  /\ mpc = "loop" /\ rwa_err = "0" /\ next_rrd = drr_end
  /\ err' \in {"0", "EIO"}
  /\ next_rrd' = NoItem
  /\ records' = records \ {drr_end}
  /\ mpc' = "stop"
  /\ UNCHANGED <<queueVars, wpc, rwa_err, done, waits, applied>>

Interrupted ==
  /\ mpc = "loop" /\ rwa_err = "0"
  /\ err' = "EINTR" /\ mpc' = "stop"
  /\ UNCHANGED <<queueVars, next_rrd, wpc, rwa_err, done, waits, applied, records>>

\* The writer failed.
WriterFailed ==
  /\ mpc = "loop" /\ rwa_err # "0"
  /\ mpc' = "stop"
  /\ UNCHANGED <<queueVars, next_rrd, wpc, err, rwa_err, done, waits, applied, records>>

Enqueued ==
  /\ mpc = "put" /\ Runs(main, "none")
  /\ mpc' = "loop"
  /\ UNCHANGED <<queueVars, next_rrd, wpc, err, rwa_err, done, waits, applied, records>>

\* Mutant: without a next record there is no marker.
StopWithoutMarker ==
  /\ mpc = "stop"
  /\ IF next_rrd = NoItem THEN UNCHANGED <<queueVars, records>>
     ELSE bqueue_enqueue(main, eos) /\ records' = (records \ {next_rrd}) \cup {eos}
  /\ next_rrd' = NoItem /\ mpc' = "last"
  /\ UNCHANGED <<wpc, err, rwa_err, done, waits, applied>>

\* The record read ahead, or a new one, becomes the end-of-stream marker.
Stop ==
  /\ mpc = "stop"
  /\ bqueue_enqueue(main, eos)
  /\ records' = (records \ {next_rrd}) \cup {eos}
  /\ next_rrd' = NoItem /\ mpc' = "last"
  /\ UNCHANGED <<wpc, err, rwa_err, done, waits, applied>>

MarkerPut ==
  /\ mpc = "last" /\ Runs(main, "none")
  /\ mpc' = "wait"
  /\ UNCHANGED <<queueVars, next_rrd, wpc, err, rwa_err, done, waits, applied, records>>

\* Wait for rwa.done; destroy the queue and return.
WaitDone ==
  /\ mpc = "wait" /\ ~waits
  /\ IF done
     THEN mpc' = "done" /\ err' = (IF err = "0" THEN rwa_err ELSE err) /\ UNCHANGED waits
     ELSE waits' = TRUE /\ UNCHANGED <<mpc, err>>
  /\ UNCHANGED <<queueVars, next_rrd, wpc, rwa_err, done, applied, records>>

-----------------------------------------------------------------------------
(* receive_writer_thread.                                                  *)

WriterNext ==
  /\ wpc = "next"
  /\ bqueue_dequeue(wr)
  /\ wpc' = "take"
  /\ UNCHANGED <<next_rrd, mpc, err, rwa_err, done, waits, applied, records>>

\* Mutant: later records are applied after one failed.
ProcessAfterError(r) ==
  \/ applied' = Append(applied, r) /\ UNCHANGED rwa_err
  \/ rwa_err' = "EIO" /\ UNCHANGED applied

\* Apply the record, unless one failed before.
receive_process_record(r) ==
  \/ rwa_err = "0" /\ applied' = Append(applied, r) /\ UNCHANGED rwa_err
  \/ rwa_err = "0" /\ rwa_err' = "EIO" /\ UNCHANGED applied
  \/ rwa_err # "0" /\ UNCHANGED <<rwa_err, applied>>

\* kmem_free(rrd)
FreeRecord(r) == records \ {r}

WriterProcess ==
  /\ wpc = "take" /\ Runs(wr, "none") /\ bq[wr].item # eos
  /\ receive_process_record(bq[wr].item)
  /\ records' = FreeRecord(bq[wr].item)
  /\ wpc' = "next"
  /\ UNCHANGED <<queueVars, next_rrd, mpc, err, done, waits>>

\* The marker: set rwa.done and signal rwa.cv.
WriterDone ==
  /\ wpc = "take" /\ Runs(wr, "none") /\ bq[wr].item = eos
  /\ records' = records \ {eos}
  /\ done' = TRUE /\ waits' = FALSE
  /\ wpc' = "exit"
  /\ UNCHANGED <<queueVars, next_rrd, mpc, err, rwa_err, applied>>

-----------------------------------------------------------------------------
\* The first header has been read.
Init ==
  /\ BqInit
  /\ next_rrd = Following(0) /\ records = {Following(0)}
  /\ mpc = "loop" /\ wpc = "next"
  /\ err = "0" /\ rwa_err = "0" /\ done = FALSE /\ waits = FALSE
  /\ applied = << >>

Main ==
  \/ receive_read_record \/ ReadEnd \/ WriterFailed \/ Enqueued
  \/ Stop \/ MarkerPut \/ WaitDone
Writer == WriterNext \/ WriterProcess \/ WriterDone
Queue(t) == BqStep(t) /\ UNCHANGED recvVars
SpuriousWake ==
  /\ waits /\ waits' = FALSE
  /\ UNCHANGED <<queueVars, next_rrd, mpc, wpc, err, rwa_err, done, applied, records>>

RecvNext ==
  \/ Main \/ Interrupted \/ Writer \/ SpuriousWake
  \/ \E t \in Threads : Queue(t) \/ (BqSpurious(t) /\ UNCHANGED recvVars)

\* The queue, on the main thread's stack, goes away when it is empty and the
\* writer does not use it any more, and every record was freed.
DestroyedUnused ==
  mpc = "done" => bq_list = << >> /\ records = {} /\ wpc = "exit" /\ bq[wr].op = "none"
-----------------------------------------------------------------------------
(* The inductive invariant.  The first c records, and after them the       *)
(* end-of-stream marker, go through the queue.                             *)

Ended == mpc \in {"last", "wait", "done"}
Put(c) == c + (IF Ended THEN 1 ELSE 0)
Item(c, i) == IF i <= c THEN i ELSE eos

\* How many the writer has taken off the queue, and how many it has dealt with.
Taken(c) == Put(c) - (IF bq[main].op = "enqueue" THEN 1 ELSE 0) - Len(bq_list)
InHand == bq[wr].op = "signal" \/ (bq[wr].op = "none" /\ wpc = "take")
Dealt(c) == Taken(c) - (IF InHand THEN 1 ELSE 0)

\* The calls agree with where the threads are.
RecvCalls(c) ==
  /\ bq[main].op \in {"none", "enqueue"} /\ bq[wr].op \in {"none", "dequeue", "signal"}
  /\ bq[main].op = "enqueue" => mpc \in {"put", "last"} /\ Put(c) > 0 /\ bq[main].item = Item(c, Put(c))
  /\ bq[wr].op # "none" => wpc = "take"

\* The queue and the writer have the last of the records, in order.
RecvOrder(c) ==
  /\ Dealt(c) >= 0 /\ \A i \in 1..Len(bq_list) : bq_list[i] = Item(c, Taken(c) + i)
  /\ InHand => bq[wr].item = Item(c, Taken(c))
  /\ wpc # "exit" => Dealt(c) <= c
  /\ wpc = "exit" => Ended /\ Dealt(c) = Put(c)
  /\ done <=> wpc = "exit"
  /\ mpc = "done" => done

\* What is allocated: what the writer still has to deal with, and the record read ahead.
RecvRecords(c) ==
  records = {Item(c, i) : i \in (Dealt(c) + 1)..Put(c)} \cup ({next_rrd} \ {NoItem})

\* What was applied, and what the errors say of it.
RecvState(c) ==
  /\ mpc \in {"loop", "put"} => next_rrd = Following(c) /\ err = "0"
  /\ mpc = "stop" => next_rrd \in {NoItem, drr_end} \cup (c + 1)..NRecords
  /\ Ended => next_rrd = NoItem
  /\ \A i \in DOMAIN applied : applied[i] = i
  /\ Len(applied) <= c /\ Len(applied) <= Dealt(c)
  /\ rwa_err = "0" => Len(applied) = IF wpc = "exit" THEN c ELSE Dealt(c)
  /\ mpc \in {"stop", "last", "wait"} /\ err = "0" => c = NRecords \/ rwa_err # "0"
  /\ mpc = "done" /\ err = "0" => c = NRecords /\ rwa_err = "0"

RecvInv(c) ==
  TypeOK /\ Sized /\ RecvCalls(c) /\ RecvOrder(c) /\ RecvRecords(c) /\ RecvState(c)
=============================================================================
