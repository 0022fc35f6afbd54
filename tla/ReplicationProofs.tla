------------------------- MODULE ReplicationProofs --------------------------
(***************************************************************************)
(* Theorems about send and receive, for any snapshot, any sizes of records *)
(* and queues, and whatever fails: the receiver applies the records of the *)
(* snapshot in order and without gaps, and neither queue is used or record *)
(* left over when the calls return.                                        *)
(***************************************************************************)
EXTENDS Replication, SendStreamProofs

\* Time for the provers, in seconds; the second pair is for a slow machine.
USE ZenonT(3), SMTT(30), ZenonT(40), SMTT(120)

-----------------------------------------------------------------------------
(* The receiver's steps.                                                   *)

\* What the receiver's queue can hold.
RItems == (1..Len(Whole)) \cup {drr_end, eos}
RCalls == [{rmain, wr} -> [op : R!Ops, item : RItems \cup {NoItem}, asleep : BOOLEAN]]

\* The stream has a record of every block that has one, and the marks are none of them.
LEMMA RecvConstants ==
  /\ Len(Whole) \in Nat /\ Len(Whole) = Count(NBlocks) /\ \A i \in 1..Len(Whole) : Whole[i] = Nth(i)
  /\ eos \notin 1..Len(Whole) /\ NoItem \notin 1..Len(Whole) /\ eos # NoItem
  /\ drr_end \notin 1..Len(Whole) /\ drr_end # eos /\ drr_end # NoItem
  /\ rmain # wr /\ NoItem \notin RItems /\ bq_maxsize \in Nat
  /\ \A x \in RItems : RecvSize(x) \in Nat \ {0}
<1>1. NBlocks \in Nat /\ NBlocks \in 0..NBlocks
  BY SendAssumption
<1>2. Count(NBlocks) \in Nat
  BY <1>1, CountNat
<1>3. Count(NBlocks) <= NBlocks
  <2>1. IsFiniteSet(1..NBlocks) /\ Cardinality(1..NBlocks) = NBlocks
    BY <1>1, FS_Interval
  <2>2. (1..NBlocks) \ NoRecord \subseteq 1..NBlocks
    OBVIOUS
  <2> QED BY <2>1, <2>2, FS_Subset DEF Count
<1>4. Len(Whole) = Count(NBlocks) /\ \A i \in 1..Len(Whole) : Whole[i] = Nth(i)
  <2> HIDE DEF Count, Nth
  <2> QED BY <1>2 DEF Whole, Recorded
<1>5. 1..Len(Whole) \subseteq Blocks
  BY <1>1, <1>2, <1>3, <1>4 DEF Blocks
<1>6. eos \notin Blocks /\ NoItem \notin Blocks /\ eos # NoItem
  BY SendAssumption, BqueueAssumption
<1>7. bq_maxsize \in Nat
  BY BqueueAssumption
<1>8. rmain # wr /\ drr_end \notin Blocks /\ drr_end # eos /\ drr_end # NoItem
  BY ReplicationAssumption
<1>9. \A x \in RItems : RecvSize(x) \in Nat \ {0}
  <2>1. \A x \in RItems : RecvSize(x) \in 1..(bq_maxsize - 1)
    BY <1>5, ReplicationAssumption DEF RItems
  <2> QED BY <1>7, <2>1
<1> QED BY <1>2, <1>4, <1>5, <1>6, <1>7, <1>8, <1>9 DEF RItems

\* The receiver's queue: its size is the sum of the sizes before and after a section.
LEMMA RecvSizes ==
  ASSUME r_list \in Seq(RItems), r_size \in 0..bq_maxsize, R!Sized
  PROVE  /\ r_size = 0 <=> r_list = << >>
         /\ r_size # 0 /\ r_list' = Tail(r_list) /\ r_size' = r_size - RecvSize(Head(r_list))
              => r_size' \in 0..bq_maxsize /\ R!Sized'
         /\ \A x \in RItems : R!Room(x) /\ r_list' = Append(r_list, x) /\ r_size' = r_size + RecvSize(x)
              => r_size' \in 0..bq_maxsize /\ R!Sized'
<1> DEFINE f == [x \in RItems |-> RecvSize(x)]
<1>1. bq_maxsize \in Nat /\ f \in [RItems -> Nat \ {0}] /\ \A x \in RItems : f[x] = RecvSize(x)
  BY RecvConstants
<1> HIDE DEF f
<1>3. SumOf(f, r_list, r_size, bq_maxsize)
  <2>1. \A i \in 1..Len(r_list) : f[r_list[i]] = RecvSize(r_list[i])
    BY <1>1
  <2> QED BY <2>1 DEF R!Sized, SumOf
<1>4. ASSUME r_list' \in Seq(RItems), SumOf(f, r_list', r_size', bq_maxsize) PROVE R!Sized'
  <2>1. \A i \in 1..Len(r_list') : f[r_list'[i]] = RecvSize(r_list'[i])
    BY <1>1, <1>4
  <2> QED BY <1>4, <2>1 DEF R!Sized, SumOf
<1>5. r_size = 0 <=> r_list = << >>
  BY <1>1, <1>3, SumTail
<1>6. ASSUME r_size # 0, r_list' = Tail(r_list), r_size' = r_size - RecvSize(Head(r_list))
      PROVE  r_size' \in 0..bq_maxsize /\ R!Sized'
  <2>1. Head(r_list) \in RItems /\ r_list' \in Seq(RItems)
    BY <1>5, <1>6
  <2>2. r_size' = r_size - f[Head(r_list)]
    BY <1>1, <1>6, <2>1
  <2>3. SumOf(f, r_list', r_size', bq_maxsize) /\ r_size' \in 0..bq_maxsize
    BY <1>1, <1>3, <1>6, <2>2, SumTail
  <2> QED BY <1>4, <2>1, <2>3
<1>7. ASSUME NEW x \in RItems, R!Room(x), r_list' = Append(r_list, x), r_size' = r_size + RecvSize(x)
      PROVE  r_size' \in 0..bq_maxsize /\ R!Sized'
  <2>1. r_list' \in Seq(RItems) /\ r_size' = r_size + f[x] /\ r_size + f[x] <= bq_maxsize
    BY <1>1, <1>7 DEF R!Room
  <2>2. SumOf(f, r_list', r_size', bq_maxsize)
    BY <1>1, <1>3, <1>7, <2>1, SumAppend
  <2>3. r_size' \in 0..bq_maxsize
    BY <1>1, <2>1
  <2> QED BY <1>4, <2>1, <2>2, <2>3
<1> QED BY <1>5, <1>6, <1>7

\* cv_signal only wakes a thread of the receiver.
LEMMA RecvSignal ==
  ASSUME NEW b \in RCalls, NEW o, NEW d \in R!Signal(b, o)
  PROVE  d \in RCalls /\ \A t \in {rmain, wr} : d[t].op = b[t].op /\ d[t].item = b[t].item
<1>1. d = b \/ \E t \in {rmain, wr} : d = [b EXCEPT ![t].asleep = FALSE]
  BY DEF R!Signal
<1>2. ASSUME NEW t \in {rmain, wr}, d = [b EXCEPT ![t].asleep = FALSE]
      PROVE  d \in RCalls /\ \A u \in {rmain, wr} : d[u].op = b[u].op /\ d[u].item = b[u].item
  BY <1>2 DEF RCalls
<1> QED BY <1>1, <1>2

\* The numbers of what is put, taken and dealt with, and the calls of the two threads.
LEMMA RecvFacts ==
  ASSUME NEW c \in 0..Len(Whole), R!RecvInv(c)
  PROVE  /\ c \in Nat /\ Len(r_list) \in Nat /\ r_list \in Seq(RItems) /\ r_size \in 0..bq_maxsize /\ r_bq \in RCalls
         /\ R!Put(c) = c + (IF R!Ended THEN 1 ELSE 0) /\ R!Put(c) \in Nat
         /\ R!Taken(c) \in 0..R!Put(c) /\ R!Dealt(c) \in 0..R!Taken(c)
         /\ R!Dealt(c) = R!Taken(c) - (IF R!InHand THEN 1 ELSE 0)
         /\ applied \in Seq(1..Len(Whole)) /\ Len(applied) \in Nat
<1>1. c \in Nat
  BY RecvConstants
<1>2. r_list \in Seq(RItems) /\ r_size \in 0..bq_maxsize /\ r_bq \in RCalls /\ applied \in Seq(1..Len(Whole))
  BY DEF R!RecvInv, R!TypeOK, R!BqTypeOK, RItems, RCalls, R!Records
<1>3. Len(r_list) \in Nat /\ Len(applied) \in Nat
  BY <1>2
<1>4. R!Put(c) = c + (IF R!Ended THEN 1 ELSE 0) /\ R!Put(c) \in Nat
  BY <1>1 DEF R!Put
<1>5. R!Dealt(c) = R!Taken(c) - (IF R!InHand THEN 1 ELSE 0)
  BY DEF R!Dealt
<1>6. R!Taken(c) \in 0..R!Put(c) /\ R!Dealt(c) \in 0..R!Taken(c)
  <2>1. R!Dealt(c) >= 0
    BY DEF R!RecvInv, R!RecvOrder
  <2>2. R!Taken(c) \in Int /\ R!Taken(c) <= R!Put(c)
    <3>1. R!Put(c) \in Nat /\ Len(r_list) \in Nat
      BY <1>3, <1>4
    <3> QED BY <3>1 DEF R!Taken
  <2> QED BY <1>4, <1>5, <2>1, <2>2
<1> QED BY <1>1, <1>2, <1>3, <1>4, <1>5, <1>6

\* A thread that falls asleep, or is woken, changes nothing else.
LEMMA RecvSleep ==
  ASSUME NEW c \in 0..Len(Whole), R!RecvInv(c), UNCHANGED <<r_list, r_size>>, UNCHANGED R!recvVars,
         r_bq' \in RCalls, \A t \in {rmain, wr} : r_bq'[t].op = r_bq[t].op /\ r_bq'[t].item = r_bq[t].item
  PROVE  R!RecvInv(c)'
<1>0. /\ r_bq'[rmain].op = r_bq[rmain].op /\ r_bq'[rmain].item = r_bq[rmain].item
      /\ r_bq'[wr].op = r_bq[wr].op /\ r_bq'[wr].item = r_bq[wr].item
  OBVIOUS
<1>1. /\ R!Ended' = R!Ended /\ R!Put(c)' = R!Put(c) /\ R!Taken(c)' = R!Taken(c)
      /\ R!InHand' = R!InHand /\ R!Dealt(c)' = R!Dealt(c)
  BY <1>0 DEF R!Ended, R!Put, R!Taken, R!InHand, R!Dealt, R!recvVars
<1>2. R!TypeOK' /\ R!Sized'
  BY DEF R!RecvInv, R!TypeOK, R!BqTypeOK, R!Sized, R!recvVars, RCalls, RItems
<1>3. R!RecvCalls(c)'
  BY <1>0, <1>1 DEF R!RecvInv, R!RecvCalls, R!recvVars, R!Item
<1>4. R!RecvOrder(c)'
  BY <1>0, <1>1 DEF R!RecvInv, R!RecvOrder, R!recvVars, R!Item
<1>5. R!RecvRecords(c)' /\ R!RecvState(c)'
  BY <1>1 DEF R!RecvInv, R!RecvRecords, R!RecvState, R!recvVars, R!Item, R!Following
<1> QED BY <1>2, <1>3, <1>4, <1>5 DEF R!RecvInv

\* The record read ahead is one of those to come, or DRR_END.
LEMMA RecvAhead ==
  ASSUME NEW c \in 0..Len(Whole), R!RecvInv(c)
  PROVE  /\ next_rrd \in {NoItem, drr_end} \cup ((c + 1)..Len(Whole))
         /\ R!Ended => next_rrd = NoItem
<1>1. c \in Nat /\ c <= Len(Whole) /\ Len(Whole) \in Nat
  BY RecvConstants
<1>2. r_mpc \in {"loop", "put", "stop"} \/ R!Ended
  BY DEF R!RecvInv, R!TypeOK, R!Ended
<1>3. R!Following(c) \in {drr_end} \cup ((c + 1)..Len(Whole))
  BY <1>1 DEF R!Following
<1> QED BY <1>2, <1>3 DEF R!RecvInv, R!RecvState

\* What is in the queue or with the writer is a record of the first c or the marker, each once;
\* the record read ahead is none of them.
LEMMA RecvItems ==
  ASSUME NEW c \in 0..Len(Whole), R!RecvInv(c)
  PROVE  /\ \A i \in 1..R!Put(c) : /\ R!Item(c, i) \in RItems /\ R!Item(c, i) # next_rrd
                                   /\ R!Item(c, i) = eos <=> i > c
         /\ \A i, j \in 1..R!Put(c) : R!Item(c, i) = R!Item(c, j) => i = j
<1>1. R!Put(c) = c + (IF R!Ended THEN 1 ELSE 0) /\ c \in Nat /\ c <= Len(Whole) /\ Len(Whole) \in Nat
  BY RecvFacts, RecvConstants
<1>2. ASSUME NEW i \in 1..R!Put(c)
      PROVE  R!Item(c, i) \in RItems /\ (R!Item(c, i) = eos <=> i > c) /\ i \in Nat /\ i <= c + 1
  <2>1. i \in Nat /\ i <= c + 1
    BY <1>1
  <2> QED BY <1>1, <2>1, RecvConstants DEF R!Item, RItems
<1>3. ASSUME NEW i \in 1..R!Put(c), NEW j \in 1..R!Put(c), R!Item(c, i) = R!Item(c, j) PROVE i = j
  <2>1. i > c <=> j > c
    BY <1>2, <1>3
  <2> QED BY <1>1, <1>2, <1>3, <2>1 DEF R!Item
<1>4. ASSUME NEW i \in 1..R!Put(c) PROVE R!Item(c, i) # next_rrd
  <2>1. next_rrd \in {NoItem, drr_end} \cup ((c + 1)..Len(Whole)) /\ (R!Ended => next_rrd = NoItem)
    BY RecvAhead
  <2>2. CASE i <= c
    <3>1. R!Item(c, i) = i /\ i \in 1..Len(Whole)
      BY <1>1, <1>2, <2>2 DEF R!Item
    <3> QED BY <1>1, <2>1, <2>2, <3>1, RecvConstants
  <2>3. CASE i > c
    <3>1. R!Item(c, i) = eos /\ R!Ended
      BY <1>1, <1>2, <2>3
    <3> QED BY <2>1, <3>1, RecvConstants
  <2> QED BY <1>1, <1>2, <2>2, <2>3
<1> QED BY <1>2, <1>3, <1>4

\* A record was read: it is put in the queue, and the header of the next is at hand.
LEMMA RecvRead ==
  ASSUME NEW c \in 0..Len(Whole), R!RecvInv(c), R!receive_read_record, r_mpc' = "put"
  PROVE  c + 1 \in 0..Len(Whole) /\ R!RecvInv(c + 1)'
<1> USE DEF R!RecvInv
<1>0. /\ r_mpc = "loop" /\ rwa_err = "0" /\ next_rrd # drr_end /\ r_err' = "0"
      /\ next_rrd' = R!Following(next_rrd) /\ r_records' = r_records \cup ({next_rrd'} \ {NoItem})
      /\ UNCHANGED <<wpc, rwa_err, done, waits, applied, r_list, r_size>>
      /\ r_bq[rmain].op = "none"
      /\ r_bq' = [r_bq EXCEPT ![rmain] = [op |-> "enqueue", item |-> next_rrd, asleep |-> FALSE]]
  BY DEF R!receive_read_record, R!AfterRead, R!bqueue_enqueue, R!Runs, R!InCall
<1>1. c \in Nat /\ Len(Whole) \in Nat /\ next_rrd = c + 1 /\ c + 1 \in 1..Len(Whole) /\ c + 1 \in 0..Len(Whole)
  <2>1. next_rrd = R!Following(c)
    BY <1>0 DEF R!RecvState
  <2> QED BY <1>0, <2>1, RecvConstants DEF R!Following
<1>2. r_bq'[rmain].op = "enqueue" /\ r_bq'[rmain].item = c + 1 /\ r_bq'[wr] = r_bq[wr] /\ r_bq' \in RCalls
  <2>1. r_bq \in RCalls /\ rmain # wr /\ next_rrd \in RItems
    BY <1>1, RecvFacts, RecvConstants DEF RItems
  <2> QED BY <1>0, <1>1, <2>1 DEF RCalls, R!Ops
<1>3. /\ ~R!Ended /\ ~R!Ended' /\ R!Put(c) = c /\ R!Put(c + 1)' = c + 1 /\ R!Taken(c + 1)' = R!Taken(c)
      /\ R!InHand' = R!InHand /\ R!Dealt(c + 1)' = R!Dealt(c)
      /\ \A i \in Nat : i <= c => R!Item(c + 1, i) = i /\ R!Item(c, i) = i
  <2>1. ~R!Ended /\ ~R!Ended' /\ R!InHand' = R!InHand
    BY <1>0, <1>2 DEF R!Ended, R!InHand
  <2>2. R!Put(c) = c /\ R!Put(c + 1)' = c + 1
    BY <1>1, <2>1 DEF R!Put
  <2>3. R!Taken(c + 1)' = R!Taken(c)
    <3>1. Len(r_list) \in Nat
      BY RecvFacts
    <3> QED BY <1>0, <1>1, <1>2, <2>2, <3>1 DEF R!Taken
  <2> QED BY <1>1, <2>1, <2>2, <2>3 DEF R!Dealt, R!Item
<1>4. R!TypeOK' /\ R!Sized'
  <2>1. next_rrd' \in RItems
    BY <1>0, <1>1 DEF R!Following, RItems
  <2> QED BY <1>0, <1>2, <2>1 DEF R!TypeOK, R!BqTypeOK, R!Sized, RCalls, RItems
<1>5. R!RecvCalls(c + 1)'
  <2>1. R!Item(c + 1, c + 1) = c + 1
    BY <1>1 DEF R!Item
  <2> QED BY <1>0, <1>1, <1>2, <1>3, <2>1 DEF R!RecvCalls
<1>6. R!Taken(c) \in Nat /\ R!Taken(c) <= c /\ R!Dealt(c) \in Nat /\ R!Dealt(c) <= c
      /\ R!Taken(c) + Len(r_list) <= c /\ Len(r_list) \in Nat
  <2>1. R!Taken(c) = c - Len(r_list)
    BY <1>0, <1>1, <1>3, RecvFacts DEF R!Taken
  <2> QED BY <1>1, <1>3, <2>1, RecvFacts
<1>7. R!RecvOrder(c + 1)'
  <2>1. ASSUME NEW i \in 1..Len(r_list) PROVE r_list[i] = R!Item(c + 1, R!Taken(c) + i)
    <3>1. R!Taken(c) + i \in Nat /\ R!Taken(c) + i <= c
      BY <1>1, <1>6
    <3> QED BY <1>3, <3>1 DEF R!RecvOrder
  <2>2. R!InHand => r_bq[wr].item = R!Item(c + 1, R!Taken(c))
    BY <1>3, <1>6 DEF R!RecvOrder
  <2>3. wpc # "exit" /\ R!Dealt(c) <= c + 1
    BY <1>1, <1>3, <1>6 DEF R!RecvOrder
  <2> QED BY <1>0, <1>2, <1>3, <1>6, <2>1, <2>2, <2>3 DEF R!RecvOrder, R!Item
<1>8. R!RecvRecords(c + 1)'
  <2>1. r_records = {R!Item(c, i) : i \in (R!Dealt(c) + 1)..c} \cup {c + 1}
    BY <1>1, <1>3, RecvConstants DEF R!RecvRecords
  <2>2. {R!Item(c, i) : i \in (R!Dealt(c) + 1)..c} = (R!Dealt(c) + 1)..c
    BY <1>1, <1>3, <1>6
  <2>3. {R!Item(c + 1, i) : i \in (R!Dealt(c) + 1)..(c + 1)} = (R!Dealt(c) + 1)..(c + 1)
    BY <1>1, <1>6 DEF R!Item
  <2>4. ((R!Dealt(c) + 1)..c) \cup {c + 1} = (R!Dealt(c) + 1)..(c + 1)
    BY <1>1, <1>6
  <2> QED BY <1>0, <1>3, <2>1, <2>2, <2>3, <2>4 DEF R!RecvRecords, R!Item
<1>9. R!RecvState(c + 1)'
  <2>1. Len(applied) \in Nat
    BY RecvFacts
  <2> QED BY <1>0, <1>1, <1>3, <1>6, <2>1 DEF R!RecvState, R!RecvOrder
<1> QED BY <1>1, <1>4, <1>5, <1>7, <1>8, <1>9

\* The loop of dmu_recv_stream ends: the record could not be read, or it is DRR_END, or there
\* is a signal, or the writer failed.
LEMMA RecvStopped ==
  ASSUME NEW c \in 0..Len(Whole), R!RecvInv(c), r_mpc' = "stop",
         R!receive_read_record \/ R!ReadEnd \/ R!Interrupted \/ R!WriterFailed
  PROVE  R!RecvInv(c)'
<1> USE DEF R!RecvInv
<1>1. c \in Nat /\ Len(Whole) \in Nat /\ c <= Len(Whole)
  BY RecvConstants
<1>2. /\ r_mpc = "loop" /\ UNCHANGED <<r_list, r_size, r_bq, wpc, rwa_err, done, waits, applied>>
      /\ r_bq[rmain].op = "none" /\ next_rrd = R!Following(c) /\ next_rrd # NoItem
      /\ r_records' = (r_records \ {next_rrd}) \cup ({next_rrd'} \ {NoItem})
      /\ r_err' \in {"0", "EINTR", "EIO"}
      /\ r_err' = "0" => c = Len(Whole) \/ rwa_err # "0"
      /\ next_rrd' \in {NoItem, drr_end} \cup ((c + 1)..Len(Whole))
  <2>1. r_mpc = "loop" /\ UNCHANGED <<r_list, r_size, r_bq, wpc, rwa_err, done, waits, applied>>
    BY DEF R!receive_read_record, R!ReadEnd, R!Interrupted, R!WriterFailed, R!queueVars, R!AfterRead
  <2>2. r_bq[rmain].op = "none" /\ next_rrd = R!Following(c) /\ r_err = "0" /\ r_err = "0"
    BY <2>1 DEF R!RecvCalls, R!RecvState
  <2>3. next_rrd \in {drr_end} \cup ((c + 1)..Len(Whole)) /\ next_rrd # NoItem
    BY <1>1, <2>2, RecvConstants DEF R!Following
  <2>4. next_rrd \in r_records
    BY <2>3 DEF R!RecvRecords
  <2>5. CASE R!receive_read_record
    <3>1. /\ r_err' = "EIO" /\ next_rrd # drr_end /\ next_rrd' \in {R!Following(next_rrd), NoItem}
          /\ r_records' = (r_records \ {next_rrd}) \cup ({next_rrd'} \ {NoItem})
      BY <2>5 DEF R!receive_read_record, R!AfterRead
    <3>2. R!Following(next_rrd) \in {drr_end} \cup ((c + 1)..Len(Whole))
      BY <1>1, <2>3, <3>1 DEF R!Following
    <3> QED BY <2>1, <2>2, <2>3, <3>1, <3>2
  <2>6. CASE R!ReadEnd
    <3>1. /\ next_rrd = drr_end /\ r_err' \in {"0", "EIO"} /\ next_rrd' = NoItem
          /\ r_records' = r_records \ {drr_end}
      BY <2>6 DEF R!ReadEnd
    <3>2. c = Len(Whole)
      BY <1>1, <2>2, <3>1, RecvConstants DEF R!Following
    <3> QED BY <2>1, <2>2, <2>3, <3>1, <3>2
  <2>7. CASE R!Interrupted
    BY <2>1, <2>2, <2>3, <2>4, <2>7 DEF R!Interrupted
  <2>8. CASE R!WriterFailed
    BY <2>1, <2>2, <2>3, <2>4, <2>8 DEF R!WriterFailed
  <2> QED BY <2>5, <2>6, <2>7, <2>8
<1>3. /\ ~R!Ended /\ ~R!Ended' /\ R!Put(c)' = R!Put(c) /\ R!Taken(c)' = R!Taken(c)
      /\ R!InHand' = R!InHand /\ R!Dealt(c)' = R!Dealt(c)
  BY <1>2 DEF R!Ended, R!Put, R!Taken, R!InHand, R!Dealt
<1>4. R!RecvRecords(c)'
  <2>1. \A i \in (R!Dealt(c) + 1)..R!Put(c) : i \in 1..R!Put(c)
    BY RecvFacts
  <2>2. \A i \in (R!Dealt(c) + 1)..R!Put(c) : R!Item(c, i) # next_rrd
    BY <2>1, RecvItems
  <2>3. r_records \ {next_rrd} = {R!Item(c, i) : i \in (R!Dealt(c) + 1)..R!Put(c)}
    BY <2>2 DEF R!RecvRecords
  <2> QED BY <1>2, <1>3, <2>3 DEF R!RecvRecords, R!Item
<1>5. R!TypeOK' /\ R!Sized'
  <2>1. r_records' \subseteq RItems /\ next_rrd' \in RItems \cup {NoItem}
    <3>1. r_records \subseteq RItems
      BY DEF R!TypeOK, RItems
    <3>2. (c + 1)..Len(Whole) \subseteq 1..Len(Whole)
      BY <1>1
    <3>3. next_rrd' \in RItems \cup {NoItem}
      BY <1>2, <3>2 DEF RItems
    <3> QED BY <1>2, <3>1, <3>3
  <2> QED BY <1>2, <2>1 DEF R!TypeOK, R!BqTypeOK, R!Sized, RItems
<1>6. R!RecvCalls(c)' /\ R!RecvOrder(c)'
  BY <1>2, <1>3 DEF R!RecvCalls, R!RecvOrder, R!Item, R!Ended
<1>7. R!RecvState(c)'
  BY <1>2, <1>3 DEF R!RecvState
<1> QED BY <1>4, <1>5, <1>6, <1>7

\* The end-of-stream marker goes to the queue after the records.
LEMMA RecvMarker ==
  ASSUME NEW c \in 0..Len(Whole), R!RecvInv(c), R!Stop
  PROVE  R!RecvInv(c)'
<1> USE DEF R!RecvInv
<1>0. /\ r_mpc = "stop" /\ r_mpc' = "last" /\ next_rrd' = NoItem
      /\ r_records' = (r_records \ {next_rrd}) \cup {eos}
      /\ UNCHANGED <<wpc, r_err, rwa_err, done, waits, applied, r_list, r_size>>
      /\ r_bq[rmain].op = "none"
      /\ r_bq' = [r_bq EXCEPT ![rmain] = [op |-> "enqueue", item |-> eos, asleep |-> FALSE]]
  BY DEF R!Stop, R!bqueue_enqueue, R!Runs, R!InCall
<1>1. c \in Nat /\ Len(Whole) \in Nat /\ c <= Len(Whole)
  BY RecvConstants
<1>2. r_bq'[rmain].op = "enqueue" /\ r_bq'[rmain].item = eos /\ r_bq'[wr] = r_bq[wr] /\ r_bq' \in RCalls
  <2>1. r_bq \in RCalls /\ rmain # wr /\ eos \in RItems
    BY RecvFacts, RecvConstants DEF RItems
  <2> QED BY <1>0, <2>1 DEF RCalls, R!Ops
<1>3. /\ ~R!Ended /\ R!Ended' /\ R!Put(c) = c /\ R!Put(c)' = c + 1 /\ R!Taken(c)' = R!Taken(c)
      /\ R!InHand' = R!InHand /\ R!Dealt(c)' = R!Dealt(c)
  <2>1. ~R!Ended /\ R!Ended' /\ R!InHand' = R!InHand
    BY <1>0, <1>2 DEF R!Ended, R!InHand
  <2>2. R!Put(c) = c /\ R!Put(c)' = c + 1
    BY <1>1, <2>1 DEF R!Put
  <2>3. R!Taken(c)' = R!Taken(c)
    <3>1. Len(r_list) \in Nat
      BY RecvFacts
    <3> QED BY <1>0, <1>1, <1>2, <2>2, <3>1 DEF R!Taken
  <2> QED BY <2>1, <2>2, <2>3 DEF R!Dealt
<1>4. R!Dealt(c) \in Nat /\ R!Dealt(c) <= c
  BY <1>1, <1>3, RecvFacts
<1>5. R!TypeOK' /\ R!Sized'
  <2>1. r_records' \subseteq RItems
    BY <1>0 DEF R!TypeOK, RItems
  <2> QED BY <1>0, <1>2, <2>1 DEF R!TypeOK, R!BqTypeOK, R!Sized, RCalls, RItems
<1>6. R!Item(c, c + 1) = eos
  BY <1>1 DEF R!Item
<1>7. R!RecvCalls(c)'
  BY <1>0, <1>1, <1>2, <1>3, <1>6 DEF R!RecvCalls
<1>8. R!RecvOrder(c)'
  BY <1>0, <1>2, <1>3 DEF R!RecvOrder, R!Item
<1>9. R!RecvRecords(c)'
  <2>1. \A i \in (R!Dealt(c) + 1)..c : R!Item(c, i) # next_rrd
    BY <1>1, <1>3, <1>4, RecvItems
  <2>2. r_records \ {next_rrd} = {R!Item(c, i) : i \in (R!Dealt(c) + 1)..c}
    BY <1>3, <2>1 DEF R!RecvRecords
  <2>3. \A i : i \in (R!Dealt(c) + 1)..(c + 1) <=> i \in (R!Dealt(c) + 1)..c \/ i = c + 1
    BY <1>1, <1>4
  <2>4. r_records' = {R!Item(c, i) : i \in (R!Dealt(c) + 1)..(c + 1)}
    BY <1>0, <1>6, <2>2, <2>3
  <2> QED BY <1>0, <1>3, <2>4 DEF R!RecvRecords, R!Item
<1>10. R!RecvState(c)'
  BY <1>0, <1>3 DEF R!RecvState
<1> QED BY <1>5, <1>7, <1>8, <1>9, <1>10

\* The main thread goes on after bqueue_enqueue, waits for the writer, or returns.
LEMMA RecvGoesOn ==
  ASSUME NEW c \in 0..Len(Whole), R!RecvInv(c),
         R!Enqueued \/ R!MarkerPut \/ R!WaitDone \/ R!SpuriousWake
  PROVE  R!RecvInv(c)'
<1> USE DEF R!RecvInv
<1>0. /\ UNCHANGED <<r_list, r_size, r_bq, next_rrd, wpc, rwa_err, done, applied, r_records>>
      /\ waits' \in BOOLEAN
      /\ \/ r_mpc = "put" /\ r_mpc' = "loop" /\ r_err' = r_err /\ r_bq[rmain].op = "none"
         \/ r_mpc = "last" /\ r_mpc' = "wait" /\ r_err' = r_err /\ r_bq[rmain].op = "none"
         \/ r_mpc = "wait" /\ r_mpc' = "done" /\ done /\ r_err' = IF r_err = "0" THEN rwa_err ELSE r_err
         \/ r_mpc' = r_mpc /\ r_err' = r_err
  BY DEF R!Enqueued, R!MarkerPut, R!WaitDone, R!SpuriousWake, R!Runs, R!InCall, R!queueVars, R!TypeOK
<1>1. /\ R!Ended' = R!Ended /\ R!Put(c)' = R!Put(c) /\ R!Taken(c)' = R!Taken(c)
      /\ R!InHand' = R!InHand /\ R!Dealt(c)' = R!Dealt(c)
  BY <1>0 DEF R!Ended, R!Put, R!Taken, R!InHand, R!Dealt
<1>2. R!TypeOK' /\ R!Sized'
  <2>1. {r_err', rwa_err'} \subseteq {"0", "EINTR", "EIO"}
        /\ r_mpc' \in {"loop", "put", "stop", "last", "wait", "done"}
    BY <1>0 DEF R!TypeOK
  <2> QED BY <1>0, <2>1 DEF R!TypeOK, R!BqTypeOK, R!Sized
<1>3. R!RecvCalls(c)'
  BY <1>0, <1>1 DEF R!RecvCalls, R!Item
<1>4. R!RecvOrder(c)'
  BY <1>0, <1>1 DEF R!RecvOrder, R!Item
<1>5. R!RecvRecords(c)'
  BY <1>0, <1>1 DEF R!RecvRecords, R!Item
<1>6. R!RecvState(c)'
  BY <1>0, <1>1 DEF R!RecvState
<1> QED BY <1>2, <1>3, <1>4, <1>5, <1>6

\* The writer begins bqueue_dequeue.
LEMMA RecvGet ==
  ASSUME NEW c \in 0..Len(Whole), R!RecvInv(c), R!WriterNext
  PROVE  R!RecvInv(c)'
<1> USE DEF R!RecvInv
<1>0. /\ wpc = "next" /\ wpc' = "take" /\ r_bq[wr].op = "none"
      /\ UNCHANGED <<r_list, r_size, next_rrd, r_mpc, r_err, rwa_err, done, waits, applied, r_records>>
      /\ r_bq' = [r_bq EXCEPT ![wr] = [op |-> "dequeue", item |-> NoItem, asleep |-> FALSE]]
  BY DEF R!WriterNext, R!bqueue_dequeue, R!Runs, R!InCall
<1>1. r_bq'[wr].op = "dequeue" /\ r_bq'[rmain] = r_bq[rmain] /\ r_bq' \in RCalls
  <2>1. r_bq \in RCalls /\ rmain # wr
    BY RecvFacts, RecvConstants
  <2> QED BY <1>0, <2>1 DEF RCalls, R!Ops
<1>2. /\ R!Ended' = R!Ended /\ R!Put(c)' = R!Put(c) /\ R!Taken(c)' = R!Taken(c)
      /\ ~R!InHand' /\ ~R!InHand /\ R!Dealt(c)' = R!Dealt(c)
  BY <1>0, <1>1 DEF R!Ended, R!Put, R!Taken, R!InHand, R!Dealt
<1>3. R!TypeOK' /\ R!Sized'
  BY <1>0, <1>1 DEF R!TypeOK, R!BqTypeOK, R!Sized, RCalls, RItems
<1>4. R!RecvCalls(c)' /\ R!RecvOrder(c)'
  BY <1>0, <1>1, <1>2 DEF R!RecvCalls, R!RecvOrder, R!Item
<1>5. R!RecvRecords(c)' /\ R!RecvState(c)'
  BY <1>0, <1>2 DEF R!RecvRecords, R!RecvState, R!Item
<1> QED BY <1>3, <1>4, <1>5

\* The writer has dealt with the record or the marker that came, and frees it.
LEMMA RecvFree ==
  ASSUME NEW c \in 0..Len(Whole), R!RecvInv(c), wpc = "take", R!Runs(wr, "none"),
         r_records' = r_records \ {r_bq[wr].item}, wpc' \in {"next", "exit"},
         UNCHANGED <<r_list, r_size, r_bq, r_mpc, next_rrd>>
  PROVE  /\ R!Ended' = R!Ended /\ R!Put(c)' = R!Put(c) /\ R!Taken(c)' = R!Taken(c) /\ ~R!InHand'
         /\ R!Dealt(c)' = R!Taken(c) /\ R!Taken(c) = R!Dealt(c) + 1 /\ R!Taken(c) \in 1..R!Put(c)
         /\ r_bq[wr].op = "none" /\ r_bq[wr].item = R!Item(c, R!Taken(c)) /\ R!RecvRecords(c)'
<1> USE DEF R!RecvInv
<1>0. r_bq[wr].op = "none" /\ R!InHand /\ ~R!InHand'
  BY DEF R!Runs, R!InCall, R!InHand
<1>1. R!Ended' = R!Ended /\ R!Put(c)' = R!Put(c) /\ R!Taken(c)' = R!Taken(c)
  BY DEF R!Ended, R!Put, R!Taken
<1>2. /\ R!Dealt(c) \in Nat /\ R!Put(c) \in Nat /\ R!Taken(c) = R!Dealt(c) + 1 /\ R!Taken(c) \in 1..R!Put(c)
  BY <1>0, RecvFacts
<1>3. R!Dealt(c)' = R!Taken(c)
  BY <1>0, <1>1, <1>2 DEF R!Dealt
<1>4. r_bq[wr].item = R!Item(c, R!Taken(c))
  BY <1>0 DEF R!RecvOrder
<1>5. R!RecvRecords(c)'
  <2>1. \A i : i \in (R!Dealt(c) + 1)..R!Put(c) <=> i \in (R!Taken(c) + 1)..R!Put(c) \/ i = R!Taken(c)
    BY <1>2
  <2>2. \A i \in (R!Taken(c) + 1)..R!Put(c) : i \in 1..R!Put(c) /\ i # R!Taken(c)
    BY <1>2
  <2>3. \A i \in (R!Taken(c) + 1)..R!Put(c) : R!Item(c, i) # R!Item(c, R!Taken(c))
    BY <1>2, <2>2, RecvItems
  <2>4. R!Item(c, R!Taken(c)) # next_rrd
    BY <1>2, RecvItems
  <2>5. r_records' = {R!Item(c, i) : i \in (R!Taken(c) + 1)..R!Put(c)} \cup ({next_rrd} \ {NoItem})
    BY <1>4, <2>1, <2>3, <2>4 DEF R!RecvRecords
  <2> QED BY <1>1, <1>3, <2>5 DEF R!RecvRecords, R!Item
<1> QED BY <1>0, <1>1, <1>2, <1>3, <1>4, <1>5

\* receive_process_record applies the record that comes next, unless one failed before.
LEMMA RecvProcess ==
  ASSUME NEW c \in 0..Len(Whole), R!RecvInv(c), R!WriterProcess
  PROVE  R!RecvInv(c)'
<1> USE DEF R!RecvInv
<1> DEFINE k == R!Taken(c)
<1>0. /\ wpc = "take" /\ wpc' = "next" /\ R!Runs(wr, "none") /\ r_bq[wr].item # eos
      /\ r_records' = r_records \ {r_bq[wr].item}
      /\ UNCHANGED <<r_list, r_size, r_bq, next_rrd, r_mpc, r_err, done, waits>>
  BY DEF R!WriterProcess, R!FreeRecord, R!queueVars
<1>1. /\ R!Ended' = R!Ended /\ R!Put(c)' = R!Put(c) /\ R!Taken(c)' = k /\ ~R!InHand'
      /\ R!Dealt(c)' = k /\ k = R!Dealt(c) + 1 /\ k \in 1..R!Put(c)
      /\ r_bq[wr].op = "none" /\ r_bq[wr].item = R!Item(c, k) /\ R!RecvRecords(c)'
  BY <1>0, RecvFree
<1>2. c \in Nat /\ Len(Whole) \in Nat /\ c <= Len(Whole) /\ R!Dealt(c) \in Nat /\ k \in Nat
  BY <1>1, RecvFacts, RecvConstants
<1>3. k <= c /\ r_bq[wr].item = k /\ k \in 1..Len(Whole)
  <2>1. ~ (k > c)
    BY <1>0, <1>1, RecvItems
  <2>2. k <= c
    BY <1>2, <2>1
  <2> QED BY <1>1, <1>2, <2>2 DEF R!Item
<1> HIDE DEF k
<1>4. applied \in Seq(1..Len(Whole)) /\ Len(applied) \in Nat /\ Len(applied) < k
      /\ (rwa_err = "0" => Len(applied) = k - 1)
  BY <1>0, <1>1, <1>2, RecvFacts DEF R!RecvState
<1>5. \/ rwa_err = "0" /\ applied' = Append(applied, k) /\ rwa_err' = rwa_err
      \/ rwa_err' # "0" /\ applied' = applied /\ rwa_err' \in {rwa_err, "EIO"}
  BY <1>3 DEF R!WriterProcess, R!receive_process_record
<1>6. /\ applied' \in Seq(1..Len(Whole)) /\ Len(applied') \in Nat /\ Len(applied') <= k
      /\ rwa_err' = "0" => Len(applied') = k
      /\ \A i \in DOMAIN applied' : applied'[i] = i
  <2>1. \A i \in DOMAIN applied : applied[i] = i
    BY DEF R!RecvState
  <2>2. CASE rwa_err = "0" /\ applied' = Append(applied, k) /\ rwa_err' = rwa_err
    <3>1. /\ applied' \in Seq(1..Len(Whole)) /\ Len(applied') = k /\ DOMAIN applied' = 1..k
          /\ applied'[k] = k /\ \A i \in 1..(k - 1) : applied'[i] = applied[i] /\ i \in DOMAIN applied
      BY <1>2, <1>3, <1>4, <2>2
    <3> QED BY <1>2, <2>1, <3>1
  <2>3. CASE rwa_err' # "0" /\ applied' = applied
    BY <1>2, <1>4, <2>1, <2>3
  <2> QED BY <1>5, <2>2, <2>3
<1>7. R!TypeOK' /\ R!Sized'
  <2>1. rwa_err' \in {"0", "EINTR", "EIO"} /\ r_records' \subseteq r_records
    BY <1>0, <1>5 DEF R!TypeOK
  <2> QED BY <1>0, <1>6, <2>1 DEF R!TypeOK, R!BqTypeOK, R!Sized, R!Records
<1>8. R!RecvCalls(c)' /\ R!RecvOrder(c)'
  BY <1>0, <1>1, <1>2, <1>3 DEF R!RecvCalls, R!RecvOrder, R!Item, k
<1>9. R!RecvState(c)'
  <2>1. Len(applied') <= c
    BY <1>2, <1>3, <1>6
  <2>2. rwa_err # "0" => rwa_err' # "0"
    BY <1>5
  <2>3. ~done /\ r_mpc # "done"
    BY <1>0 DEF R!RecvOrder
  <2> QED BY <1>0, <1>1, <1>6, <2>1, <2>2, <2>3 DEF R!RecvState
<1> QED BY <1>1, <1>7, <1>8, <1>9

\* The marker tells the writer that it is done.
LEMMA RecvDone ==
  ASSUME NEW c \in 0..Len(Whole), R!RecvInv(c), R!WriterDone
  PROVE  R!RecvInv(c)'
<1> USE DEF R!RecvInv
<1> DEFINE k == R!Taken(c)
<1>0. /\ wpc = "take" /\ wpc' = "exit" /\ R!Runs(wr, "none") /\ r_bq[wr].item = eos /\ done' = TRUE /\ waits' = FALSE
      /\ r_records' = r_records \ {r_bq[wr].item}
      /\ UNCHANGED <<r_list, r_size, r_bq, next_rrd, r_mpc, r_err, rwa_err, applied>>
  BY DEF R!WriterDone, R!queueVars
<1>1. /\ R!Ended' = R!Ended /\ R!Put(c)' = R!Put(c) /\ R!Taken(c)' = k /\ ~R!InHand'
      /\ R!Dealt(c)' = k /\ k = R!Dealt(c) + 1 /\ k \in 1..R!Put(c)
      /\ r_bq[wr].op = "none" /\ r_bq[wr].item = R!Item(c, k) /\ R!RecvRecords(c)'
  BY <1>0, RecvFree
<1>2. c \in Nat /\ R!Dealt(c) \in Nat /\ k \in Nat /\ Len(applied) \in Nat
  BY <1>1, RecvFacts, RecvConstants
<1>3. k = c + 1 /\ k = R!Put(c) /\ R!Ended
  <2>1. k > c
    BY <1>0, <1>1, RecvItems
  <2>2. R!Put(c) = c + (IF R!Ended THEN 1 ELSE 0)
    BY RecvFacts
  <2> QED BY <1>1, <1>2, <2>1, <2>2
<1> HIDE DEF k
<1>4. R!TypeOK' /\ R!Sized'
  <2>1. r_records' \subseteq r_records
    BY <1>0
  <2> QED BY <1>0, <2>1 DEF R!TypeOK, R!BqTypeOK, R!Sized
<1>5. R!RecvCalls(c)' /\ R!RecvOrder(c)'
  BY <1>0, <1>1, <1>2, <1>3 DEF R!RecvCalls, R!RecvOrder, R!Item, k
<1>6. R!RecvState(c)'
  BY <1>0, <1>1, <1>2, <1>3 DEF R!RecvState
<1> QED BY <1>1, <1>4, <1>5, <1>6

\* A thread of the receiver waits, or wakes.
LEMMA RecvWait ==
  ASSUME NEW c \in 0..Len(Whole), R!RecvInv(c), NEW t \in {rmain, wr}, NEW v \in BOOLEAN,
         r_bq' = [r_bq EXCEPT ![t].asleep = v], UNCHANGED <<r_list, r_size>>, UNCHANGED R!recvVars
  PROVE  R!RecvInv(c)'
<1>1. r_bq \in RCalls
  BY RecvFacts
<1>2. r_bq' \in RCalls /\ \A u \in {rmain, wr} : r_bq'[u].op = r_bq[u].op /\ r_bq'[u].item = r_bq[u].item
  BY <1>1 DEF RCalls
<1> QED BY <1>2, RecvSleep

\* A section of bqueue_enqueue: the item goes to the tail of the list.
LEMMA RecvEnqueue ==
  ASSUME NEW c \in 0..Len(Whole), R!RecvInv(c), NEW t \in {rmain, wr}, R!Enqueue(t), UNCHANGED R!recvVars
  PROVE  R!RecvInv(c)'
<1> USE DEF R!RecvInv
<1>0. t = rmain /\ r_bq[rmain].op = "enqueue" /\ rmain # wr /\ r_bq \in RCalls
  BY RecvFacts, RecvConstants DEF R!Enqueue, R!Runs, R!InCall, R!RecvCalls
<1>1. CASE r_bq' = [r_bq EXCEPT ![t].asleep = TRUE] /\ UNCHANGED <<r_list, r_size>>
  BY <1>1, RecvWait
<1>2. CASE /\ R!Room(r_bq[t].item) /\ r_list' = R!Insert(r_bq[t].item) /\ r_size' = r_size + RecvSize(r_bq[t].item)
           /\ r_bq' \in R!PopSignal([r_bq EXCEPT ![t] = R!Return(NoItem)])
  <2> DEFINE b == [r_bq EXCEPT ![rmain] = R!Return(NoItem)]
             x == r_bq[rmain].item
             p == R!Put(c)
  <2>1. b \in RCalls /\ b[rmain].op = "none" /\ b[wr] = r_bq[wr]
    BY <1>0 DEF R!Return, R!Ops, RCalls
  <2>2. r_bq' \in R!Signal(b, "dequeue")
    BY <1>0, <1>2 DEF R!PopSignal
  <2> HIDE DEF b
  <2>3. r_bq' \in RCalls /\ \A u \in {rmain, wr} : r_bq'[u].op = b[u].op /\ r_bq'[u].item = b[u].item
    BY <2>1, <2>2, RecvSignal
  <2>4. r_bq'[rmain].op = "none" /\ r_bq'[wr].op = r_bq[wr].op /\ r_bq'[wr].item = r_bq[wr].item
    BY <2>1, <2>3
  <2>5. p \in Nat /\ p > 0 /\ p \in 1..p /\ x = R!Item(c, p) /\ Len(r_list) \in Nat
    BY <1>0, RecvFacts DEF R!RecvCalls
  <2>6. x \in RItems
    BY <2>5, RecvItems
  <2>7. r_list \in Seq(RItems) /\ r_size \in 0..bq_maxsize /\ r_list' = Append(r_list, x)
    BY <1>0, <1>2, RecvFacts DEF R!Insert
  <2>8. r_size' \in 0..bq_maxsize /\ R!Sized'
    BY <1>0, <1>2, <2>6, <2>7, RecvSizes
  <2> HIDE DEF x, p
  <2>9. /\ Len(r_list') = Len(r_list) + 1 /\ r_list'[Len(r_list) + 1] = x
        /\ \A i \in 1..Len(r_list) : r_list'[i] = r_list[i]
        /\ r_list' \in Seq(RItems)
    BY <2>6, <2>7
  <2>10. R!Ended' = R!Ended /\ R!Put(c)' = R!Put(c) /\ R!InHand' = R!InHand
    BY <2>4 DEF R!Ended, R!Put, R!InHand, R!recvVars
  <2>11. R!Taken(c)' = R!Taken(c) /\ R!Dealt(c)' = R!Dealt(c) /\ R!Taken(c) = p - 1 - Len(r_list)
    <3>1. R!Taken(c) = p - 1 - Len(r_list)
      BY <1>0 DEF R!Taken, p
    <3>2. R!Taken(c)' = p - 0 - (Len(r_list) + 1)
      BY <2>4, <2>9, <2>10 DEF R!Taken, p
    <3>3. R!Taken(c)' = R!Taken(c)
      BY <2>5, <3>1, <3>2
    <3> QED BY <2>10, <3>1, <3>3 DEF R!Dealt
  <2>12. R!TypeOK'
    BY <2>3, <2>8, <2>9 DEF R!TypeOK, R!BqTypeOK, R!recvVars, RCalls, RItems
  <2>13. R!RecvCalls(c)'
    BY <2>4, <2>10 DEF R!RecvCalls, R!recvVars
  <2>14. R!RecvOrder(c)'
    <3>1. ASSUME NEW i \in 1..Len(r_list') PROVE r_list'[i] = R!Item(c, R!Taken(c) + i)
      <4>1. CASE i \in 1..Len(r_list)
        BY <2>9, <4>1 DEF R!RecvOrder
      <4>2. CASE i = Len(r_list) + 1
        <5>1. R!Taken(c) + i = p
          BY <2>5, <2>11, <4>2
        <5> QED BY <2>5, <2>9, <4>2, <5>1
      <4> QED BY <2>5, <2>9, <4>1, <4>2
    <3> QED BY <2>4, <2>10, <2>11, <3>1 DEF R!RecvOrder, R!recvVars, R!Item
  <2>15. R!RecvRecords(c)' /\ R!RecvState(c)'
    BY <2>10, <2>11 DEF R!RecvRecords, R!RecvState, R!recvVars, R!Item, R!Following
  <2> QED BY <2>8, <2>12, <2>13, <2>14, <2>15
<1> QED BY <1>1, <1>2 DEF R!Enqueue

\* A section of bqueue_dequeue: the first item goes to the writer.
LEMMA RecvDequeue ==
  ASSUME NEW c \in 0..Len(Whole), R!RecvInv(c), NEW t \in {rmain, wr}, R!Dequeue(t), UNCHANGED R!recvVars
  PROVE  R!RecvInv(c)'
<1> USE DEF R!RecvInv
<1>0. t = wr /\ r_bq[wr].op = "dequeue" /\ wpc = "take" /\ rmain # wr /\ r_bq \in RCalls
  BY RecvFacts, RecvConstants DEF R!Dequeue, R!Runs, R!InCall, R!RecvCalls
<1>1. CASE r_bq' = [r_bq EXCEPT ![t].asleep = TRUE] /\ UNCHANGED <<r_list, r_size>>
  BY <1>1, RecvWait
<1>2. CASE /\ r_size # 0 /\ r_list' = Tail(r_list) /\ r_size' = r_size - RecvSize(Head(r_list))
           /\ r_bq' = [r_bq EXCEPT ![t] = [op |-> "signal", item |-> Head(r_list), asleep |-> FALSE]]
  <2>1. r_list \in Seq(RItems) /\ r_size \in 0..bq_maxsize
    BY RecvFacts
  <2>2. r_size' \in 0..bq_maxsize /\ R!Sized' /\ r_list # << >>
    BY <1>2, <2>1, RecvSizes
  <2>3. /\ Len(r_list) \in Nat /\ Len(r_list) > 0 /\ Head(r_list) = r_list[1] /\ Head(r_list) \in RItems
        /\ Len(r_list') = Len(r_list) - 1 /\ r_list' \in Seq(RItems)
        /\ \A i \in 1..Len(r_list') : r_list'[i] = r_list[i + 1]
    BY <1>2, <2>1, <2>2
  <2>4. r_bq' \in RCalls /\ r_bq'[wr].op = "signal" /\ r_bq'[wr].item = r_list[1] /\ r_bq'[rmain] = r_bq[rmain]
    BY <1>0, <1>2, <2>3 DEF RCalls, R!Ops
  <2>5. R!Ended' = R!Ended /\ R!Put(c)' = R!Put(c) /\ ~R!InHand /\ R!InHand'
    BY <1>0, <2>4 DEF R!Ended, R!Put, R!InHand, R!recvVars
  <2>6. R!Taken(c)' = R!Taken(c) + 1 /\ R!Dealt(c)' = R!Dealt(c) /\ R!Taken(c) \in Nat
    <3>1. R!Taken(c) \in Nat /\ R!Put(c) \in Nat
      BY RecvFacts
    <3>2. R!Taken(c)' = R!Taken(c) + 1
      BY <2>3, <2>4, <2>5, <3>1 DEF R!Taken
    <3> QED BY <2>5, <3>1, <3>2 DEF R!Dealt
  <2>7. R!TypeOK'
    BY <2>2, <2>3, <2>4 DEF R!TypeOK, R!BqTypeOK, R!recvVars, RCalls, RItems
  <2>8. R!RecvCalls(c)'
    BY <1>0, <2>4, <2>5 DEF R!RecvCalls, R!recvVars, R!Item
  <2>9. R!RecvOrder(c)'
    <3>1. ASSUME NEW i \in 1..Len(r_list') PROVE r_list'[i] = R!Item(c, R!Taken(c) + 1 + i)
      <4>1. i + 1 \in 1..Len(r_list) /\ R!Taken(c) + (i + 1) = R!Taken(c) + 1 + i
        BY <2>3, <2>6
      <4>2. r_list[i + 1] = R!Item(c, R!Taken(c) + (i + 1))
        BY <4>1 DEF R!RecvOrder
      <4> QED BY <2>3, <4>1, <4>2
    <3>2. r_list[1] = R!Item(c, R!Taken(c) + 1)
      <4>1. 1 \in 1..Len(r_list)
        BY <2>3
      <4> QED BY <4>1 DEF R!RecvOrder
    <3> QED BY <1>0, <2>4, <2>5, <2>6, <3>1, <3>2 DEF R!RecvOrder, R!recvVars, R!Item
  <2>10. R!RecvRecords(c)' /\ R!RecvState(c)'
    BY <2>5, <2>6 DEF R!RecvRecords, R!RecvState, R!recvVars, R!Item, R!Following
  <2> QED BY <2>2, <2>7, <2>8, <2>9, <2>10
<1> QED BY <1>1, <1>2 DEF R!Dequeue

\* bqueue_dequeue returns.
LEMMA RecvDequeueSignal ==
  ASSUME NEW c \in 0..Len(Whole), R!RecvInv(c), NEW t \in {rmain, wr}, R!DequeueSignal(t), UNCHANGED R!recvVars
  PROVE  R!RecvInv(c)'
<1> USE DEF R!RecvInv
<1> DEFINE b == [r_bq EXCEPT ![wr] = R!Return(r_bq[wr].item)]
<1>0. /\ t = wr /\ r_bq[wr].op = "signal" /\ wpc = "take" /\ rmain # wr /\ r_bq \in RCalls
      /\ UNCHANGED <<r_list, r_size>>
  BY RecvFacts, RecvConstants DEF R!DequeueSignal, R!Runs, R!InCall, R!RecvCalls
<1>1. b \in RCalls /\ b[wr].op = "none" /\ b[wr].item = r_bq[wr].item /\ b[rmain] = r_bq[rmain]
  BY <1>0 DEF R!Return, R!Ops, RCalls
<1>2. r_bq' \in R!Signal(b, "enqueue")
  BY <1>0 DEF R!DequeueSignal
<1> HIDE DEF b
<1>3. r_bq' \in RCalls /\ \A u \in {rmain, wr} : r_bq'[u].op = b[u].op /\ r_bq'[u].item = b[u].item
  BY <1>1, <1>2, RecvSignal
<1>4. /\ r_bq'[wr].op = "none" /\ r_bq'[wr].item = r_bq[wr].item
      /\ r_bq'[rmain].op = r_bq[rmain].op /\ r_bq'[rmain].item = r_bq[rmain].item
  BY <1>1, <1>3
<1>5. /\ R!Ended' = R!Ended /\ R!Put(c)' = R!Put(c) /\ R!Taken(c)' = R!Taken(c)
      /\ R!InHand /\ R!InHand' /\ R!Dealt(c)' = R!Dealt(c)
  BY <1>0, <1>4 DEF R!Ended, R!Put, R!Taken, R!InHand, R!Dealt, R!recvVars
<1>6. R!TypeOK' /\ R!Sized'
  BY <1>0, <1>3 DEF R!TypeOK, R!BqTypeOK, R!Sized, R!recvVars, RCalls, RItems
<1>7. R!RecvCalls(c)' /\ R!RecvOrder(c)'
  BY <1>0, <1>4, <1>5 DEF R!RecvCalls, R!RecvOrder, R!recvVars, R!Item
<1>8. R!RecvRecords(c)' /\ R!RecvState(c)'
  BY <1>5 DEF R!RecvRecords, R!RecvState, R!recvVars, R!Item, R!Following
<1> QED BY <1>6, <1>7, <1>8

\* A record is read: where the receiver has come to, and what it has put in its queue.
LEMMA RecvStep ==
  ASSUME NEW c \in 0..Len(Whole), R!RecvInv(c), R!RecvNext
  PROVE  \/ R!receive_read_record /\ r_mpc' = "put" /\ c + 1 \in 0..Len(Whole) /\ R!RecvInv(c + 1)'
         \/ ~ (R!receive_read_record /\ r_mpc' = "put") /\ R!RecvInv(c)'
<1>1. CASE R!receive_read_record
  <2>1. r_mpc' \in {"put", "stop"}
    BY <1>1 DEF R!receive_read_record, R!AfterRead
  <2> QED BY <1>1, <2>1, RecvRead, RecvStopped
<1>2. CASE ~R!receive_read_record
  <2>1. CASE R!Main \/ R!Interrupted \/ R!SpuriousWake
    <3>1. R!ReadEnd \/ R!Interrupted \/ R!WriterFailed => r_mpc' = "stop"
      BY DEF R!ReadEnd, R!Interrupted, R!WriterFailed
    <3> QED BY <1>2, <2>1, <3>1, RecvStopped, RecvMarker, RecvGoesOn DEF R!Main
  <2>2. CASE R!Writer
    BY <1>2, <2>2, RecvGet, RecvProcess, RecvDone DEF R!Writer
  <2>3. ASSUME NEW t \in {rmain, wr}, R!Queue(t) PROVE R!RecvInv(c)'
    BY <2>3, RecvEnqueue, RecvDequeue, RecvDequeueSignal DEF R!Queue, R!BqStep
  <2>4. ASSUME NEW t \in {rmain, wr}, R!BqSpurious(t), UNCHANGED R!recvVars PROVE R!RecvInv(c)'
    BY <2>4, RecvWait DEF R!BqSpurious
  <2> QED BY <1>2, <2>1, <2>2, <2>3, <2>4 DEF R!RecvNext
<1> QED BY <1>1, <1>2

\* The invariant holds when dmu_recv_stream has read the first header.
LEMMA RecvBegin ==
  ASSUME R!Init
  PROVE  R!RecvInv(0)
<1> USE DEF R!Init, R!BqInit
<1>1. Len(Whole) \in Nat /\ bq_maxsize \in Nat /\ rmain # wr /\ 0 \in 0..Len(Whole) /\ NoItem \notin RItems
  BY RecvConstants
<1>2. r_bq[rmain].op = "none" /\ r_bq[wr].op = "none"
  BY <1>1 DEF R!Return
<1>3. ~R!Ended /\ R!Put(0) = 0 /\ R!Taken(0) = 0 /\ ~R!InHand /\ R!Dealt(0) = 0 /\ Len(r_list) = 0
  BY <1>2 DEF R!Ended, R!Put, R!Taken, R!InHand, R!Dealt
<1>4. R!Following(0) \in RItems /\ R!Following(0) # NoItem
  BY <1>1 DEF R!Following, RItems
<1>5. R!TypeOK
  <2>1. r_bq \in RCalls
    BY DEF R!Return, R!Ops, RCalls
  <2>2. << >> \in Seq(RItems) /\ << >> \in Seq(1..Len(Whole)) /\ 0 \in 0..bq_maxsize
    BY <1>1
  <2>3. R!BqTypeOK
    BY <2>1, <2>2 DEF R!BqTypeOK, RCalls, RItems
  <2> QED BY <1>4, <2>2, <2>3 DEF R!TypeOK, R!Records, RItems
<1>6. R!Sized
  <2> DEFINE sum == [i \in 0..0 |-> 0]
  <2>1. sum \in [0..Len(r_list) -> 0..bq_maxsize] /\ sum[0] = 0
    BY <1>1, <1>3
  <2>2. 1..Len(r_list) = {} /\ \A i, j \in 0..Len(r_list) : ~ (i < j)
    BY <1>3
  <2> HIDE DEF sum
  <2> QED BY <1>3, <2>1, <2>2 DEF R!Sized
<1>7. R!RecvCalls(0) /\ R!RecvOrder(0)
  BY <1>2, <1>3 DEF R!RecvCalls, R!RecvOrder
<1>8. R!RecvRecords(0)
  BY <1>3, <1>4 DEF R!RecvRecords
<1>9. R!RecvState(0)
  BY <1>1, <1>3 DEF R!RecvState
<1> QED BY <1>5, <1>6, <1>7, <1>8, <1>9 DEF R!RecvInv

-----------------------------------------------------------------------------
(* The pipe between the two.                                               *)

\* A step of the sender does not take back what the receiver has read.
LEMMA BehindSend ==
  ASSUME NEW c \in 0..Len(Whole), SendInv, R!RecvInv(c), Behind(c), [SendNext]_vars, UNCHANGED rvars
  PROVE  R!RecvInv(c)' /\ Behind(c)'
<1>1. /\ UNCHANGED <<r_list, r_size>> /\ UNCHANGED R!recvVars /\ r_bq' = r_bq
      /\ UNCHANGED <<next_rrd, r_mpc, r_err, rwa_err>>
  BY DEF rvars, R!recvVars
<1>2. R!RecvInv(c)'
  <2>1. r_bq \in RCalls
    BY RecvFacts
  <2> QED BY <1>1, <2>1, RecvSleep
<1>3. c \in Nat /\ Len(Whole) \in Nat /\ NoItem \notin 1..Len(Whole)
  BY RecvConstants
<1>4. /\ Len(dumped) \in Nat /\ Len(dumped') \in Nat /\ Len(dumped) <= Len(dumped')
      /\ mpc = "done" /\ err = "0" => mpc' = "done" /\ err' = "0"
  BY SendGrows
<1>5. next_rrd \in {NoItem, drr_end} \cup ((c + 1)..Len(Whole))
  BY RecvAhead
<1>6. next_rrd # NoItem /\ Arrived(next_rrd) => Arrived(next_rrd)'
  BY <1>1, <1>3, <1>4, <1>5 DEF Arrived
<1>7. Arrived(drr_end) => Arrived(drr_end)'
  BY <1>4 DEF Arrived
<1>8. c <= Len(dumped')
  BY <1>3, <1>4 DEF Behind
<1>9. R!Following(0)' = R!Following(0)
  BY DEF R!Following
<1> QED BY <1>1, <1>2, <1>6, <1>7, <1>8, <1>9 DEF Behind

\* The receiver reads only what was written.
LEMMA BehindRecv ==
  ASSUME NEW c \in 0..Len(Whole), R!RecvInv(c), Behind(c), Receive
  PROVE  \E d \in 0..Len(Whole) : R!RecvInv(d)' /\ Behind(d)'
<1>0. /\ R!RecvNext /\ Arrived(R!Following(0)) /\ UNCHANGED <<dumped, mpc, err>>
      /\ next_rrd' \notin {next_rrd, NoItem} => Arrived(next_rrd')
  BY DEF Receive, vars, sendVars
<1>1. \A r : Arrived(r)' <=> Arrived(r)
  BY <1>0 DEF Arrived
<1>2. R!Following(0)' = R!Following(0)
  BY DEF R!Following
<1>3. next_rrd' \notin {NoItem, R!Following(0)} => Arrived(next_rrd)'
  <2>1. next_rrd' \notin {NoItem, R!Following(0)} => Arrived(next_rrd')
    BY <1>0 DEF Behind
  <2> QED BY <1>0, <2>1 DEF Arrived
<1>4. next_rrd # NoItem => Arrived(next_rrd)
  BY <1>0 DEF Behind
<1>5. c \in Nat /\ Len(Whole) \in Nat
  BY RecvConstants
<1>6. CASE R!receive_read_record /\ r_mpc' = "put" /\ c + 1 \in 0..Len(Whole) /\ R!RecvInv(c + 1)'
  <2>1. next_rrd = c + 1
    <3>1. next_rrd = R!Following(c) /\ next_rrd # drr_end
      BY <1>6 DEF R!receive_read_record, R!RecvInv, R!RecvState
    <3> QED BY <3>1 DEF R!Following
  <2>2. c + 1 <= Len(dumped)
    <3>1. c + 1 \in 1..Len(Whole)
      BY <1>5, <1>6
    <3>2. c + 1 # NoItem /\ c + 1 # drr_end
      BY <3>1, RecvConstants
    <3> QED BY <1>4, <2>1, <3>2 DEF Arrived
  <2>3. Behind(c + 1)'
    BY <1>0, <1>2, <1>3, <1>6, <2>2 DEF Behind
  <2> QED BY <1>6, <2>3
<1>7. CASE ~ (R!receive_read_record /\ r_mpc' = "put") /\ R!RecvInv(c)'
  <2>1. ASSUME r_mpc' \notin {"loop", "put"}, r_err' = "0" PROVE rwa_err' # "0" \/ Arrived(drr_end)
    <3>1. CASE R!receive_read_record
      BY <1>7, <2>1, <3>1 DEF R!receive_read_record, R!AfterRead
    <3>2. CASE R!ReadEnd
      <4>1. next_rrd = drr_end
        BY <3>2 DEF R!ReadEnd
      <4> QED BY <1>4, <4>1, RecvConstants
    <3>3. CASE R!Interrupted \/ R!WriterFailed
      BY <2>1, <3>3 DEF R!Interrupted, R!WriterFailed
    <3>4. CASE r_mpc \notin {"loop", "put"} /\ r_err = "0" /\ rwa_err' \in {rwa_err, "EIO"}
      BY <3>4 DEF Behind
    <3>5. CASE R!Enqueued
      BY <2>1, <3>5 DEF R!Enqueued
    <3>6. CASE R!Stop \/ R!MarkerPut \/ R!WaitDone
      BY <2>1, <3>4, <3>6 DEF R!Stop, R!MarkerPut, R!WaitDone
    <3>7. CASE UNCHANGED <<r_mpc, r_err>> /\ rwa_err' \in {rwa_err, "EIO"}
      BY <2>1, <3>4, <3>7
    <3>8. CASE R!Writer \/ R!SpuriousWake
      BY <3>7, <3>8 DEF R!Writer, R!WriterNext, R!WriterProcess, R!receive_process_record, R!WriterDone, R!SpuriousWake
    <3>9. CASE UNCHANGED R!recvVars
      BY <3>7, <3>9 DEF R!recvVars
    <3> QED BY <1>0, <3>1, <3>2, <3>3, <3>5, <3>6, <3>8, <3>9 DEF R!RecvNext, R!Main, R!Queue
  <2>2. Arrived(drr_end)' <=> Arrived(drr_end)
    BY <1>0 DEF Arrived
  <2>3. Behind(c)'
    BY <1>0, <1>2, <1>3, <2>1, <2>2 DEF Behind
  <2> QED BY <1>7, <2>3
<1> QED BY <1>0, <1>6, <1>7, RecvStep

-----------------------------------------------------------------------------
(* The theorems.                                                           *)

\* The inductive invariant of a send piped into a receive.
THEOREM Invariance == ReplSpec => []ReplInv
<1>1. ReplInit => ReplInv
  <2> SUFFICES ASSUME ReplInit PROVE ReplInv
    OBVIOUS
  <2>1. SendInv /\ R!RecvInv(0) /\ Len(dumped) = 0
    BY SendBegin, RecvBegin DEF ReplInit, Init
  <2>2. next_rrd = R!Following(0) /\ r_mpc = "loop"
    BY DEF ReplInit, R!Init
  <2>3. 0 \in 0..Len(Whole)
    BY RecvConstants
  <2>4. Behind(0)
    BY <2>1, <2>2 DEF Behind
  <2> QED BY <2>1, <2>3, <2>4 DEF ReplInv
<1>2. ReplInv /\ [ReplNext]_<<vars, rvars>> => ReplInv'
  <2> SUFFICES ASSUME ReplInv, [ReplNext]_<<vars, rvars>> PROVE ReplInv'
    OBVIOUS
  <2>0. SendInv
    BY DEF ReplInv
  <2>1. PICK c \in 0..Len(Whole) : R!RecvInv(c) /\ Behind(c)
    BY DEF ReplInv
  <2>2. CASE [SendNext]_vars /\ UNCHANGED rvars
    <3>1. SendInv'
      BY <2>0, <2>2, SendStep
    <3>2. R!RecvInv(c)' /\ Behind(c)'
      BY <2>0, <2>1, <2>2, BehindSend
    <3> QED BY <3>1, <3>2 DEF ReplInv
  <2>3. CASE Receive
    <3>1. SendInv'
      BY <2>0, <2>3, SendStep DEF Receive
    <3>2. \E d \in 0..Len(Whole) : R!RecvInv(d)' /\ Behind(d)'
      BY <2>1, <2>3, BehindRecv
    <3> QED BY <3>1, <3>2 DEF ReplInv
  <2> QED BY <2>2, <2>3 DEF ReplNext
<1> QED BY <1>1, <1>2, PTL DEF ReplSpec

\* The receiver applies the blocks that have a record in order and without gaps, whatever fails
\* and however the four threads interleave; a receive that succeeds has applied all of them, and
\* the send has succeeded.
THEOREM TransferIsWhole == ReplSpec => []Transferred
<1>1. ReplInv => Transferred
  <2> SUFFICES ASSUME ReplInv PROVE Transferred
    OBVIOUS
  <2>0. SendInv
    BY DEF ReplInv
  <2>1. PICK c \in 0..Len(Whole) : R!RecvInv(c) /\ Behind(c)
    BY DEF ReplInv
  <2>2. c \in Nat /\ Len(Whole) \in Nat /\ \A i \in 1..Len(Whole) : Whole[i] = Nth(i)
    BY RecvConstants
  <2>3. applied \in Seq(1..Len(Whole)) /\ Len(applied) \in Nat /\ Len(applied) <= c
        /\ \A i \in DOMAIN applied : applied[i] = i
    BY <2>1, RecvFacts DEF R!RecvInv, R!RecvState
  <2>4. dumped \in Seq(Blocks) /\ Len(dumped) \in Nat /\ c <= Len(dumped) /\ \A i \in DOMAIN dumped : dumped[i] = Nth(i)
    BY <2>0, <2>1 DEF SendInv, TypeOK, SendState, Behind
  <2>5. ASSUME NEW i \in DOMAIN applied PROVE dumped[applied[i]] = Whole[i]
    <3>1. applied[i] = i /\ i \in 1..Len(applied)
      BY <2>3
    <3>2. i \in DOMAIN dumped /\ i \in 1..Len(Whole)
      BY <2>2, <2>3, <2>4, <3>1
    <3> QED BY <2>2, <2>4, <3>1, <3>2
  <2>6. ASSUME r_mpc = "done", r_err = "0" PROVE Len(applied) = Len(Whole) /\ mpc = "done" /\ err = "0"
    <3>1. c = Len(Whole) /\ rwa_err = "0" /\ wpc = "exit" /\ Len(applied) = c
      BY <2>1, <2>6 DEF R!RecvInv, R!RecvOrder, R!RecvState
    <3> QED BY <2>1, <2>6, <3>1 DEF Behind, Arrived
  <2>7. Len(applied) <= Len(Whole)
    BY <2>2, <2>3
  <2> QED BY <2>5, <2>6, <2>7 DEF Transferred
<1> QED BY <1>1, Invariance, PTL

\* When a call returns its queue is empty, nobody uses it any more and every record was freed,
\* and until then the sender's records are in its queue or with one of its threads: bqueue_destroy
\* on both sides, and kmem_free of every record, for any number and size of records.
THEOREM QueuesGoUnused == ReplSpec => []QueuesUnused
<1>1. ReplInv => QueuesUnused
  <2> SUFFICES ASSUME ReplInv PROVE QueuesUnused
    OBVIOUS
  <2>0. SendInv
    BY DEF ReplInv
  <2>1. PICK c \in 0..Len(Whole) : R!RecvInv(c) /\ Behind(c)
    BY DEF ReplInv
  <2>2. RecordsAccounted
    BY <2>0, Accounted
  <2>3. DestroyedUnused
    <3> SUFFICES ASSUME mpc = "done"
                 PROVE  /\ bq_list = << >> /\ records = {}
                        /\ tpc \in {"last", "exit"} /\ bq[tv].op = "none"
      BY DEF DestroyedUnused
    <3>1. Seen > Count(visited) /\ records = {}
      BY <2>0 DEF SendInv, SendOrder, SendRecords
    <3>2. /\ Put = Count(visited) + (IF Ended THEN 1 ELSE 0) /\ Count(visited) \in Nat /\ Len(bq_list) \in Nat
          /\ Taken \in 0..Put /\ Seen \in 0..Taken
          /\ Taken = Put - (IF bq[tv].op = "enqueue" THEN 1 ELSE 0) - Len(bq_list)
      BY <2>0, SendFacts DEF Taken
    <3>3. Ended /\ Len(bq_list) = 0 /\ bq[tv].op # "enqueue"
      BY <3>1, <3>2
    <3>4. bq_list \in Seq(Items) /\ bq[tv].op = "none"
      BY <2>0, <3>3 DEF SendInv, SendCalls, TypeOK, BqTypeOK
    <3> QED BY <3>1, <3>3, <3>4 DEF Ended
  <2>4. R!DestroyedUnused
    <3> SUFFICES ASSUME r_mpc = "done"
                 PROVE  r_list = << >> /\ r_records = {} /\ wpc = "exit" /\ r_bq[wr].op = "none"
      BY DEF R!DestroyedUnused
    <3>1. wpc = "exit" /\ R!Dealt(c) = R!Put(c) /\ r_bq[wr].op = "none" /\ next_rrd = NoItem
      BY <2>1 DEF R!RecvInv, R!RecvOrder, R!RecvCalls, R!RecvState, R!Ended
    <3>2. /\ R!Put(c) \in Nat /\ R!Taken(c) \in 0..R!Put(c) /\ R!Dealt(c) \in 0..R!Taken(c)
          /\ Len(r_list) \in Nat /\ r_list \in Seq(RItems)
      BY <2>1, RecvFacts
    <3>3. Len(r_list) = 0
      <4>1. R!Taken(c) = R!Put(c)
        BY <3>1, <3>2
      <4> QED BY <3>2, <4>1 DEF R!Taken
    <3>4. (R!Dealt(c) + 1)..R!Put(c) = {}
      BY <3>1, <3>2
    <3>5. r_records = {}
      BY <2>1, <3>1, <3>4 DEF R!RecvInv, R!RecvRecords
    <3> QED BY <3>1, <3>2, <3>3, <3>5
  <2> QED BY <2>2, <2>3, <2>4 DEF QueuesUnused
<1> QED BY <1>1, Invariance, PTL
=============================================================================
