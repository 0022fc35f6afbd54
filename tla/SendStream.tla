----------------------------- MODULE SendStream -----------------------------
(***************************************************************************)
(* dmu_send_impl (dmu_send.c): a traversal thread visits the blocks of a   *)
(* snapshot and puts a record for each in a blocking queue; the main       *)
(* thread writes the records to the stream.  Either may fail, and either   *)
(* way the queue, on the main thread's stack, goes away.                   *)
(***************************************************************************)
EXTENDS Bqueue

CONSTANTS
  NBlocks,      \* bound: the blocks of the snapshot
  NoRecord,     \* the blocks for which send_cb makes no record
  tv, main, eos

Blocks == 1..NBlocks

ASSUME SendAssumption ==
  /\ NBlocks \in Nat /\ NoRecord \subseteq Blocks
  /\ Threads = {tv, main} /\ tv # main
  /\ Items = Blocks \cup {eos} /\ eos \notin Blocks

VARIABLES
  visited,      \* how far the traversal has come
  tpc, mpc,     \* where the two threads are
  cancel, error_code,
  err,          \* the main thread's err
  to_data,      \* the main thread's record
  dumped,       \* the records written to the stream
  records       \* the send_block_records that are allocated

sendVars == <<visited, tpc, mpc, cancel, error_code, err, to_data, dumped, records>>
vars == <<queueVars, sendVars>>

\* err: 0, EINTR, or another error.
Errors == {"0", "EINTR", "EIO"}

TypeOK ==
  /\ BqTypeOK
  /\ visited \in 0..NBlocks
  /\ tpc \in {"visit", "put", "eos", "last", "exit"}
  /\ mpc \in {"next", "take", "loop", "drain", "drained", "done"}
  /\ cancel \in BOOLEAN /\ {error_code, err} \subseteq Errors
  /\ to_data \in Items \cup {NoItem}
  /\ dumped \in Seq(Blocks) /\ records \subseteq Items

-----------------------------------------------------------------------------
(* The traversal thread.                                                   *)

\* send_traverse_thread goes on after traverse_dataset_resume returned e.
TraverseReturned(e) == tpc' = "eos"

SetError(e) == error_code' = IF e # "EINTR" THEN e ELSE error_code

\* sta->cancel, read without a lock.
Cancelled == cancel

\* traverse_dataset_resume calls send_cb on the next block, which gives up if
\* the main thread cancelled, returns if there is nothing to send, or puts a
\* record; or there is no further block; or reading the next one fails.
send_cb ==
  /\ tpc = "visit" /\ Runs(tv, "none")
  /\ \/ /\ visited < NBlocks /\ ~Cancelled
        /\ visited' = visited + 1
        /\ IF visited' \in NoRecord
           THEN UNCHANGED <<records, queueVars, tpc>>
           ELSE /\ records' = records \cup {visited'}
                /\ bqueue_enqueue(tv, visited')
                /\ tpc' = "put"
        /\ UNCHANGED error_code
     \/ /\ visited < NBlocks
        /\ \E e \in IF Cancelled THEN {"EINTR"} ELSE {"EIO"} :
             SetError(e) /\ TraverseReturned(e)
        /\ UNCHANGED <<visited, records, queueVars>>
     \/ /\ visited = NBlocks
        /\ SetError("0") /\ TraverseReturned("0")
        /\ UNCHANGED <<visited, records, queueVars>>
  /\ UNCHANGED <<mpc, cancel, err, to_data, dumped>>

\* send_cb returns to the traversal.
Enqueued ==
  /\ tpc = "put" /\ Runs(tv, "none")
  /\ tpc' = "visit"
  /\ UNCHANGED <<queueVars, visited, mpc, cancel, error_code, err, to_data, dumped, records>>

\* The end-of-stream record, of size 1.
send_traverse_thread ==
  /\ tpc = "eos" /\ Runs(tv, "none")
  /\ records' = records \cup {eos}
  /\ bqueue_enqueue(tv, eos)
  /\ tpc' = "last"
  /\ UNCHANGED <<visited, mpc, cancel, error_code, err, to_data, dumped>>

TraverseExit ==
  /\ tpc = "last" /\ Runs(tv, "none")
  /\ tpc' = "exit"
  /\ UNCHANGED <<queueVars, visited, mpc, cancel, error_code, err, to_data, dumped, records>>

-----------------------------------------------------------------------------
(* The main thread.                                                        *)

\* bqueue_dequeue, the first time and in get_next_record, begins.
GetNext ==
  /\ mpc \in {"next", "drain"} /\ Runs(main, "none")
  /\ bqueue_dequeue(main)
  /\ mpc' = IF mpc = "next" THEN "take" ELSE "drained"
  /\ UNCHANGED <<visited, tpc, cancel, error_code, err, to_data, dumped, records>>

\* The record that came replaces the last one, which is freed.
Replace ==
  /\ Runs(main, "none")
  /\ to_data' = bq[main].item
  /\ records' = records \ {to_data}

\* A record has come; after the first, issig may report a signal.
get_next_record ==
  /\ mpc = "take" /\ Replace
  /\ mpc' = "loop"
  /\ \/ UNCHANGED err
     \/ to_data # NoItem /\ err' = "EINTR"
  /\ UNCHANGED <<queueVars, visited, tpc, cancel, error_code, dumped>>

\* do_dump writes a record, or fails.
do_dump ==
  /\ mpc = "loop" /\ to_data # eos /\ err = "0"
  /\ \/ dumped' = Append(dumped, to_data) /\ UNCHANGED err
     \/ err' = "EIO" /\ UNCHANGED dumped
  /\ mpc' = "next"
  /\ UNCHANGED <<queueVars, visited, tpc, cancel, error_code, to_data, records>>

\* Mutant: the main thread leaves at once.
BreakNoDrain ==
  /\ mpc = "loop" /\ err # "0"
  /\ cancel' = TRUE /\ mpc' = "done"
  /\ records' = records \ {to_data}
  /\ UNCHANGED <<queueVars, visited, tpc, error_code, err, to_data, dumped>>

\* After an error: cancel, and take records until the end-of-stream record.
Cancel ==
  /\ mpc = "loop" /\ err # "0" /\ to_data # eos
  /\ cancel' = TRUE
  /\ mpc' = "drain"
  /\ UNCHANGED <<queueVars, visited, tpc, error_code, err, to_data, dumped, records>>

Drain ==
  /\ mpc = "drained" /\ Replace
  /\ mpc' = IF to_data' = eos THEN "loop" ELSE "drain"
  /\ UNCHANGED <<queueVars, visited, tpc, cancel, error_code, err, dumped>>

\* kmem_free(to_data), bqueue_destroy, and the result.  Without an error so far a
\* pending record (a run of frees, which counts as written at once) and DRR_END are
\* written, which may fail.
Finish ==
  /\ mpc = "loop" /\ to_data = eos
  /\ mpc' = "done" /\ cancel' = (cancel \/ err # "0")
  /\ records' = records \ {eos}
  /\ err' \in IF err # "0" THEN {err}
              ELSE IF error_code # "0" THEN {error_code} ELSE {"0", "EIO"}
  /\ UNCHANGED <<queueVars, visited, tpc, error_code, to_data, dumped>>

-----------------------------------------------------------------------------
Init ==
  /\ BqInit
  /\ visited = 0 /\ tpc = "visit" /\ mpc = "next"
  /\ cancel = FALSE /\ error_code = "0" /\ err = "0"
  /\ to_data = NoItem /\ dumped = << >> /\ records = {}

Traverse == send_cb \/ Enqueued \/ send_traverse_thread \/ TraverseExit
Main == GetNext \/ get_next_record \/ do_dump \/ Cancel \/ Drain \/ Finish
Queue(t) == BqStep(t) /\ UNCHANGED sendVars

SendNext ==
  \/ Traverse \/ Main
  \/ \E t \in Threads : Queue(t) \/ (BqSpurious(t) /\ UNCHANGED sendVars)

\* The records of the first k blocks: how many there are, the i-th, all in order.
Count(k) == Cardinality((1..k) \ NoRecord)
Nth(i) == CHOOSE b \in Blocks \ NoRecord : Count(b) = i
Recorded(k) == [i \in 1..Count(k) |-> Nth(i)]

\* bqueue_destroy finds the queue empty, and the traversal thread does not
\* touch the queue or the argument, which are on the main thread's stack, again;
\* every record was freed.
DestroyedUnused ==
  mpc = "done" =>
    /\ bq_list = << >> /\ records = {}
    /\ tpc \in {"last", "exit"} /\ bq[tv].op = "none"

\* Records that are allocated are in the queue or with one of the threads:
\* none is lost, none is freed while another still uses it.
RecordsAccounted ==
  LET inCall == {bq[t].item : t \in {u \in Threads : bq[u].op # "none" \/ mpc \in {"take", "drained"}}}
      withMain == IF mpc = "done" THEN {} ELSE {to_data}
  IN  records = (Range(bq_list) \cup inCall \cup withMain) \ {NoItem}

SendFairness == WF_vars(Traverse) /\ WF_vars(Main) /\ \A t \in Threads : WF_vars(Queue(t))
-----------------------------------------------------------------------------
(* The inductive invariant.  The records, and after them the end-of-stream *)
(* record, are numbered; main takes them off the queue in this order.      *)

Ended == tpc \in {"last", "exit"}
Put == Count(visited) + (IF Ended THEN 1 ELSE 0)
Item(i) == IF i <= Count(visited) THEN Nth(i) ELSE eos

\* How many main has taken off the queue, and how many of them it has seen.
Taken == Put - (IF bq[tv].op = "enqueue" THEN 1 ELSE 0) - Len(bq_list)
InHand == bq[main].op = "signal" \/ (bq[main].op = "none" /\ mpc \in {"take", "drained"})
Seen == Taken - (IF InHand THEN 1 ELSE 0)

\* The calls agree with where the threads are.
SendCalls ==
  /\ bq[tv].op \in {"none", "enqueue"} /\ bq[main].op \in {"none", "dequeue", "signal"}
  /\ bq[tv].op = "enqueue" => tpc \in {"put", "last"} /\ Put > 0 /\ bq[tv].item = Item(Put)
  /\ bq[tv].op = "none" => bq[tv].item = NoItem
  /\ bq[main].op # "none" => mpc \in {"take", "drained"}
  /\ bq[main].op = "dequeue" => bq[main].item = NoItem

\* The queue and main have the last of the items, in order.
SendOrder ==
  /\ \A i \in 1..Count(visited) : Nth(i) \in Blocks \ NoRecord /\ Count(Nth(i)) = i
  /\ Seen >= 0 /\ \A i \in 1..Len(bq_list) : bq_list[i] = Item(Taken + i)
  /\ InHand => bq[main].item = Item(Taken)
  /\ to_data = IF Seen = 0 THEN NoItem ELSE Item(Seen)
  /\ mpc = "loop" => Seen > 0
  /\ mpc \in {"next", "take", "drain", "drained"} => Seen <= Count(visited)
  /\ mpc = "done" => Seen > Count(visited)

\* What is allocated: what main still has to see, or has in hand.
SendRecords == records = {Item(i) : i \in {j \in 1..Put : j >= Seen /\ mpc # "done"}}

\* What was written, and what the errors say of it.
SendState ==
  /\ \A i \in DOMAIN dumped : dumped[i] = Nth(i)
  /\ Len(dumped) <= Count(visited)
  /\ mpc \in {"next", "take"} /\ err = "0" => Len(dumped) = Seen
  /\ mpc = "loop" /\ err = "0" => Len(dumped) = Seen - 1
  /\ mpc \in {"drain", "drained"} => err # "0"
  /\ cancel => err # "0"
  /\ tpc \in {"eos", "last", "exit"} => visited = NBlocks \/ error_code # "0" \/ cancel
  /\ mpc = "done" /\ err = "0" => visited = NBlocks /\ Len(dumped) = Count(NBlocks)

SendInv == TypeOK /\ Sized /\ SendCalls /\ SendOrder /\ SendRecords /\ SendState
=============================================================================
