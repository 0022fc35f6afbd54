------------------------------ MODULE ZilCommit ------------------------------
(***************************************************************************)
(* Who commits to the intent log, and who waits (zil_commit, zil_suspend   *)
(* in zil.c).  One thread at a time is the writer; it commits for all that *)
(* were waiting when it began.  zil_suspend empties the log and keeps      *)
(* writers off it.  What a writer writes is in module Zil.                 *)
(*                                                                         *)
(* The log is seen as far as suspension needs it: whether there are log    *)
(* write buffers, and whether the header points at a block.  The records   *)
(* are numbered as they are assigned.                                      *)
(***************************************************************************)
EXTENDS Integers, FiniteSets

CONSTANTS Threads,     \* that log something and commit it
          Suspenders,  \* that suspend the log once
          Offliners,   \* those of them without a cookie, which resume at once
          Calls,       \* bound: commits per thread
          Fresh        \* whether there is no log at first

ASSUME ZilCommitAssumption ==
  /\ Threads \cap Suspenders = {} /\ Offliners \subseteq Suspenders /\ Calls \in Nat /\ Fresh \in BOOLEAN

VARIABLES zl_next_batch, zl_com_batch, zl_writer,
          zl_suspend, zl_suspending,
          pc, mybatch,
          asleep,   \* the threads on zl_cv_batch[0], zl_cv_batch[1] and zl_cv_suspend
          calls,    \* per thread: the calls made
          assigned, stable,  \* the last record assigned, and the last that is stable
          target,   \* per thread: the last record when it called zil_commit
          top,      \* the last record that the writer has collected
          uselog,   \* whether the writer uses the log: it saw zl_suspend at 0
          lwbs,     \* whether zl_lwb_list has a buffer
          zh_log,   \* whether the header points at a log block
          destroying, \* zl_destroy_txg is not synced yet
          unplayed, \* ZIL_REPLAY_NEEDED: the file system is not mounted yet
          emptied   \* the suspender in charge has emptied the log

batch == <<zl_next_batch, zl_com_batch, zl_writer>>
susp == <<zl_suspend, zl_suspending, emptied>>
log == <<uselog, lwbs, zh_log, destroying, unplayed>>
recs == <<assigned, stable, target, top>>
vars == <<batch, susp, log, recs, pc, mybatch, asleep, calls>>

All == Threads \cup Suspenders

\* zl_cv_suspend, beside zl_cv_batch[0] and zl_cv_batch[1].
CvSuspend == 2

Init ==
  /\ zl_next_batch = 1 /\ zl_com_batch = 0 /\ zl_writer = FALSE
  /\ zl_suspend = 0 /\ zl_suspending = FALSE /\ emptied = FALSE
  /\ pc = [t \in All |-> "idle"] /\ mybatch = [t \in All |-> 0]
  /\ asleep = [c \in {0, 1, CvSuspend} |-> {}]
  /\ calls = [t \in All |-> 0]
  /\ assigned = 0 /\ stable = 0 /\ target = [t \in All |-> 0] /\ top = 0
  /\ uselog = FALSE /\ destroying = FALSE
  /\ \/ unplayed = FALSE /\ lwbs = ~Fresh /\ zh_log = ~Fresh
     \/ unplayed = TRUE /\ lwbs = FALSE /\ zh_log = TRUE

Goto(t, l) == pc' = [pc EXCEPT ![t] = l]

-----------------------------------------------------------------------------
(* zil_commit                                                              *)

\* A thread assigns a record and asks for its commitment.
Call(t) ==
  /\ pc[t] = "idle" /\ t \in Threads /\ calls[t] < Calls /\ ~unplayed
  /\ Goto(t, "enter")
  /\ calls' = [calls EXCEPT ![t] = @ + 1]
  /\ assigned' = assigned + 1
  /\ target' = [target EXCEPT ![t] = assigned + 1]
  /\ UNCHANGED <<batch, susp, log, mybatch, asleep, stable, top>>

\* After the call a suspender goes on to destroy the log.
After(t) == IF t \in Threads THEN "idle" ELSE "destroy"

Return(t) == Goto(t, After(t)) /\ mybatch' = [mybatch EXCEPT ![t] = 0]

\* There is a writer: the condition of the loop.
Busy(t) == zl_writer

Sleep(t, b) ==
  /\ Busy(t)
  /\ asleep' = [asleep EXCEPT ![b % 2] = @ \cup {t}]
  /\ Goto(t, "wait")
  /\ UNCHANGED batch

BecomeWriter(t) ==
  /\ ~Busy(t)
  /\ zl_next_batch' = zl_next_batch + 1
  /\ zl_writer' = TRUE
  /\ Goto(t, "collect")
  /\ UNCHANGED <<asleep, zl_com_batch>>

Enter(t) ==
  /\ pc[t] = "enter"
  /\ mybatch' = [mybatch EXCEPT ![t] = zl_next_batch]
  /\ Sleep(t, zl_next_batch) \/ BecomeWriter(t)
  /\ UNCHANGED <<susp, log, recs, calls>>

Awake(t) == \A c \in DOMAIN asleep : t \notin asleep[c]

\* Mutant: the next batch counts as committed.
CommittedNext(t) == mybatch[t] <= zl_com_batch + 1

Committed(t) == mybatch[t] <= zl_com_batch

Wake(t) ==
  /\ pc[t] = "wait" /\ Awake(t)
  /\ \/ Committed(t) /\ Return(t) /\ UNCHANGED <<batch, asleep>>
     \/ /\ ~Committed(t) /\ UNCHANGED mybatch
        /\ Sleep(t, mybatch[t]) \/ BecomeWriter(t)
  /\ UNCHANGED <<susp, log, recs, calls>>

\* The writer must not use the log.
KeptOff == zl_suspend > 0

\* zil_get_commit_list, and the choice of a log block.
WriterCollect(t) ==
  /\ pc[t] = "collect"
  /\ top' = assigned
  /\ uselog' = (assigned > top /\ ~KeptOff)
  /\ Goto(t, CASE assigned = top -> "nothing"
              [] assigned > top /\ KeptOff -> "sync"
              [] OTHER -> IF lwbs THEN "write" ELSE "create")
  /\ UNCHANGED <<batch, susp, lwbs, zh_log, destroying, unplayed, assigned, stable, target, mybatch,
                 asleep, calls>>

\* zil_create: the first buffer, once an earlier destruction has synced.  If there is
\* no block and none can be allocated, the records go to disk with their txgs.
WriterCreate(t) ==
  /\ pc[t] = "create" /\ ~destroying
  /\ \/ lwbs' = TRUE /\ Goto(t, "created") /\ UNCHANGED uselog
     \/ ~zh_log /\ uselog' = FALSE /\ Goto(t, "sync") /\ UNCHANGED lwbs
  /\ UNCHANGED <<batch, susp, zh_log, destroying, unplayed, recs, mybatch, asleep, calls>>

\* ... and the header points at it.
WriterCreated(t) ==
  /\ pc[t] = "created" /\ zh_log
  /\ Goto(t, "write")
  /\ UNCHANGED <<batch, susp, log, recs, mybatch, asleep, calls>>

\* The records are stable, in the log or (txg_wait_synced) with their txgs.
Done(t) ==
  /\ pc[t] \in {"write", "sync", "nothing"}
  /\ stable' = top
  /\ zl_com_batch' = mybatch[t] /\ zl_writer' = FALSE
  /\ uselog' = FALSE
  /\ Goto(t, "signal")
  /\ UNCHANGED <<zl_next_batch, susp, lwbs, zh_log, destroying, unplayed, assigned, target, top,
                 mybatch, asleep, calls>>

\* Mutant: the signal goes to the batch that was just committed.
SignalledOwn(t) == mybatch[t] % 2

\* One thread of the next batch becomes the writer.
Signalled(t) == (mybatch[t] + 1) % 2

Signal(t) ==
  /\ pc[t] = "signal"
  /\ LET c == Signalled(t)
     IN  IF asleep[c] = {} THEN UNCHANGED asleep
           ELSE \E u \in asleep[c] : asleep' = [asleep EXCEPT ![c] = @ \ {u}]
  /\ Goto(t, "broadcast")
  /\ UNCHANGED <<batch, susp, log, recs, mybatch, calls>>

Broadcast(t) ==
  /\ pc[t] = "broadcast"
  /\ asleep' = [asleep EXCEPT ![mybatch[t] % 2] = {}]
  /\ Return(t)
  /\ UNCHANGED <<batch, susp, log, recs, calls>>

SpuriousWake(t) ==
  /\ pc[t] = "wait"
  /\ \E c \in DOMAIN asleep : t \in asleep[c] /\ asleep' = [asleep EXCEPT ![c] = @ \ {t}]
  /\ UNCHANGED <<batch, susp, log, recs, pc, mybatch, calls>>

-----------------------------------------------------------------------------
(* zil_suspend and zil_resume                                              *)

Counted(s) == zl_suspend + 1

\* The suspender commits everything, which also waits for the writer, then destroys.
FirstCommit(s) == "enter"

\* Without a cookie there is nothing to do for a log that is suspended or empty.
NothingToDo(s) == s \in Offliners /\ ~zl_suspending /\ (zl_suspend > 0 \/ ~zh_log)

\* zil_suspend refuses a log that was not replayed (EBUSY).
zil_suspend(s) ==
  /\ pc[s] = "idle" /\ s \in Suspenders /\ calls[s] = 0
  /\ calls' = [calls EXCEPT ![s] = 1]
  /\ \/ /\ unplayed \/ NothingToDo(s)
        /\ Goto(s, "end") /\ UNCHANGED <<zl_suspend, zl_suspending, target>>
     \/ /\ ~unplayed /\ ~NothingToDo(s)
        /\ zl_suspend' = Counted(s)
        /\ \/ zl_suspend > 0 /\ Goto(s, "other") /\ UNCHANGED <<zl_suspending, target>>
           \/ /\ zl_suspend = 0 /\ ~zh_log
              /\ Goto(s, "suspended") /\ UNCHANGED <<zl_suspending, target>>
           \/ /\ zl_suspend = 0 /\ zh_log
              /\ zl_suspending' = TRUE
              /\ target' = [target EXCEPT ![s] = assigned]
              /\ Goto(s, FirstCommit(s))
  /\ UNCHANGED <<batch, log, emptied, mybatch, asleep, assigned, stable, top>>

\* Wait for the suspender that was first.
WaitOther(s) ==
  /\ pc[s] = "other" /\ Awake(s)
  /\ IF zl_suspending
       THEN asleep' = [asleep EXCEPT ![CvSuspend] = @ \cup {s}] /\ UNCHANGED pc
       ELSE Goto(s, "suspended") /\ UNCHANGED asleep
  /\ UNCHANGED <<batch, susp, log, recs, mybatch, calls>>

\* zil_destroy: the buffers are freed, the header is cleared in the next txg.
Destroy(s) ==
  /\ pc[s] = "destroy" /\ ~destroying
  /\ lwbs' = FALSE /\ destroying' = zh_log /\ emptied' = TRUE
  /\ Goto(s, "destroyed")
  /\ UNCHANGED <<batch, zl_suspend, zl_suspending, uselog, zh_log, unplayed, recs, mybatch, asleep,
                 calls>>

Destroyed(s) ==
  /\ pc[s] = "destroyed"
  /\ zl_suspending' = FALSE
  /\ asleep' = [asleep EXCEPT ![CvSuspend] = {}]
  /\ Goto(s, "suspended")
  /\ UNCHANGED <<batch, zl_suspend, emptied, log, recs, mybatch, calls>>

zil_resume(s) ==
  /\ pc[s] = "suspended"
  /\ zl_suspend' = zl_suspend - 1
  /\ emptied' = (emptied /\ zl_suspend > 1)
  /\ Goto(s, "end")
  /\ UNCHANGED <<batch, zl_suspending, log, recs, mybatch, asleep, calls>>

\* The header after zil_sync.
Header == lwbs \/ (zh_log /\ ~destroying)

\* A txg syncs: zil_sync brings the header up to date.
Sync ==
  /\ zh_log # Header \/ destroying
  /\ zh_log' = Header /\ destroying' = FALSE
  /\ UNCHANGED <<batch, susp, uselog, lwbs, unplayed, recs, pc, mybatch, asleep, calls>>

\* zil_replay, when the file system is mounted: in the end the log is destroyed.
zil_replay ==
  /\ unplayed
  /\ unplayed' = FALSE /\ zh_log' = FALSE
  /\ UNCHANGED <<batch, susp, uselog, lwbs, destroying, recs, pc, mybatch, asleep, calls>>

Step(t) ==
  \/ Enter(t) \/ Wake(t) \/ WriterCollect(t) \/ WriterCreate(t) \/ WriterCreated(t)
  \/ Done(t) \/ Signal(t) \/ Broadcast(t)
  \/ WaitOther(t) \/ Destroy(t) \/ Destroyed(t) \/ zil_resume(t)

Next ==
  \/ \E t \in All : Step(t) \/ Call(t) \/ SpuriousWake(t) \/ zil_suspend(t)
  \/ Sync \/ zil_replay

Spec == Init /\ [][Next]_vars

\* Threads run, and txgs sync.
Fairness == WF_vars(Sync) /\ \A t \in All : WF_vars(Step(t))

-----------------------------------------------------------------------------
\* The places and counters have their types.
TypeOK ==
  /\ zl_next_batch \in Nat /\ zl_com_batch \in Nat /\ zl_suspend \in 0 .. Cardinality(Suspenders)
  /\ {zl_writer, zl_suspending, uselog, lwbs, zh_log, destroying, unplayed, emptied} \subseteq BOOLEAN
  /\ \A c \in DOMAIN asleep : asleep[c] \subseteq All
  /\ pc \in [All -> {"idle", "enter", "wait", "collect", "create", "created", "write", "sync", "nothing",
                     "signal", "broadcast", "other", "destroy", "destroyed", "suspended",
                     "end"}]

Writes(t) == pc[t] \in {"collect", "create", "created", "write", "sync", "nothing"}

\* When zil_commit returns, what was assigned before the call is stable, whoever was
\* the writer and however the batches were formed.  zl_writer is the one thread that
\* writes; the log is not destroyed under it, and once it was emptied a suspended log
\* stays empty until the last zil_resume.
ReturnsStable ==
  /\ \A t \in All : pc[t] \in {"idle", "destroy"} => target[t] <= stable
  /\ zl_writer <=> \E t \in All : Writes(t)
  /\ \A t, u \in All : Writes(t) /\ Writes(u) => t = u
  /\ \A s \in Suspenders : pc[s] = "destroy" => ~uselog
  /\ emptied => ~lwbs

\* Every call of zil_commit and zil_suspend returns, and the log is resumed: the calls
\* are bounded, so in the end nobody is in one.
EveryCommitReturns == <>[](\A t \in All : pc[t] \in {"idle", "end"})
=============================================================================
