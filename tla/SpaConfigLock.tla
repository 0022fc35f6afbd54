---------------------------- MODULE SpaConfigLock ----------------------------
(***************************************************************************)
(* The configuration locks of a pool (spa_misc.c): an array of reader-     *)
(* writer locks, taken several at a time in ascending and given back in    *)
(* descending order.  A waiting writer keeps new readers out.              *)
(*                                                                         *)
(* One action is one turn of a loop over the locks, from mutex_enter or    *)
(* the end of cv_wait to the next cv_wait or mutex_exit.  The holds of a   *)
(* thread bear its own name; a read hold may also bear the name of an I/O, *)
(* and is then given back by whichever thread completes the I/O.           *)
(***************************************************************************)
EXTENDS LockThreads, FiniteSetsExt

CONSTANTS
  Writers,      \* the threads that ask for locks as RW_WRITER
  Interrupts,   \* threads that only complete I/O
  Ios,
  NLocks        \* SCL_LOCKS

Locks == 0..(NLocks - 1)
HoldTags == Threads \cup Ios

VARIABLES
  scl_writer, scl_write_wanted,
  held,      \* scl_count of each lock, as the set of holds
  call,      \* the call each thread is in
  asleep     \* the threads blocked on the scl_cv of the lock they are at

vars == <<scl_writer, scl_write_wanted, held, call, asleep>>

\* tag: whose holds; todo, done: the locks still to be visited and those visited;
\* counted: the caller is one of scl_write_wanted.
Call == [op : {"none", "enter", "try", "exit"}, rw : {"RW_READER", "RW_WRITER"},
         tag : HoldTags, todo : SUBSET Locks, done : SUBSET Locks, counted : BOOLEAN]
Idle(t) ==
  [op |-> "none", rw |-> "RW_READER", tag |-> t, todo |-> {}, done |-> {}, counted |-> FALSE]

TypeOK ==
  /\ scl_writer \in [Locks -> Threads \cup {NoThread}]
  /\ scl_write_wanted \in [Locks -> Nat]
  /\ held \in [Locks -> SUBSET HoldTags]
  /\ call \in [Threads -> Call]
  /\ asleep \in SUBSET Threads

At(t, op) == call[t].op = op /\ t \notin asleep

\* The lock an ascending loop comes to next.
First(todo) == Min(todo)

\* c after lock i was dealt with; the call returns after the last one.
Visited(t, i) ==
  LET c == call[t] IN
  IF c.todo = {i} THEN Idle(t)
  ELSE [c EXCEPT !.todo = c.todo \ {i}, !.done = c.done \cup {i}, !.counted = FALSE]

\* Callers respect the order of the locks: they ask only for locks after all
\* those they have.
InOrder(t, locks) == \A i \in locks, j \in Locks : t \in held[j] => i > j

-----------------------------------------------------------------------------
(* Taking locks.                                                           *)

Start(t, op, locks, rw, tag) ==
  /\ call[t].op = "none" /\ t \notin Interrupts
  /\ locks # {} /\ InOrder(t, locks)
  /\ rw = "RW_WRITER" => tag = t /\ t \in Writers
  /\ tag = t \/ tag \in Ios
  /\ \A i \in Locks : tag \in Ios => tag \notin held[i]
  /\ \A u \in Threads : call[u].op # "none" => call[u].tag # tag
  /\ call' = [call EXCEPT ![t] = [Idle(t) EXCEPT !.op = op, !.rw = rw, !.tag = tag, !.todo = locks]]
  /\ UNCHANGED <<scl_writer, scl_write_wanted, held, asleep>>

spa_config_enter(t, locks, rw, tag) == Start(t, "enter", locks, rw, tag)
spa_config_tryenter(t, locks, rw, tag) == Start(t, "try", locks, rw, tag)

Blocked(i, rw) ==
  IF rw = "RW_READER" THEN scl_writer[i] # NoThread \/ scl_write_wanted[i] > 0
  ELSE held[i] # {}

\* scl_writer = curthread; refcount_add(&scl->scl_count, tag)
Grant(t, i) ==
  /\ scl_writer' = IF call[t].rw = "RW_WRITER" THEN [scl_writer EXCEPT ![i] = t] ELSE scl_writer
  /\ held' = [held EXCEPT ![i] = @ \cup {call[t].tag}]
  /\ call' = [call EXCEPT ![t] = Visited(t, i)]

\* scl_write_wanted after this thread's wait for it, if it waited.
WantedAfterWait(t, i) == scl_write_wanted[i] - IF call[t].counted THEN 1 ELSE 0

\* A turn of the loop of spa_config_enter: wait, or take the lock.
EnterLock(t) ==
  /\ At(t, "enter")
  /\ LET i == First(call[t].todo)
         writes == call[t].rw = "RW_WRITER"
         wanted == WantedAfterWait(t, i)
     IN  IF Blocked(i, call[t].rw)
         THEN /\ asleep' = asleep \cup {t}
              /\ scl_write_wanted' =
                   [scl_write_wanted EXCEPT ![i] = IF writes THEN wanted + 1 ELSE @]
              /\ call' = [call EXCEPT ![t].counted = writes]
              /\ UNCHANGED <<scl_writer, held>>
         ELSE /\ scl_write_wanted' = [scl_write_wanted EXCEPT ![i] = wanted]
              /\ Grant(t, i)
              /\ UNCHANGED asleep

\* A refused spa_config_tryenter gives back what it has: locks & ((1 << i) - 1).
Refused(t) ==
  LET c == call[t] IN
  IF c.done = {} THEN Idle(t)
  ELSE [Idle(t) EXCEPT !.op = "exit", !.tag = c.tag, !.todo = c.done]

TryLock(t) ==
  /\ At(t, "try")
  /\ LET i == First(call[t].todo) IN
     IF Blocked(i, call[t].rw)
     THEN call' = [call EXCEPT ![t] = Refused(t)] /\ UNCHANGED <<scl_writer, held>>
     ELSE Grant(t, i)
  /\ UNCHANGED <<scl_write_wanted, asleep>>

-----------------------------------------------------------------------------
(* Giving back.                                                            *)

\* t gives back locks held under tag: its own, or those of an I/O.
spa_config_exit(t, locks, tag) ==
  /\ call[t].op = "none" /\ locks # {}
  /\ \A i \in locks : tag \in held[i]
  /\ tag = t \/ tag \in Ios
  /\ t \in Interrupts => tag \in Ios
  /\ \A u \in Threads : call[u].op # "none" => call[u].tag # tag
  /\ call' = [call EXCEPT ![t] = [Idle(t) EXCEPT !.op = "exit", !.tag = tag, !.todo = locks]]
  /\ UNCHANGED <<scl_writer, scl_write_wanted, held, asleep>>

\* cv_broadcast(&scl->scl_cv): the sleepers that remain.
Wake(i) == {{t \in asleep : First(call[t].todo) # i}}

ExitLock(t) ==
  /\ At(t, "exit")
  /\ LET i == Max(call[t].todo)
         left == held[i] \ {call[t].tag}
     IN  /\ held' = [held EXCEPT ![i] = left]
         /\ IF left = {}
            THEN scl_writer' = [scl_writer EXCEPT ![i] = NoThread] /\ asleep' \in Wake(i)
            ELSE UNCHANGED <<scl_writer, asleep>>
         /\ call' = [call EXCEPT ![t] = Visited(t, i)]
  /\ UNCHANGED scl_write_wanted

-----------------------------------------------------------------------------
\* spa_config_lock_init.
Init ==
  /\ scl_writer = [i \in Locks |-> NoThread]
  /\ scl_write_wanted = [i \in Locks |-> 0]
  /\ held = [i \in Locks |-> {}]
  /\ call = [t \in Threads |-> Idle(t)]
  /\ asleep = {}

SpuriousWake(t) ==
  /\ t \in asleep
  /\ asleep' = asleep \ {t}
  /\ UNCHANGED <<scl_writer, scl_write_wanted, held, call>>

Step(t) == EnterLock(t) \/ TryLock(t) \/ ExitLock(t)
Exit(t, tag) == \E locks \in SUBSET Locks : spa_config_exit(t, locks, tag)

Next ==
  \E t \in Threads :
    \/ \E locks \in SUBSET Locks, rw \in {"RW_READER", "RW_WRITER"}, tag \in HoldTags :
         spa_config_enter(t, locks, rw, tag) \/ spa_config_tryenter(t, locks, rw, tag)
    \/ \E tag \in HoldTags : Exit(t, tag)
    \/ Step(t)
    \/ SpuriousWake(t)

Spec == Init /\ [][Next]_vars

-----------------------------------------------------------------------------
(* Safety.                                                                 *)

\* The threads counted by scl_write_wanted of lock i.
Wanting(i) == {t \in Threads : call[t].counted /\ First(call[t].todo) = i}

\* The writer is the only holder, scl_write_wanted counts exactly the writers
\* that wait for the lock (one too many would shut readers out for good), and
\* who sleeps has a reason to: a writer or a waiting one is ahead of a reader.
SclInv ==
  \A i \in Locks :
    /\ scl_writer[i] # NoThread => held[i] = {scl_writer[i]}
    /\ scl_write_wanted[i] = Cardinality(Wanting(i))
    /\ \A t \in asleep : First(call[t].todo) = i /\ call[t].rw = "RW_WRITER" => held[i] # {}
    /\ \A t \in asleep : First(call[t].todo) = i /\ call[t].rw = "RW_READER"
                           => held[i] # {} \/ scl_write_wanted[i] > 0

\* A thread between calls has no locks left over from a refused
\* spa_config_tryenter: what a call visited it holds, and giving back visits
\* only what is held (the ASSERT on scl_count).
OnlyHeldGivenBack ==
  \A t \in Threads :
    /\ call[t].op = "exit" => \A i \in call[t].todo : call[t].tag \in held[i]
    /\ call[t].op \in {"enter", "try"} =>
         /\ \A i \in call[t].todo : call[t].tag \notin held[i]
         /\ \A i \in call[t].done : call[t].tag \in held[i]

\* Between its first and last lock a call has locks to visit, and no two calls are
\* about the same tag (inductive together with the above).
CallInv ==
  \A t \in Threads :
    /\ call[t].todo = {} <=> call[t].op = "none"
    /\ call[t].todo \cap call[t].done = {}
    /\ call[t].rw = "RW_WRITER" => call[t].tag = t
    /\ call[t].counted => call[t].op = "enter" /\ call[t].rw = "RW_WRITER"
    /\ t \in asleep => call[t].op = "enter"
    /\ \A u \in Threads :
         call[t].op # "none" /\ call[u].op # "none" /\ call[t].tag = call[u].tag => t = u
SclCallInv == TypeOK /\ CallInv /\ SclInv /\ OnlyHeldGivenBack

\* Each of the locks implements the abstract reader-writer lock.
RW(i) == INSTANCE RWLock WITH Holds <- HoldTags, Writers <- Threads, NoWriter <- NoThread,
           readers <- held[i] \ {scl_writer[i]},
           writer <- scl_writer[i]

ImplementsRWLock ==
  /\ \A i \in Locks : RW(i)!Init
  /\ [][\A i \in Locks : [RW(i)!Next]_(RW(i)!lockVars)]_vars

\* spa_config_tryenter returns with all the locks it was asked for, or with none.
TryAllOrNothing ==
  [][\A t \in Threads :
       call[t].op = "try" /\ call'[t].op = "none"
         => LET got == {i \in call[t].todo \cup call[t].done : call[t].tag \in held'[i]}
            IN  got \in {{}, call[t].todo \cup call[t].done}]_vars

-----------------------------------------------------------------------------
(* Liveness.  Threads run, whoever holds a lock gives it back even if it   *)
(* calls for others meanwhile, and I/O completes.                          *)

GiveBack(t, i) == \E locks \in SUBSET Locks : i \in locks /\ spa_config_exit(t, locks, t)

Fairness ==
  /\ \A t \in Threads : WF_vars(Step(t))
  /\ \A t \in Threads \ Interrupts, i \in Locks : SF_vars(GiveBack(t, i))
  /\ \A x \in Ios : WF_vars(\E t \in Interrupts : Exit(t, x))
=============================================================================
