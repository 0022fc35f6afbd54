------------------------------- MODULE Zrlock -------------------------------
(***************************************************************************)
(* The zero-reference lock (zrlock.c): references are taken by compare and *)
(* swap, the lock can be taken only while there is none, and whoever wants *)
(* a reference meanwhile sleeps.                                           *)
(*                                                                         *)
(* zr_refcount is read and swapped without zr_mtx, so every access to it   *)
(* is an action of its own; zr_mtx is modelled because it alone keeps the  *)
(* wake-up of zrl_exit from falling between the test and the sleep.        *)
(***************************************************************************)
EXTENDS LockThreads

CONSTANT Slots      \* bound: a thread has at most one reference per slot

ZRL_LOCKED == -1
Refs == Threads \X Slots

VARIABLES
  zr_refcount, zr_mtx,
  ref,      \* the references handed out
  pc, n,    \* where each thread is, and its copy of zr_refcount
  asleep    \* the threads blocked on zr_cv

vars == <<zr_refcount, zr_mtx, ref, pc, n, asleep>>

Places == {"none", "cas", "mtx", "check", "sleep", "try", "locked", "store", "wake"}

\* zr_refcount is never below ZRL_LOCKED: no reference is dropped twice.
TypeOK ==
  /\ zr_refcount \in Int /\ zr_refcount >= ZRL_LOCKED
  /\ zr_mtx \in Threads \cup {NoThread}
  /\ ref \in SUBSET Refs
  /\ pc \in [Threads -> Places] /\ n \in [Threads -> Int]
  /\ asleep \in SUBSET Threads

At(t, p) == pc[t] = p /\ t \notin asleep
Go(t, p) == pc' = [pc EXCEPT ![t] = p]

-----------------------------------------------------------------------------
(* References.                                                             *)

\* The test of the inner loop of zrl_add_impl on the value just read.
AddTest(t, seen) ==
  /\ n' = [n EXCEPT ![t] = seen]
  /\ Go(t, IF seen = ZRL_LOCKED THEN "mtx" ELSE "cas")

\* zrl_add_impl reads zr_refcount.
zrl_add_impl(t) ==
  /\ At(t, "none")
  /\ \E s \in Slots : <<t, s>> \notin ref
  /\ AddTest(t, zr_refcount)
  /\ UNCHANGED <<zr_refcount, zr_mtx, ref, asleep>>

\* atomic_cas_32(&zr_refcount, n, n + 1)
AddCas(t) ==
  /\ At(t, "cas")
  /\ IF zr_refcount = n[t]
     THEN /\ \E s \in Slots :
               /\ <<t, s>> \notin ref
               /\ ref' = ref \cup {<<t, s>>}
          /\ zr_refcount' = n[t] + 1
          /\ Go(t, "none")
          /\ UNCHANGED n
     ELSE /\ AddTest(t, zr_refcount)
          /\ UNCHANGED <<zr_refcount, ref>>
  /\ UNCHANGED <<zr_mtx, asleep>>

\* The slow path takes zr_mtx, also when cv_wait returns.
AddMutex(t) ==
  /\ At(t, "mtx") /\ zr_mtx = NoThread
  /\ zr_mtx' = t
  /\ Go(t, "check")
  /\ UNCHANGED <<zr_refcount, ref, n, asleep>>

\* Still locked: sleep.  Otherwise back to the fast path, which reads again.
AddCheck(t) ==
  /\ At(t, "check")
  /\ IF zr_refcount = ZRL_LOCKED
     THEN Go(t, "sleep") /\ UNCHANGED <<zr_mtx, n>>
     ELSE zr_mtx' = NoThread /\ AddTest(t, zr_refcount)
  /\ UNCHANGED <<zr_refcount, ref, asleep>>

AddSleep(t) ==
  /\ At(t, "sleep")
  /\ zr_mtx' = NoThread
  /\ asleep' = asleep \cup {t}
  /\ Go(t, "mtx")
  /\ UNCHANGED <<zr_refcount, ref, n>>

zrl_remove(t, s) ==
  /\ At(t, "none") /\ <<t, s>> \in ref
  /\ zr_refcount' = zr_refcount - 1
  /\ ref' = ref \ {<<t, s>>}
  /\ UNCHANGED <<zr_mtx, pc, n, asleep>>

-----------------------------------------------------------------------------
(* The lock.                                                               *)

\* zrl_tryenter gives up at once unless it reads 0.
zrl_tryenter(t) ==
  /\ At(t, "none") /\ zr_refcount = 0
  /\ Go(t, "try")
  /\ UNCHANGED <<zr_refcount, zr_mtx, ref, n, asleep>>

\* atomic_cas_32(&zr_refcount, 0, ZRL_LOCKED)
TryCas(t) ==
  /\ At(t, "try")
  /\ IF zr_refcount = 0
     THEN zr_refcount' = ZRL_LOCKED /\ Go(t, "locked")
     ELSE Go(t, "none") /\ UNCHANGED zr_refcount
  /\ UNCHANGED <<zr_mtx, ref, n, asleep>>

zrl_exit(t) ==
  /\ At(t, "locked") /\ zr_mtx = NoThread
  /\ zr_mtx' = t
  /\ Go(t, "store")
  /\ UNCHANGED <<zr_refcount, ref, n, asleep>>

\* A plain store: nobody else changes a locked zr_refcount.
ExitStore(t) ==
  /\ At(t, "store")
  /\ zr_refcount' = 0
  /\ Go(t, "wake")
  /\ UNCHANGED <<zr_mtx, ref, n, asleep>>

ExitWake(t) ==
  /\ At(t, "wake")
  /\ asleep' = {}
  /\ zr_mtx' = NoThread
  /\ Go(t, "none")
  /\ UNCHANGED <<zr_refcount, ref, n>>

-----------------------------------------------------------------------------
\* zrl_init.
Init ==
  /\ zr_refcount = 0 /\ zr_mtx = NoThread
  /\ ref = {}
  /\ pc = [t \in Threads |-> "none"] /\ n = [t \in Threads |-> 0]
  /\ asleep = {}

SpuriousWake(t) ==
  /\ t \in asleep
  /\ asleep' = asleep \ {t}
  /\ UNCHANGED <<zr_refcount, zr_mtx, ref, pc, n>>

AddStep(t) == AddCas(t) \/ AddMutex(t) \/ AddCheck(t) \/ AddSleep(t)
LockStep(t) == TryCas(t) \/ zrl_exit(t) \/ ExitStore(t) \/ ExitWake(t)
DropRef(t) == \E s \in Slots : zrl_remove(t, s)

Next ==
  \E t \in Threads :
    \/ zrl_add_impl(t) \/ AddStep(t) \/ DropRef(t)
    \/ zrl_tryenter(t) \/ LockStep(t)
    \/ SpuriousWake(t)

Spec == Init /\ [][Next]_vars

-----------------------------------------------------------------------------
(* Safety.                                                                 *)

Owner(t) == pc[t] \in {"locked", "store"}

\* Locked excludes referenced, and the count is exact although nobody holds a
\* lock while changing it (inductive together with TypeOK).
ZrlInv ==
  /\ TypeOK
  /\ zr_refcount = ZRL_LOCKED <=> \E t \in Threads : Owner(t)
  /\ zr_refcount = ZRL_LOCKED => ref = {}
  /\ zr_refcount >= 0 => zr_refcount = Cardinality(ref)
  /\ \A t, u \in Threads : Owner(t) /\ Owner(u) => t = u
  /\ \A t \in Threads : pc[t] = "cas" => n[t] >= 0
  /\ \A t \in Threads :
       pc[t] \in {"cas", "mtx", "check", "sleep"} => \E s \in Slots : <<t, s>> \notin ref

\* The lock implements the abstract reader-writer lock: no thread has the lock
\* while another has a reference.
RW == INSTANCE RWLock WITH Holds <- Refs, Writers <- Threads, NoWriter <- NoThread,
        readers <- ref,
        writer <- IF \E t \in Threads : Owner(t)
                  THEN CHOOSE t \in Threads : Owner(t) ELSE NoThread

ImplementsRWLock == RW!Spec

\* No wake-up is lost: a thread sleeps in zrl_add only while another has the
\* lock or is about to broadcast, so the store and the broadcast of zrl_exit
\* cannot both fall between its test and its sleep.
SleepersAwaited ==
  asleep # {} => \E t \in Threads : pc[t] \in {"locked", "store", "wake"}

\* Inductive: whoever is about to sleep has zr_mtx, without which the owner cannot
\* go on to its store.
ZrlMutexInv ==
  /\ \A t \in Threads : zr_mtx = t <=> pc[t] \in {"check", "sleep", "store", "wake"}
  /\ \A t \in asleep : pc[t] = "mtx"
  /\ \A t \in Threads : pc[t] = "sleep" => \E u \in Threads : pc[u] = "locked"
ZrlSleepInv == IsFiniteSet(ref) /\ ZrlInv /\ ZrlMutexInv /\ SleepersAwaited
=============================================================================
