-------------------------------- MODULE Zio ---------------------------------
(***************************************************************************)
(* The tree of I/Os of zio.c: parents and children, the pipeline of null,  *)
(* read and write I/Os, the allocation throttle, retries, reexecution, and *)
(* suspended pools.                                                        *)
(*                                                                         *)
(* An I/O that is queued or running has executors; a stage of its pipeline *)
(* is one action.  The I/Os to the devices below a logical one are counted *)
(* (vdev); a device answers each of them.  Gang blocks and deduplication   *)
(* are left out, so an I/O has at most one parent.                         *)
(***************************************************************************)
EXTENDS Integers, FiniteSets

CONSTANTS
  Zios,         \* the I/Os of the callers
  Trees,        \* the trees they may form
  Async,        \* spa_async_zio_root
  Suspenders,   \* the I/Os that may become spa_suspend_zio_root
  NoZio,
  Copies,       \* device I/Os of a write; replicas a read may try
  MaxSlots,     \* mc_alloc_max_slots
  Errors,       \* the faults that occur
  MaxFaults     \* bound on the number of times one sets in

ASSUME ZioAssumption ==
  /\ IsFiniteSet(Zios) /\ IsFiniteSet(Suspenders)
  /\ Trees \subseteq [kind : [Zios -> {"null", "read", "write"}],
                      up : [Zios -> Zios \cup {NoZio}], canFail : SUBSET Zios]
  /\ Async \notin Zios \cup Suspenders /\ NoZio \notin Zios \cup Suspenders \cup {Async}
  /\ Zios \cap Suspenders = {}
  /\ Copies \in Nat \ {0} /\ MaxSlots \in Nat /\ Copies <= MaxSlots
  /\ Errors \subseteq {"EIO", "ENXIO", "ENOSPC"} /\ MaxFaults \in Nat

Godfathers == Suspenders \cup {Async}
All == Zios \cup Godfathers

VARIABLES
  tree,       \* the tree of this behaviour
  io,         \* zio_t
  links,      \* pairs of parent and child
  held,       \* mc_alloc_slots: slots reserved for each I/O
  queue,      \* spa_alloc_tree
  sroot,      \* spa_suspend_zio_root
  admin,      \* how far zio_resume is that took an I/O from spa_suspend_zio_root
  bad,        \* the fault that prevails
  faults,     \* how many there were
  bp,         \* the block of each write: 0 for a hole
  blocks,     \* blocks of each write that are allocated
  written     \* for each finished or issued write, the children's blocks it refers to

\* The kind of each I/O, the parent each is created with, or NoZio, and those with
\* ZIO_FLAG_CANFAIL.
Kind == tree.kind
Up == tree.up
CanFail == tree.canFail

vars == <<io, links, held, queue, sroot, admin, bad, faults, bp, blocks, written>>

KindOf(z) == IF z \in Zios THEN Kind[z] ELSE "null"
MayFail(z) == z \in CanFail \cup Godfathers
Children(z) == {c \in All : <<z, c>> \in links}
Parents(z) == {p \in All : <<p, z>> \in links}

Stages == {"created", "compress", "throttle", "allocate", "ready", "start", "iodone", "assess", "done",
           "suspend", "over", "gone"}
ErrorsOrNone == {"none", "EIO", "ENXIO", "ENOSPC"}

TypeOK ==
  /\ io \in [All -> [stage : Stages, exec : Nat, stall : {"none", "ready", "done", "vdev"},
                     ready : Nat, done : Nat, vdev : Nat,               \* io_children
                     isReady : BOOLEAN, isDone : BOOLEAN,               \* io_state
                     error : ErrorsOrNone, childError : ErrorsOrNone,
                     failed : ErrorsOrNone, tried : 0 .. Copies,        \* mirror_map_t
                     reexecute : SUBSET {"now", "suspend"}, retry : BOOLEAN,
                     allocating : BOOLEAN, quiet : BOOLEAN,             \* DONT_PROPAGATE
                     rx : {"no", "task", "run"}, todo : SUBSET All]]    \* zio_reexecute
  /\ links \subseteq All \X All
  /\ held \in [Zios -> Nat] /\ queue \subseteq Zios
  /\ sroot \in Suspenders \cup {NoZio}
  /\ admin \in [Suspenders -> {"idle", "reexecute", "wait"}]
  /\ bad \in ErrorsOrNone /\ faults \in 0 .. MaxFaults
  /\ bp \in [Zios -> 0 .. 3] /\ blocks \in [Zios -> SUBSET (1 .. 3)]
  /\ written \in [Zios -> [Zios -> 0 .. 3]]

\* What zio_create makes.
Fresh == [stage |-> "created", exec |-> 0, stall |-> "none", ready |-> 0, done |-> 0, vdev |-> 0,
          isReady |-> FALSE, isDone |-> FALSE, error |-> "none", childError |-> "none", failed |-> "none",
          tried |-> 0, reexecute |-> {}, retry |-> FALSE, allocating |-> FALSE, quiet |-> FALSE,
          rx |-> "no", todo |-> {}]

\* zio_worst_error: an unknown error ranks highest.
Rank == [none |-> 0, ENXIO |-> 1, EIO |-> 3, ENOSPC |-> 4]
zio_worst_error(e1, e2) == IF Rank[e1] > Rank[e2] THEN e1 ELSE e2

-----------------------------------------------------------------------------
(* The tree.  These take the function io and return it changed.            *)

Dispatch(f, z) == [f EXCEPT ![z].exec = @ + 1]
Stop(f, z) == [f EXCEPT ![z].exec = @ - 1]
Goto(f, z, s) == [f EXCEPT ![z].stage = s]

\* The counts of a new parent: what the child has not reached yet.
zio_add_child(f, p, z) ==
  [f EXCEPT ![p].ready = @ + (IF f[z].isReady THEN 0 ELSE 1), ![p].done = @ + (IF f[z].isDone THEN 0 ELSE 1)]

\* Mutant: the parent does not take over the child's error.
Unread(f, p, z, w) ==
  [f EXCEPT ![p].childError = @, ![p].reexecute = @ \cup f[z].reexecute, ![p][w] = @ - 1]

\* The error, the wish to be reexecuted and the count.
Account(f, p, z, w) ==
  [f EXCEPT ![p].childError = IF f[z].quiet THEN @ ELSE zio_worst_error(@, f[z].error),
            ![p].reexecute = @ \cup f[z].reexecute,
            ![p][w] = @ - 1]

\* Mutant: the parent is dispatched whatever it waits for.
WakeAny(f, p, w) == f[p][w] = 0 /\ f[p].stage \notin {"created", "gone"}

Wake(f, p, w) == f[p][w] = 0 /\ f[p].stall = w

zio_notify_parent(f, p, z, w) ==
  LET g == Account(f, p, z, w)
  IN IF Wake(g, p, w) THEN Dispatch([g EXCEPT ![p].stall = "none"], p) ELSE g

NotifyAll(f, z, w) == IF Parents(z) = {} THEN f ELSE zio_notify_parent(f, CHOOSE p \in Parents(z) : TRUE, z, w)

\* zio_wait_for_children: the stage is repeated when the count is zero.
MustWait(z, w) == io[z][w] # 0
zio_wait_for_children(f, z, w) == Stop([f EXCEPT ![z].stall = w], z)

Runs(z, s) == io[z].exec > 0 /\ io[z].stage = s /\ io[z].rx = "no"
First(z) == IF KindOf(z) = "write" THEN "compress" ELSE "ready"

-----------------------------------------------------------------------------
(* The allocation throttle.                                                *)

Reserved(h) == LET S[T \in SUBSET Zios] ==
                     IF T = {} THEN 0 ELSE LET z == CHOOSE z \in T : TRUE IN h[z] + S[T \ {z}]
               IN S[Zios]

\* The I/O that may allocate now: any that waits, when there are slots for it.
zio_io_to_allocate(q, h) == IF Copies <= MaxSlots - Reserved(h) THEN q ELSE {}

\* zio_allocate_dispatch, with f, q and h the state before it.
AllocateDispatch(f, q, h) ==
  LET can == zio_io_to_allocate(q, h)
  IN IF can = {}
     THEN io' = f /\ queue' = q /\ held' = h
     ELSE \E n \in can :
            /\ io' = Dispatch(Goto([f EXCEPT ![n].allocating = TRUE], n, "allocate"), n)
            /\ queue' = q \ {n}
            /\ held' = [h EXCEPT ![n] = @ + Copies]

-----------------------------------------------------------------------------
(* The pipeline.                                                           *)

WaitsReady(z) == MustWait(z, "ready")

\* The children are ready, so what they point to can be checksummed.
zio_write_compress(z) ==
  /\ Runs(z, "compress")
  /\ IF WaitsReady(z)
     THEN io' = zio_wait_for_children(io, z, "ready") /\ UNCHANGED written
     ELSE /\ io' = Goto(io, z, "throttle")
          /\ written' = [written EXCEPT ![z] = [c \in Zios |-> IF Up[c] = z THEN bp[c] ELSE 0]]
  /\ UNCHANGED <<links, held, queue, sroot, admin, bad, faults, bp, blocks>>

\* Into the tree, and whoever is first goes on if there are slots.
zio_dva_throttle(z) ==
  /\ Runs(z, "throttle")
  /\ LET can == zio_io_to_allocate(queue \cup {z}, held)
     IN IF can = {}
        THEN io' = Stop(io, z) /\ queue' = queue \cup {z} /\ UNCHANGED held
        ELSE \E n \in can :
               LET f == [Goto(io, n, "allocate") EXCEPT ![n].allocating = TRUE]
               IN /\ io' = IF n = z THEN f ELSE Dispatch(Stop(f, z), n)
                  /\ queue' = (queue \cup {z}) \ {n}
                  /\ held' = [held EXCEPT ![n] = @ + Copies]
  /\ UNCHANGED <<links, sroot, admin, bad, faults, bp, blocks, written>>

NewBp(z) == CHOOSE b \in 1 .. 3 : b \notin blocks[z] /\ \A y \in Zios : written[y][z] # b

zio_dva_allocate(z) ==
  /\ Runs(z, "allocate")
  /\ IF bad = "ENOSPC"
     THEN /\ io' = Goto([io EXCEPT ![z].error = "ENOSPC"], z, "ready")
          /\ UNCHANGED <<bp, blocks>>
     ELSE /\ io' = Goto(io, z, "ready")
          /\ bp' = [bp EXCEPT ![z] = NewBp(z)]
          /\ blocks' = [blocks EXCEPT ![z] = @ \cup {NewBp(z)}]
  /\ UNCHANGED <<links, held, queue, sroot, admin, bad, faults, written>>

\* Mutant: an I/O that could not allocate keeps its slots.
KeepSlots(f, z) == io' = f /\ UNCHANGED <<held, queue>>

\* An I/O that could not allocate gives its slots to the next one.
Unreserve(f, z) ==
  IF f[z].error # "none" /\ f[z].allocating
  THEN AllocateDispatch(f, queue, [held EXCEPT ![z] = @ - Copies])
  ELSE io' = f /\ UNCHANGED <<held, queue>>

zio_ready(z) ==
  /\ Runs(z, "ready")
  /\ LET s == IF io[z].error # "none" \/ KindOf(z) = "null" THEN "done" ELSE "start"
         f == Goto([io EXCEPT ![z].isReady = TRUE], z, s)
     IN Unreserve(NotifyAll(f, z, "ready"), z)
  /\ UNCHANGED <<links, sroot, admin, bad, faults, bp, blocks, written>>

\* vdev_mirror_io_start: writes go to all copies, a read to one of them.
zio_vdev_io_start(z) ==
  /\ Runs(z, "start")
  /\ LET n == IF KindOf(z) = "write" THEN Copies ELSE 1
     IN io' = Goto([io EXCEPT ![z].vdev = @ + n, ![z].tried = n, ![z].failed = "none"], z, "iodone")
  /\ UNCHANGED <<links, held, queue, sroot, admin, bad, faults, bp, blocks, written>>

\* The device I/Os of the first attempt return the slots; those of a retry do not.
Throttled(z) == io[z].allocating /\ ~ io[z].retry

\* A device answers: zio_dva_throttle_done, vdev_mirror_child_done, zio_notify_parent.
VdevChildDone(z) ==
  /\ io[z].vdev > 0
  /\ LET e == IF bad = "ENOSPC" THEN "none" ELSE bad
         g == [io EXCEPT ![z].failed = zio_worst_error(@, e), ![z].vdev = @ - 1]
         f == IF Wake(g, z, "vdev") THEN Dispatch([g EXCEPT ![z].stall = "none"], z) ELSE g
     IN IF Throttled(z)
        THEN AllocateDispatch(f, queue, [held EXCEPT ![z] = @ - 1])
        ELSE io' = f /\ UNCHANGED <<held, queue>>
  /\ UNCHANGED <<links, sroot, admin, bad, faults, bp, blocks, written>>

\* vdev_mirror_io_done: a read that failed tries the next copy.
zio_vdev_io_done(z) ==
  /\ Runs(z, "iodone")
  /\ io' = IF MustWait(z, "vdev")
           THEN zio_wait_for_children(io, z, "vdev")
           ELSE IF io[z].failed # "none" /\ KindOf(z) = "read" /\ io[z].tried < Copies
           THEN [io EXCEPT ![z].vdev = @ + 1, ![z].tried = @ + 1, ![z].failed = "none"]
           ELSE Goto([io EXCEPT ![z].error = io[z].failed], z, "assess")
  /\ UNCHANGED <<links, held, queue, sroot, admin, bad, faults, bp, blocks, written>>

\* A failed logical I/O is retried once.
zio_vdev_io_assess(z) ==
  /\ Runs(z, "assess")
  /\ io' = IF io[z].error # "none" /\ ~ io[z].retry
           THEN Goto([io EXCEPT ![z].error = "none", ![z].retry = TRUE], z, "start")
           ELSE Goto(io, z, "done")
  /\ UNCHANGED <<links, held, queue, sroot, admin, bad, faults, bp, blocks, written>>

-----------------------------------------------------------------------------
(* zio_done.                                                               *)

\* Whether and how a failed logical I/O is to be executed again.
Reexecute(z) ==
  LET e == io[z].error
      own == (IF KindOf(z) = "write" /\ ~ MayFail(z) THEN IF e = "ENOSPC" THEN {"suspend"} ELSE {"now"} ELSE {})
               \cup (IF KindOf(z) = "read" /\ e = "ENXIO" THEN {"suspend"} ELSE {})
      any == io[z].reexecute \cup own
  IN IF e = "none" \/ KindOf(z) = "null" THEN io[z].reexecute
     ELSE IF ~ MayFail(z) /\ any = {} THEN {"suspend"} ELSE any

FinalError(z) == IF io[z].error = "none" THEN io[z].childError ELSE io[z].error

\* Godfather I/Os never suspend.
Again(z) == IF z \in Godfathers /\ "suspend" \in Reexecute(z) THEN {} ELSE Reexecute(z)

\* Mutant: the block of a write that is executed again stays allocated.
LeakBlock(z, unwanted) == UNCHANGED blocks

\* zio_dva_unallocate
Unallocate(z, unwanted) ==
  IF unwanted /\ z \in Zios /\ KindOf(z) = "write"
  THEN blocks' = [blocks EXCEPT ![z] = @ \ {bp[z]}] ELSE UNCHANGED blocks

Hush(f, z) == [f EXCEPT ![z].quiet = TRUE]

\* Not over yet: tell the parent, or, at the root, suspend or reexecute.
StickAround(f, z) ==
  LET severed == {p \in Parents(z) \cap Godfathers : "suspend" \in f[z].reexecute}
  IN IF severed # {}
     THEN /\ io' = Goto(NotifyAll(f, z, "done"), z, "suspend")
          /\ links' = links \ (severed \X {z})
     ELSE /\ UNCHANGED links
          /\ io' = IF Parents(z) # {} THEN Stop(NotifyAll(Hush(f, z), z, "done"), z)
                   ELSE IF "suspend" \in f[z].reexecute THEN Goto(f, z, "suspend")
                   ELSE Stop([f EXCEPT ![z].rx = "task"], z)

\* zio_wait is called for the roots and for godfathers.
Waited(z) == z \in Godfathers \/ (Kind[z] = "null" /\ Up[z] = NoZio)

WaitsDone(z) == MustWait(z, "done")

zio_done(z) ==
  /\ Runs(z, "done")
  /\ IF MustWait(z, "vdev")
     THEN io' = zio_wait_for_children(io, z, "vdev") /\ UNCHANGED <<links, blocks>>
     ELSE IF WaitsDone(z)
     THEN io' = zio_wait_for_children(io, z, "done") /\ UNCHANGED <<links, blocks>>
     ELSE LET f == [io EXCEPT ![z].error = FinalError(z), ![z].reexecute = Again(z), ![z].isDone = TRUE]
          IN /\ Unallocate(z, FinalError(z) # "none" \/ Reexecute(z) # {})
             /\ IF Again(z) # {}
                THEN StickAround(f, z)
                ELSE /\ io' = Stop(Goto(NotifyAll(f, z, "done"), z, IF Waited(z) THEN "over" ELSE "gone"), z)
                     /\ links' = links \ (Parents(z) \X {z})
  /\ UNCHANGED <<held, queue, sroot, admin, bad, faults, bp, written>>

\* spa_suspend_zio_root is created when it is needed.
zio_suspend(z) ==
  /\ Runs(z, "suspend")
  /\ \E s \in Suspenders :
       /\ IF sroot = NoZio
          THEN admin[s] = "idle"
          ELSE s = sroot
       /\ sroot' = s
       /\ links' = links \cup {<<s, z>>}
       /\ io' = Stop(Goto(zio_add_child(io, s, z), z, "done"), z)
  /\ UNCHANGED <<held, queue, admin, bad, faults, bp, blocks, written>>

-----------------------------------------------------------------------------
(* Reexecution: an I/O and, one after the other, its children.             *)

Begin(f, z) ==
  [f EXCEPT ![z].stage = "created", ![z].reexecute = {}, ![z].error = "none", ![z].childError = "none",
            ![z].retry = FALSE, ![z].allocating = FALSE, ![z].quiet = FALSE,
            ![z].isReady = FALSE, ![z].isDone = FALSE, ![z].rx = "run", ![z].todo = Children(z)]

Zeroed(b, z) == IF z \in Zios THEN [b EXCEPT ![z] = 0] ELSE b

\* The task that zio_done of a root dispatched.
zio_reexecute(z) ==
  /\ io[z].rx = "task"
  /\ io' = Begin(io, z) /\ bp' = Zeroed(bp, z)
  /\ UNCHANGED <<links, held, queue, sroot, admin, bad, faults, blocks, written>>

ReexecuteChild(z) ==
  /\ io[z].rx = "run" /\ \A c \in Children(z) : io[c].rx # "run"
  /\ \E c \in io[z].todo :
       /\ io' = Begin([io EXCEPT ![z].todo = @ \ {c}, ![z].ready = @ + 1, ![z].done = @ + 1], c)
       /\ bp' = Zeroed(bp, c)
  /\ UNCHANGED <<links, held, queue, sroot, admin, bad, faults, blocks, written>>

\* All children were reexecuted; a godfather is left to whoever waits for it.
ReexecuteSelf(z) ==
  /\ io[z].rx = "run" /\ io[z].todo = {} /\ \A c \in Children(z) : io[c].rx # "run"
  /\ LET f == [io EXCEPT ![z].rx = "no"]
     IN io' = IF z \in Godfathers THEN f ELSE Dispatch(Goto(f, z, First(z)), z)
  /\ UNCHANGED <<links, held, queue, sroot, admin, bad, faults, bp, blocks, written>>

zio_resume(s) ==
  /\ sroot = s
  /\ sroot' = NoZio
  /\ admin' = [admin EXCEPT ![s] = "reexecute"]
  /\ io' = Begin(io, s)
  /\ UNCHANGED <<links, held, queue, bad, faults, bp, blocks, written>>

\* zio_wait on the I/O whose children were reexecuted, and its return.
ResumeWait(s) ==
  /\ admin[s] = "reexecute" /\ io[s].rx = "no"
  /\ admin' = [admin EXCEPT ![s] = "wait"]
  /\ io' = Dispatch(Goto(io, s, "ready"), s)
  /\ UNCHANGED <<links, held, queue, sroot, bad, faults, bp, blocks, written>>

ResumeReturn(s) ==
  /\ admin[s] = "wait" /\ io[s].stage = "over"
  /\ admin' = [admin EXCEPT ![s] = "idle"]
  /\ io' = [io EXCEPT ![s] = Fresh]
  /\ UNCHANGED <<links, held, queue, sroot, bad, faults, bp, blocks, written>>

-----------------------------------------------------------------------------
(* The callers.                                                            *)

Issued(z) == io[z].stage # "created" \/ io[z].rx # "no"

\* zio_nowait and zio_wait: the children first; a lone I/O gets a godfather.
zio_nowait(z) ==
  /\ io[z].stage = "created" /\ io[z].rx = "no"
  /\ \A c \in Zios : Up[c] = z => Issued(c)
  /\ LET f == Dispatch(Goto(io, z, First(z)), z)
     IN IF Up[z] = NoZio /\ ~ Waited(z)
        THEN io[Async].stage = "created" /\ io' = zio_add_child(f, Async, z) /\ links' = links \cup {<<Async, z>>}
        ELSE io' = f /\ UNCHANGED links
  /\ UNCHANGED <<held, queue, sroot, admin, bad, faults, bp, blocks, written>>

\* spa_unload waits for its godfather, once the pool has no users.
UnloadWait ==
  /\ io[Async].stage = "created" /\ \A z \in Zios : IF Waited(z) THEN io[z].stage = "gone" ELSE Issued(z)
  /\ io' = Dispatch(Goto(io, Async, "ready"), Async)
  /\ UNCHANGED <<links, held, queue, sroot, admin, bad, faults, bp, blocks, written>>

\* zio_wait returns and the I/O is destroyed.
WaitReturn(z) ==
  /\ z \notin Suspenders /\ io[z].stage = "over"
  /\ io' = Goto(io, z, "gone")
  /\ UNCHANGED <<links, held, queue, sroot, admin, bad, faults, bp, blocks, written>>

\* Faults set in and end.
FaultBegins ==
  /\ bad = "none" /\ faults < MaxFaults /\ bad' \in Errors /\ faults' = faults + 1
  /\ UNCHANGED <<io, links, held, queue, sroot, admin, bp, blocks, written>>

FaultEnds ==
  /\ bad # "none" /\ bad' = "none"
  /\ UNCHANGED <<io, links, held, queue, sroot, admin, faults, bp, blocks, written>>

-----------------------------------------------------------------------------
\* The trees have been built (zio_create, zio_add_child) and nothing was issued.
Init ==
  /\ tree \in Trees
  /\ links = {<<Up[z], z>> : z \in {y \in Zios : Up[y] # NoZio}}
  /\ io = [z \in All |-> [Fresh EXCEPT !.ready = Cardinality({c \in Zios : Up[c] = z}),
                                       !.done = Cardinality({c \in Zios : Up[c] = z})]]
  /\ held = [z \in Zios |-> 0] /\ queue = {} /\ sroot = NoZio
  /\ admin = [s \in Suspenders |-> "idle"] /\ bad = "none" /\ faults = 0
  /\ bp = [z \in Zios |-> 0] /\ blocks = [z \in Zios |-> {}]
  /\ written = [z \in Zios |-> [c \in Zios |-> 0]]

Execute(z) ==
  \/ zio_ready(z) \/ zio_done(z) \/ zio_suspend(z)
  \/ zio_reexecute(z) \/ ReexecuteChild(z) \/ ReexecuteSelf(z) \/ WaitReturn(z)

ExecuteData(z) ==
  \/ zio_write_compress(z) \/ zio_dva_throttle(z) \/ zio_dva_allocate(z) \/ zio_vdev_io_start(z)
  \/ VdevChildDone(z) \/ zio_vdev_io_done(z) \/ zio_vdev_io_assess(z)

System ==
  \/ \E z \in All : Execute(z)
  \/ \E z \in Zios : ExecuteData(z)
  \/ \E s \in Suspenders : ResumeWait(s) \/ ResumeReturn(s)

Next ==
  \/ System
  \/ (\E z \in Zios : zio_nowait(z)) \/ UnloadWait \/ (\E s \in Suspenders : zio_resume(s))
  \/ FaultBegins \/ FaultEnds

Spec == Init /\ [][Next /\ UNCHANGED tree]_<<vars, tree>>

-----------------------------------------------------------------------------
(* Safety.                                                                 *)

\* "There's no legitimate way for multiple threads to be attempting to process the same I/O":
\* an I/O that is queued or running is not dispatched again, and is not reexecuted meanwhile.
\* io_children counts the children that are not ready, or not done, through failures,
\* reexecution and suspension, and an I/O that is over has none (ASSERT(zio->io_child_count == 0)).
OneExecutor ==
  \A z \in All :
    /\ io[z].exec <= 1 /\ (io[z].rx # "no" \/ io[z].stall # "none" => io[z].exec = 0)
    /\ io[z].ready = Cardinality({c \in Children(z) : ~ io[c].isReady})
    /\ io[z].done = Cardinality({c \in Children(z) : ~ io[c].isDone})
    /\ io[z].stage \in {"over", "gone"} => Children(z) = {}

\* A write that succeeded has one block; one that failed, or waits to be executed again, has
\* none.  A block that was written refers to the blocks its children ended up in, and those are
\* allocated.  The throttle's slots are within their number, and an I/O that is done has none
\* (VERIFY(refcount_not_held(&mc->mc_alloc_slots, zio))).
BlocksExact ==
  /\ Reserved(held) <= MaxSlots /\ \A z \in Zios : io[z].isDone => held[z] = 0
  /\ \A z \in Zios : Kind[z] = "write" /\ io[z].isDone =>
       LET good == io[z].stage = "gone" /\ io[z].error = "none"
       IN  /\ blocks[z] = IF good THEN {bp[z]} ELSE {}
           /\ good => \A c \in Zios : Up[c] = z => written[z][c] = bp[c] /\ bp[c] \in blocks[c]

RECURSIVE Below(_)
Below(z) == LET C == {c \in Zios : Up[c] = z} IN C \cup UNION {Below(c) : c \in C}

\* zio_wait reports an error if and only if some I/O below the root failed for good.  Only an
\* I/O that may fail does (ASSERT(zio->io_error == 0 || CANFAIL)).  This is not claimed of a root
\* with both a read that fails and a write that is reexecuted: the reexecution forgets the error
\* of the read (zio_reexecute clears io_child_error), so Trees has no such root.
ErrorsReported ==
  /\ \A z \in All : io[z].stage \in {"over", "gone"} /\ io[z].error # "none" => MayFail(z)
  /\ \A z \in Zios : Waited(z) /\ io[z].stage \in {"over", "gone"} =>
       (io[z].error # "none" <=> \E c \in Below(z) : io[c].error # "none")

-----------------------------------------------------------------------------
(* Liveness.  Threads run, devices answer, callers go on, faults end, and  *)
(* an administrator clears a suspended pool.                               *)

FairSpec ==
  /\ Spec
  /\ \A z \in All : WF_vars(Execute(z))
  /\ \A z \in Zios : WF_vars(ExecuteData(z)) /\ WF_vars(VdevChildDone(z)) /\ WF_vars(zio_nowait(z))
  /\ \A s \in Suspenders : WF_vars(ResumeWait(s)) /\ WF_vars(ResumeReturn(s)) /\ WF_vars(zio_resume(s))
  /\ WF_vars(UnloadWait) /\ WF_vars(FaultEnds)

\* Every I/O completes, and so does the unloading that waits for them: none waits for a child
\* that is done, for slots nobody will return, or in a suspended pool that was cleared.
EveryIoCompletes == <>[](\A z \in Zios \cup {Async} : io[z].stage = "gone")
=============================================================================
