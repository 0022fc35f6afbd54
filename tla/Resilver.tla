------------------------------ MODULE Resilver ------------------------------
(***************************************************************************)
(* Dirty time logs and resilvering of a mirror: vdev.c, the scan of        *)
(* dsl_scan.c, and the attach, detach, offline and online operations.      *)
(*                                                                         *)
(* A block is a pair of the txg of its birth and how it was written: by    *)
(* the sync thread or, before its txg synced, by dmu_sync.  A disk has or  *)
(* lacks a valid copy of it.  DTL_MISSING of a disk is a set of txgs.  The *)
(* mirror's DTL_PARTIAL is the union of these sets, and its DTL_OUTAGE     *)
(* their intersection, a disk that cannot be read missing every txg.       *)
(***************************************************************************)
EXTENDS Integers, FiniteSets, FiniteSetsExt

CONSTANTS
  Disks,        \* all disks
  Plans,        \* what may happen: the disks of the mirror at first, the kinds of events
                \* beside the syncing of txgs, the bound on their number, the bound on txgs
  TXG_INITIAL,
  DataTxgs      \* txgs in which the sync thread writes a block

TXG_CONCURRENT_STATES == 3
VARIABLES
  plan,      \* one of Plans
  txg,       \* the txg that is synced next or now
  open,      \* the open txg
  phase,     \* of spa_sync
  member,    \* the children of the mirror
  up,        \* disks that are open
  has,       \* blocks of which each disk has a valid copy
  live,      \* blocks that are part of the pool
  early,     \* blocks that dmu_sync wrote and whose txg has not synced
  missing,   \* DTL_MISSING
  scrub,     \* DTL_SCRUB
  rtxg,      \* vdev_resilver_txg
  dirty,     \* vdev_dtl_list: disks whose DTL is written in a txg
  config,    \* the configuration is written in this txg
  scan,      \* dsl_scan_t
  async,     \* SPA_ASYNC_RESILVER was requested
  scrubAt,   \* txg of a sync task that sets up a scrub, or 0
  waits,     \* txg for which a configuration change waits, or 0
  disk,      \* what the last committed txg left on disk, and (history) partly and scrub then
  partly,    \* history: the disks which the present scan does not serve in full, and why
  skipped,   \* history: the disks that were in partly when a scan completed
  events

vars == <<txg, open, phase, member, up, has, live, early, missing, scrub, rtxg, dirty, config, scan, async, scrubAt,
          waits, disk, partly, skipped, events>>
dtls == <<missing, scrub, rtxg>>
data == <<has, live, early>>
hist == <<partly, skipped>>

NoScan == [state |-> "none", func |-> "scrub", min |-> 0, max |-> 0, errors |-> FALSE, todo |-> {},
           done |-> 0, restart |-> 0]

LastTxg == plan.maxTxg

MayHappen(k) == k \in plan.events /\ events < plan.maxEvents
Happens(k) == MayHappen(k) /\ events' = events + 1

-----------------------------------------------------------------------------
(* Dirty time logs.                                                        *)

vdev_dtl_max(d) == Max(missing[d]) + 1

Partial == UNION {missing[d] : d \in member}

\* Mutant: what the other disks miss is not looked at.
RequiredIfAlone(d) == member \cap up \subseteq {d}

\* With d unreadable, there are txgs that no disk has.
vdev_dtl_required(d) ==
  LET others == (member \cap up) \ {d}
  IN others = {} \/ \E t \in Partial : \A c \in others : t \in missing[c]

\* The range of txgs that writeable disks miss, if any.
vdev_resilver_needed ==
  LET T == UNION {missing[d] : d \in member \cap up} IN IF T = {} THEN {} ELSE {<<Min(T) - 1, Max(T) + 1>>}

vdev_dtl_should_excise(d) == rtxg[d] = 0 \/ missing[d] = {} \/ vdev_dtl_max(d) <= scan.max

\* The new DTL_MISSING of a disk after a scan without errors.
Excised(d) == (missing[d] \ (0 .. scan.max - 1)) \cup scrub[d]

\* vdev_dtl_reassess resets the txg of an attached disk that misses nothing any more.
Resilvered(m) == [d \in Disks |-> IF d \in member \cap up /\ m[d] = {} THEN 0 ELSE rtxg[d]]

\* dsl_scan_done and vdev_dtl_reassess, as a new scan state, DTLs and dirty list.
dsl_scan_done(complete) ==
  LET m == [d \in Disks |-> IF complete /\ d \in member /\ ~ scan.errors /\ vdev_dtl_should_excise(d)
                            THEN Excised(d) ELSE missing[d]]
  IN /\ missing' = m /\ scrub' = [d \in Disks |-> {}] /\ rtxg' = Resilvered(m)
     /\ dirty' = dirty \cup (member \X {txg})

\* Why a scan may not serve a disk in full: it was down, a crash has made the pool forget a repair
\* that failed (DTL_SCRUB is in memory only), or a scrub took the place of the resilver that an attach
\* had put off, and its range reaches into txgs that are still to be written.
Down == (member \ up) \X {"down"}
Forgotten == {d \in Disks : disk.scrub[d] # {}} \X {"forgotten"}
Overtaken == {d \in member : scan.restart > txg /\ \E e \in member : rtxg[e] # 0} \X {"overtaken"}

\* dsl_scan_setup_sync, with live the blocks that are reachable.
Setup(func, blocks) ==
  LET n == vdev_resilver_needed
      min == IF n = {} THEN 0 ELSE (CHOOSE r \in n : TRUE)[1]
      max == IF n = {} THEN txg ELSE (CHOOSE r \in n : TRUE)[2]
  IN [NoScan EXCEPT !.state = "scan", !.func = func, !.min = min, !.max = max,
                    !.todo = {b \in blocks : min < b[1] /\ b[1] < max}]

-----------------------------------------------------------------------------
(* spa_sync.                                                               *)

\* A write goes to all disks; at least one copy must be good.
Writes ==
  {G \in SUBSET (member \cap up) : G # {} /\ (G # member \cap up => MayHappen("writeError"))}

\* vdev_stat_update: the disks to which it failed.
Missed(G) == member \ G

DirtyFor(t, G) == {<<d, t>> : d \in {e \in Missed(G) : t \notin missing[e]}}

\* A block, at the two places where it is written.
WriteBlock(b, G) ==
  /\ has' = [d \in Disks |-> IF d \in G THEN has[d] \cup {b} ELSE has[d]]
  /\ missing' = [d \in Disks |-> IF d \in Missed(G) THEN missing[d] \cup {b[1]} ELSE missing[d]]
  /\ dirty' = dirty \cup DirtyFor(b[1], G)

\* dsl_pool_sync: data is written, dmu_sync's blocks become part of the pool, sync tasks run.
\* A running scan comes across a new block or has passed its place.
SyncWrite ==
  /\ phase = "write" /\ txg <= LastTxg /\ txg < open
  /\ phase' = "scan"
  /\ LET b == <<txg, "sync">>
         e == {c \in early : c[1] = txg}
         new == e \cup (IF txg \in DataTxgs THEN {b} ELSE {})
     IN /\ early' = early \ e /\ live' = live \cup new
        /\ IF txg \in DataTxgs THEN \E G \in Writes :
                                      WriteBlock(b, G) /\ events' = IF G = member \cap up THEN events ELSE events + 1
                               ELSE UNCHANGED <<has, missing, dirty, events>>
        /\ IF scrubAt = txg /\ scan.state # "scan"
           THEN scan' = Setup("scrub", live \cup new) /\ config' = TRUE /\ partly' = Down \cup Overtaken
           ELSE /\ UNCHANGED <<config, partly>>
                /\ \E seen \in SUBSET {c \in new : scan.min < c[1] /\ c[1] < scan.max} :
                     scan' = IF scan.state = "scan" THEN [scan EXCEPT !.todo = @ \cup seen] ELSE scan
        /\ scrubAt' = IF scrubAt = txg THEN 0 ELSE scrubAt
  /\ UNCHANGED <<txg, open, member, up, scrub, rtxg, async, waits, disk, skipped>>

\* dsl_scan_sync up to the traversal.  A restarted scan is set up in the same txg.
ScanRestart ==
  /\ phase = "scan" /\ scan.restart # 0 /\ scan.restart <= txg
  /\ IF scan.state = "scan" THEN dsl_scan_done(FALSE) ELSE UNCHANGED <<dtls, dirty>>
  /\ scan' = Setup(IF vdev_resilver_needed # {} THEN "resilver" ELSE "scrub", live)
  /\ phase' = "visit" /\ config' = TRUE /\ partly' = Down
  /\ UNCHANGED <<txg, open, member, up, data, async, scrubAt, waits, disk, skipped, events>>

ScanComplete ==
  /\ phase = "scan" /\ ~ (scan.restart # 0 /\ scan.restart <= txg)
  /\ scan.state = "scan" /\ scan.done = txg
  /\ dsl_scan_done(TRUE)
  /\ scan' = [scan EXCEPT !.state = "finished"]
  /\ phase' = "commit" /\ skipped' = skipped \cup {x[1] : x \in partly}
  /\ UNCHANGED <<txg, open, member, up, data, config, async, scrubAt, waits, disk, partly, events>>

ScanContinue ==
  /\ phase = "scan" /\ ~ (scan.restart # 0 /\ scan.restart <= txg)
  /\ ~ (scan.state = "scan" /\ scan.done = txg)
  /\ phase' = IF scan.state = "scan" THEN "visit" ELSE "commit"
  /\ UNCHANGED <<txg, open, member, up, data, dtls, dirty, config, scan, async, scrubAt, waits, disk, hist, events>>

\* The disks to which a good copy is written: a resilver goes by the DTLs, a scrub by what it read.
Targets(b) == IF scan.func = "resilver" THEN {d \in member : b[1] \in missing[d]} ELSE {d \in member : d \notin up \/ b \notin has[d]}

FailedRepairs(F, b) == scrub' = [d \in Disks |-> IF d \in F THEN scrub[d] \cup {b[1]} ELSE scrub[d]]

\* dsl_scan_scrub_cb, the read, and the repairs of vdev_mirror_io_done.
Visit(b) ==
  /\ phase = "visit" /\ b \in scan.todo
  /\ LET io == scan.func = "scrub" \/ b[1] \in Partial
         good == {d \in member \cap up : b \in has[d]}
         t == IF io /\ good # {} THEN Targets(b) ELSE {}
     IN /\ scan' = [scan EXCEPT !.todo = @ \ {b}, !.errors = @ \/ (io /\ good = {})]
        /\ \E F \in SUBSET t :
             /\ t \ up \subseteq F
             /\ IF t \ up = F THEN UNCHANGED events ELSE Happens("repairError")
             /\ FailedRepairs(F, b)
             /\ has' = [d \in Disks |-> IF d \in t \ F THEN has[d] \cup {b} ELSE has[d]]
             /\ missing' = [d \in Disks |-> IF d \in F THEN missing[d] \cup {b[1]} ELSE missing[d]]
             /\ dirty' = dirty \cup {<<d, txg>> : d \in {e \in F : b[1] \notin missing[e]}}
  /\ UNCHANGED <<txg, open, phase, member, up, live, early, rtxg, config, async, scrubAt, waits, disk, hist>>

\* The traversal pauses or is at its end.
VisitEnd ==
  /\ phase = "visit"
  /\ phase' = "commit"
  /\ scan' = IF scan.todo = {} THEN [scan EXCEPT !.done = txg + 1] ELSE scan
  /\ UNCHANGED <<txg, open, member, up, data, dtls, dirty, config, async, scrubAt, waits, disk, hist, events>>

\* vdev_dtl_sync, and the commit of the txg.
Commit ==
  /\ phase = "commit"
  /\ disk' = [txg |-> txg, live |-> live, scan |-> scan, partly |-> partly, scrub |-> scrub,
              missing |-> [d \in Disks |-> IF <<d, txg>> \in dirty THEN missing[d] ELSE disk.missing[d]],
              member |-> IF config THEN member ELSE disk.member, rtxg |-> IF config THEN rtxg ELSE disk.rtxg]
  /\ dirty' = {x \in dirty : x[2] # txg} /\ config' = FALSE
  /\ waits' = IF waits <= txg THEN 0 ELSE waits
  /\ txg' = txg + 1 /\ phase' = "write"
  /\ UNCHANGED <<open, member, up, data, dtls, scan, async, scrubAt, hist, events>>

-----------------------------------------------------------------------------
(* What else happens.                                                      *)

\* Between the open txg and the one that is synced there is at most one.
OpenNext ==
  /\ open < txg + TXG_CONCURRENT_STATES - 1 /\ open <= LastTxg
  /\ open' = open + 1
  /\ UNCHANGED <<txg, phase, member, up, data, dtls, dirty, config, scan, async, scrubAt, waits, disk, hist, events>>

dmu_sync ==
  /\ <<open, "dmu">> \notin early
  /\ early' = early \cup {<<open, "dmu">>}
  /\ Happens("dmuSync")
  /\ WriteBlock(<<open, "dmu">>, member \cap up)
  /\ UNCHANGED <<txg, open, phase, member, up, live, scrub, rtxg, config, scan, async, scrubAt, waits, disk, hist>>

\* A disk fails; another one works.
Outage(d) ==
  /\ d \in member \cap up /\ member \cap up # {d}
  /\ Happens("outage")
  /\ up' = up \ {d} /\ partly' = partly \cup {<<d, "down">>}
  /\ UNCHANGED <<txg, open, phase, member, data, dtls, dirty, config, scan, async, scrubAt, waits, disk, skipped>>

vdev_offline(d) ==
  /\ d \in member \cap up /\ waits = 0 /\ ~ vdev_dtl_required(d)
  /\ Happens("offline")
  /\ up' = up \ {d} /\ partly' = partly \cup {<<d, "down">>}
  /\ UNCHANGED <<txg, open, phase, member, data, dtls, dirty, config, scan, async, scrubAt, waits, disk, skipped>>

\* vdev_open asks for a resilver when the disk misses something.
AsksResilver(d) == async \/ missing[d] # {}

\* vdev_online, vdev_clear or a probe: the disk is opened again.
vdev_reopen(d) ==
  /\ d \in member \ up
  /\ up' = up \cup {d}
  /\ async' = AsksResilver(d)
  /\ rtxg' = IF missing[d] = {} THEN [rtxg EXCEPT ![d] = 0] ELSE rtxg
  /\ UNCHANGED <<txg, open, phase, member, data, missing, scrub, dirty, config, scan, scrubAt, waits, disk, hist, events>>

\* spa_async_thread: a restart in the open txg.
dsl_resilver_restart ==
  /\ async /\ async' = FALSE
  /\ scan' = [scan EXCEPT !.restart = open]
  /\ UNCHANGED <<txg, open, phase, member, up, data, dtls, dirty, config, scrubAt, waits, disk, hist, events>>

\* Blocks in the three txgs that are under way may have been written without the new disk.
dtl_max_txg == txg + TXG_CONCURRENT_STATES

\* Mutant: the resilver starts at once.
RestartNow == txg

RestartAt == dtl_max_txg

spa_vdev_attach(d) ==
  /\ phase = "write" /\ waits = 0 /\ d \notin member /\ rtxg[d] = 0 /\ has[d] = {}
  /\ Happens("attach")
  /\ member' = member \cup {d} /\ up' = up \cup {d}
  /\ rtxg' = [rtxg EXCEPT ![d] = txg]
  /\ missing' = [missing EXCEPT ![d] = TXG_INITIAL .. dtl_max_txg - 1]
  /\ dirty' = dirty \cup {<<d, txg>>} /\ config' = TRUE
  /\ scan' = [scan EXCEPT !.restart = RestartAt]
  /\ waits' = dtl_max_txg
  /\ UNCHANGED <<txg, open, phase, data, scrub, async, scrubAt, disk, hist>>

spa_vdev_detach(d) ==
  /\ phase = "write" /\ waits = 0 /\ d \in member /\ Cardinality(member) > 1 /\ ~ vdev_dtl_required(d)
  /\ Happens("detach")
  /\ member' = member \ {d} /\ config' = TRUE /\ waits' = txg
  /\ UNCHANGED <<txg, open, phase, up, data, dtls, dirty, scan, async, scrubAt, disk, hist>>

\* zpool scrub: a sync task in the open txg; it waits for a change of the configuration.
spa_scan ==
  /\ scrubAt = 0 /\ waits = 0 /\ scan.state # "scan"
  /\ Happens("scrub")
  /\ scrubAt' = open
  /\ UNCHANGED <<txg, open, phase, member, up, data, dtls, dirty, config, scan, async, waits, disk, hist>>

\* zpool scrub -s, which is refused while a resilver runs.
spa_scan_stop ==
  /\ phase = "scan" /\ scan.state = "scan" /\ scan.func = "scrub"
  /\ Happens("cancel")
  /\ dsl_scan_done(FALSE)
  /\ scan' = [scan EXCEPT !.state = "none"]
  /\ UNCHANGED <<txg, open, phase, member, up, data, config, async, scrubAt, waits, disk, hist>>

\* The configuration of the last committed txg.
LoadedMember == disk.member

\* A disk that misses nothing is not one that is being resilvered.
LoadedRtxg ==
  [d \in Disks |-> IF d \in disk.member \cap up /\ disk.missing[d] = {} THEN 0 ELSE disk.rtxg[d]]

\* DTL_MISSING comes from disk, DTL_SCRUB is empty.
vdev_dtl_load == missing' = disk.missing /\ scrub' = [d \in Disks |-> {}]

\* A scan goes on where the last committed txg left it.
dsl_scan_init == scan' = [disk.scan EXCEPT !.done = 0, !.restart = 0]

\* spa_load_impl asks for a resilver unless one goes on.
LoadAsksResilver ==
  /\ ~ (disk.scan.state = "scan" /\ disk.scan.func = "resilver")
  /\ \E d \in disk.member \cap up : disk.missing[d] # {}

\* The pool is loaded again from what was committed.
Crash ==
  /\ Happens("crash")
  /\ txg' = disk.txg + 1 /\ open' = disk.txg + 1 /\ phase' = "write" /\ live' = disk.live /\ early' = {}
  /\ has' = [d \in Disks |-> has[d] \cap disk.live]
  /\ member' = LoadedMember /\ rtxg' = LoadedRtxg
  /\ vdev_dtl_load /\ dsl_scan_init /\ async' = LoadAsksResilver
  /\ dirty' = {} /\ config' = FALSE /\ scrubAt' = 0 /\ waits' = 0
  /\ partly' = disk.partly \cup ((disk.member \ up) \X {"down"}) \cup Forgotten
  /\ disk' = [disk EXCEPT !.partly = partly']
  /\ UNCHANGED <<up, skipped>>

-----------------------------------------------------------------------------
Init ==
  /\ plan \in Plans
  /\ txg = TXG_INITIAL + 1 /\ open = txg /\ phase = "write"
  /\ member = plan.first /\ up = member
  /\ live = {<<TXG_INITIAL, "sync">>} /\ early = {}
  /\ has = [d \in Disks |-> IF d \in member THEN live ELSE {}]
  /\ missing = [d \in Disks |-> {}] /\ scrub = missing /\ rtxg = [d \in Disks |-> 0]
  /\ dirty = {} /\ config = FALSE /\ scan = NoScan /\ async = FALSE /\ scrubAt = 0 /\ waits = 0 /\ events = 0 /\ partly = {} /\ skipped = {}
  /\ disk = [txg |-> TXG_INITIAL, live |-> live, scan |-> NoScan, partly |-> {}, scrub |-> scrub, missing |-> missing, member |-> member, rtxg |-> rtxg]

Next ==
  \/ SyncWrite \/ ScanRestart \/ ScanComplete \/ ScanContinue \/ (\E b \in scan.todo : Visit(b)) \/ VisitEnd \/ Commit
  \/ OpenNext \/ dmu_sync \/ dsl_resilver_restart \/ spa_scan \/ spa_scan_stop \/ Crash
  \/ \E d \in Disks : Outage(d) \/ vdev_offline(d) \/ vdev_reopen(d) \/ spa_vdev_attach(d) \/ spa_vdev_detach(d)

Spec == Init /\ [][Next /\ UNCHANGED plan]_<<vars, plan>>

-----------------------------------------------------------------------------

\* "DTL_MISSING: txgs for which the vdev has no valid copies of the data": a disk of the mirror has a
\* valid copy of every block except those of txgs in its DTL_MISSING.  This is not claimed of a disk
\* that a completed scan did not serve in full (Down, Forgotten, Overtaken): the code empties its log
\* all the same (vdev.c:1781, vdev.c:1833, dsl_scan.c:204).
HonestIfPresent == \A d \in member \ skipped : \A b \in live \ has[d] : b[1] \in missing[d]


Readable(m, u, h) == {b \in live : \E d \in m \cap u : b \in h[d]}

\* vdev_dtl_required: "whether the specified vdev can be offlined/detached/removed without losing
\* data".  Neither takes away the last readable copy of a block.
AdminKeepsData ==
  [][(\E d \in Disks : vdev_offline(d) \/ spa_vdev_detach(d)) => Readable(member, up, has) \subseteq Readable(member', up', has')]_vars
=============================================================================
