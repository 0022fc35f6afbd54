-------------------------- MODULE DurabilityProofs ---------------------------
(***************************************************************************)
(* Theorems about what has to be on disk after a power failure.  Metaslab, *)
(* for any set of blocks, any number of txgs, passes and power failures:   *)
(* an inductive invariant, that every action keeps it, and from it that no *)
(* block that a restart needs is allocated again and that the space map is *)
(* exact.  ZilCommit, for any threads, suspenders and numbers of calls:    *)
(* what zil_commit promises when it returns, and what suspension keeps     *)
(* away from the log.                                                      *)
(***************************************************************************)
EXTENDS Metaslab, FiniteSetTheorems, TLAPS

\* Time for the provers, in seconds; the second pair is for a slow machine.
USE ZenonT(3), SMTT(30), ZenonT(40), SMTT(120)

-----------------------------------------------------------------------------
(* The inductive invariant.  It is stated block by block.                  *)

Used(b) == birth[b] # 0

\* Freed in the syncing txg, and not yet among the deferred blocks.
Going(b) == b \in ms_freeingtree \/ b \in ms_freedtree

Defer(b) == b \in ms_defertree[0] \/ b \in ms_defertree[1]

\* The uberblock of the syncing txg is on disk.
Committed == pc \in {"done", "end"}

\* Blocks of the syncing txg can be allocated and freed.
Changing == pc \in {"idle", "pass"}

Types ==
  /\ TypeOK
  /\ pc \in {"idle", "pass", "sync", "condense", "condenseFree", "written", "next", "done", "end"}
  /\ pass \in Nat /\ ms_selected_txg \in Nat /\ txg > 1
  /\ ms_loaded \in BOOLEAN /\ ms_loading \in BOOLEAN /\ ms_condensing \in BOOLEAN
  /\ log \subseteq Blocks /\ claims \subseteq Blocks
  /\ ub[1] \subseteq Blocks /\ Kept(2) \subseteq Blocks /\ Kept(3) \subseteq Blocks /\ kept \in 1 .. 3

\* What goes with the place where spa_sync is.  While there is something to claim,
\* nothing else happens.
Phases ==
  /\ pc = "idle" => pass = 0
  /\ pc \notin {"idle", "end"} => pass > 0
  /\ pc # "idle" => txg < open
  /\ pc \notin {"pass", "sync", "condense", "condenseFree", "written"} => ms_freeingtree = {}
  /\ pc \notin {"idle", "pass", "sync", "condense", "condenseFree", "written"} => ms_alloctree[Slot(txg)] = {}
  /\ pc \in {"idle", "end"} => ms_freedtree = {}
  /\ pc \notin {"next", "done"} /\ pass <= 1 => ms_freedtree = {}
  /\ ms_condensing <=> pc \in {"condense", "condenseFree"}
  /\ ms_condensing => ms_loaded /\ pass = 1
  /\ ms_loading => ~ms_loaded /\ ms_tree = Blocks
  /\ claims # {} => pc = "idle" /\ open = txg /\ \A b \in Blocks : ~Defer(b)
  /\ \A b \in claims : ~Used(b)

\* The trees of the open txgs hold the blocks born in them, and the metaslab stays
\* loaded as long as it has some.
Births ==
  /\ \A b \in Blocks : birth[b] <= open
  /\ \A t \in txg + 1 .. txg + 3 : \A b \in Blocks : b \in ms_alloctree[Slot(t)] <=> birth[b] = t
  /\ \A t \in txg .. txg + 2 : ms_alloctree[Slot(t)] # {} =>
       /\ pc \in {"idle", "pass"} \/ t > txg => ms_loaded
       /\ t > txg => ms_selected_txg + 2 >= t

\* The lists on which the metaslab is: it is written when there is something to
\* write, and finished when it was written or has deferred blocks.
Dirty ==
  /\ \A t \in txg .. txg + 2 : ms_alloctree[Slot(t)] # {} /\ (Changing \/ t > txg) => Slot(t) \in ms_dirty
  /\ pc = "pass" /\ ms_freeingtree # {} => Slot(txg) \in ms_dirty
  /\ pc \in {"sync", "condense", "condenseFree", "written", "done"} => Slot(txg + 3) \in ms_dirty
  /\ pc \in {"pass", "next"} /\ Slot(txg + 3) \notin ms_dirty => sm_phys = sm_alloc /\ ms_freedtree = {}
  /\ (\E b \in Blocks : Defer(b)) =>
       /\ pc = "idle" => Slot(txg) \in ms_dirty
       /\ pc = "pass" => Slot(txg) \in ms_dirty \/ Slot(txg + 3) \in ms_dirty
       /\ pc = "next" => Slot(txg + 3) \in ms_dirty
       /\ pc = "end" => Slot(txg + 1) \in ms_dirty

\* What the space map has at each step of writing it.
Map ==
  /\ ~Committed => sm_alloc = ub[1]
  /\ Committed => sm_phys = ub[1]
  /\ pc \in {"idle", "end"} => sm_alloc = sm_phys
  /\ \A b \in Blocks :
       LET referenced == birth[b] \in 1 .. txg
       IN  /\ pc \in {"idle", "pass", "sync"} =>
                /\ referenced <=> (b \in sm_phys \/ b \in ms_alloctree[Slot(txg)]) /\ b \notin ms_freeingtree
                /\ ~(b \in sm_phys /\ b \in ms_alloctree[Slot(txg)])
           /\ pc = "condense" => (referenced <=> b \in condense_tree /\ b \notin ms_tree)
           /\ pc = "condenseFree" => (referenced <=> b \in sm_phys /\ b \notin ms_tree)
           /\ pc \in {"written", "next", "done", "end"} => (referenced <=> b \in sm_phys)

\* A block is in use, on its way back, or deferred by one of two txgs.
Apart ==
  \A b \in Blocks :
    /\ Used(b) => ~Going(b)
    /\ Used(b) \/ Going(b) => ~Defer(b)
    /\ ~(b \in ms_defertree[0] /\ b \in ms_defertree[1])

\* What is free; and what loading the space map will find.
Free ==
  \A b \in Blocks :
    /\ ms_loaded => (b \in ms_tree <=> ~Used(b) /\ ~Going(b) /\ ~Defer(b))
    /\ ~ms_loaded => (b \in sm_alloc <=> Used(b) \/ Going(b))

\* What the last uberblocks refer to is in use, or not yet back.
Old ==
  \A b \in Blocks :
    /\ b \in ub[1] => Used(b) \/ (~Committed /\ Going(b))
    /\ b \in ub[1] => (birth[b] <= txg /\ (~Committed => birth[b] < txg))
    /\ ~LowSpace =>
         /\ b \in Kept(2) =>
              \/ Used(b) \/ Going(b)
              \/ ~Committed /\ b \in ms_defertree[(txg + 1) % 2]
              \/ pc = "end" /\ b \in ms_defertree[txg % 2]
         /\ b \in Kept(3) =>
              \/ Used(b) \/ Going(b)
              \/ pc # "done" /\ Defer(b)
              \/ b \in ms_defertree[(txg + 1) % 2]
         /\ b \in Kept(2) \/ b \in Kept(3) => (birth[b] <= txg /\ (~Committed => birth[b] < txg))

\* What a restart finds in the log is in use, on its way back, or to be claimed.
Logged ==
  \A b \in log : Used(b) \/ (~Committed /\ Going(b)) \/ b \in claims

MsInv == Types /\ Phases /\ Births /\ Dirty /\ Map /\ Apart /\ Free /\ Old /\ Logged

USE DEF Kept

-----------------------------------------------------------------------------
(* Slots.                                                                  *)

\* Four consecutive txgs have slots of their own, and the slots come round.
LEMMA SlotFacts ==
  /\ \A t \in Nat : Slot(t) \in Slots /\ Slot(t + 4) = Slot(t)
  /\ \A t \in Nat : t > 0 => Slot(TXG_CLEAN(t)) = Slot(t + 3)
  /\ \A t, u \in Nat : t < u /\ u < t + 4 => Slot(t) # Slot(u)
  /\ \A s \in Slots, t \in Nat : s = Slot(t) \/ s = Slot(t + 1) \/ s = Slot(t + 2) \/ s = Slot(t + 3)
BY SMTT(60) DEF Slot, Slots, TXG_SIZE, TXG_CLEAN

\* The same of the two trees of deferred blocks.
LEMMA DeferFacts ==
  /\ Defers = {0, 1}
  /\ \A t \in Nat : t % 2 \in {0, 1} /\ (t + 1) % 2 \in {0, 1} /\ t % 2 # (t + 1) % 2 /\ (t + 2) % 2 = t % 2
BY SMTT(60) DEF Defers, TXG_DEFER_SIZE

\* Deferred, block by block.
LEMMA DeferredBlocks == \A b : b \in Deferred <=> Defer(b)
BY DeferFacts DEF Deferred, Defer

-----------------------------------------------------------------------------

\* The initial states satisfy the invariant.
LEMMA InitInv == Init => MsInv
<1> SUFFICES ASSUME Init PROVE MsInv
  OBVIOUS
<1>1. Types
  <2>1. ms_alloctree \in [Slots -> SUBSET Blocks] /\ ms_defertree \in [Defers -> SUBSET Blocks]
    BY DEF Init
  <2>2. birth \in [Blocks -> Nat] /\ open \in txg .. txg + 2 /\ txg \in Nat
    BY DEF Init
  <2>3. ub[1] = {} /\ Kept(2) = {} /\ Kept(3) = {} /\ kept \in 1 .. 3
    BY DEF Init
  <2>4. /\ ms_tree = {} /\ ms_freeingtree = {} /\ ms_freedtree = {} /\ condense_tree = {}
        /\ sm_phys = {} /\ sm_alloc = {} /\ ms_dirty = {} /\ log = {} /\ claims = {}
        /\ ~ms_loaded /\ ~ms_loading /\ ~ms_condensing /\ ms_selected_txg = 0
        /\ pc = "idle" /\ pass = 0 /\ txg > 1
    BY DEF Init
  <2>5. ms_loaded \in BOOLEAN /\ ms_loading \in BOOLEAN /\ ms_condensing \in BOOLEAN
    BY ZenonT(40) DEF Init
  <2>6. TypeOK
    BY <2>1, <2>2, <2>4 DEF TypeOK
  <2> QED
    BY <2>3, <2>4, <2>5, <2>6 DEF Types
<1>2. Phases
  BY SlotFacts, DeferFacts DEF Init, Phases, Defer, Used
<1>3. Births
  BY SlotFacts DEF Init, Births
<1>4. Dirty
  BY SlotFacts, DeferFacts DEF Init, Dirty, Defer, Changing
<1>5. Map
  BY SlotFacts DEF Init, Map, Committed
<1>6. Apart /\ Free /\ Old /\ Logged
  BY DeferFacts DEF Init, Apart, Free, Old, Logged, Used, Going, Defer, Committed
<1> QED
  BY <1>1, <1>2, <1>3, <1>4, <1>5, <1>6 DEF MsInv

\* The start of metaslab_load keeps the invariant.
LEMMA LoadBeginInv == MsInv /\ LoadBegin => MsInv'
<1> SUFFICES ASSUME MsInv, LoadBegin PROVE MsInv'
  OBVIOUS
<1> USE DEF MsInv, LoadBegin, smVars, syncVars, useVars
<1>1. Types'
  BY DEF Types, TypeOK
<1>2. Phases' /\ Births' /\ Dirty' /\ Map'
  BY DEF Phases, Defer, Used, Births, Dirty, Changing, Map, Committed
<1>3. Apart' /\ Free' /\ Old' /\ Logged'
  BY DEF Apart, Free, Old, Logged, Used, Going, Defer, Committed
<1> QED
  BY <1>1, <1>2, <1>3

\* The end of metaslab_load, which takes out what is in use or deferred, keeps it.
LEMMA LoadEndInv == MsInv /\ LoadEnd => MsInv'
<1> SUFFICES ASSUME MsInv, LoadEnd PROVE MsInv'
  OBVIOUS
<1> USE DEF MsInv, LoadEnd, trees, loadVars, smVars, syncVars, useVars, Loaded
<1>1. Types'
  BY ZenonT(40) DEF Types, TypeOK
<1>2. Phases' /\ Births' /\ Dirty' /\ Map'
  BY DEF Phases, Defer, Used, Births, Dirty, Changing, Map, Committed
<1>3. Apart' /\ Old' /\ Logged'
  BY DEF Apart, Used, Going, Defer, Old, Committed, Logged
<1>4. Free'
  BY DeferredBlocks DEF Free, Apart, Types, TypeOK, Phases, Used, Going, Defer
<1> QED
  BY <1>1, <1>2, <1>3, <1>4

\* metaslab_preload keeps it.
LEMMA PreloadInv == MsInv /\ Preload => MsInv'
<1> SUFFICES ASSUME MsInv, Preload PROVE MsInv'
  OBVIOUS
<1> USE DEF MsInv, Preload, trees, loadVars, smVars, syncVars, useVars
<1>1. Types'
  BY DEF Types, TypeOK
<1>2. Phases' /\ Births' /\ Dirty' /\ Map'
  BY DEF Phases, Defer, Used, Births, Dirty, Changing, Map, Committed
<1>3. Apart' /\ Free' /\ Old' /\ Logged'
  BY DEF Apart, Used, Going, Defer, Free, Old, Committed, Logged
<1> QED
  BY <1>1, <1>2, <1>3

\* An allocation for an open or the syncing txg keeps it.
LEMMA Metaslab_block_allocInv == ASSUME MsInv, NEW b \in Blocks, NEW t \in txg .. open, metaslab_block_alloc(b, t) PROVE MsInv'
<1> USE DEF MsInv, metaslab_block_alloc, trees, loadVars, smVars, syncVars, useVars, CanAllocate, Allocating, Dirtied
<1>1. Types'
  BY SlotFacts DEF Types, TypeOK
<1>2. Phases'
  BY SlotFacts DEF Phases, Types, TypeOK, Defer, Used
<1>3. Births'
  <2>1. t \in Nat /\ txg \in Nat /\ Slot(t) \in Slots /\ birth[b] = 0 /\ open' = open /\ txg' = txg
    BY SlotFacts DEF Types, TypeOK, Free, Used
  <2>2. \A c \in Blocks : birth'[c] <= open
    BY <2>1 DEF Births, Types, TypeOK
  <2>3. ASSUME NEW u \in txg .. txg + 3 PROVE ms_alloctree'[Slot(u)] = IF u = t THEN ms_alloctree[Slot(t)] \cup {b} ELSE ms_alloctree[Slot(u)]
    BY <2>1, <2>3, SlotFacts DEF Types, TypeOK
  <2>4. ASSUME NEW u \in txg + 1 .. txg + 3, NEW c \in Blocks PROVE c \in ms_alloctree'[Slot(u)] <=> birth'[c] = u
    BY <2>1, <2>3, <2>4 DEF Births, Types, TypeOK
  <2>5. ASSUME NEW u \in txg .. txg + 2, ms_alloctree'[Slot(u)] # {}
        PROVE /\ pc' \in {"idle", "pass"} \/ u > txg => ms_loaded'
              /\ u > txg => ms_selected_txg' + 2 >= u
    BY <2>1, <2>5 DEF Types, TypeOK
  <2> QED
    BY <2>1, <2>2, <2>4, <2>5 DEF Births
<1>4. Dirty'
  BY DEF Dirty, Defer, Changing
<1>5. Map'
  BY SlotFacts, DeferFacts DEF Map, Births, Types, TypeOK, Phases, Free, Apart, Used, Going, Defer, Committed
<1>6. Apart' /\ Free' /\ Old' /\ Logged'
  BY DEF Apart, Free, Types, TypeOK, Used, Going, Defer, Old, Committed, Logged
<1> QED
  BY <1>1, <1>2, <1>3, <1>4, <1>5, <1>6

\* Freeing a block in the txg that it was born in keeps it.
LEMMA FreeNowInv == ASSUME MsInv, NEW b \in Blocks, FreeNow(b) PROVE MsInv'
<1> USE DEF MsInv, FreeNow, trees, loadVars, smVars, syncVars, useVars, Allocating
<1>1. Types'
  BY ZenonT(40) DEF Types, TypeOK
<1>2. Phases' /\ Dirty'
  BY DEF Phases, Defer, Used, Dirty, Changing
<1>3. Births'
  BY SlotFacts DEF Births, Types, TypeOK
<1>4. Map'
  BY SlotFacts DEF Map, Free, Committed, Types, TypeOK, Used, Going
<1>5. Apart' /\ Old' /\ Logged'
  BY DEF Apart, Used, Going, Defer, Old, Types, TypeOK, Committed, Logged
<1>6. Free'
  <2>1. ms_loaded /\ Used(b) /\ ~Going(b) /\ ~Defer(b)
    BY DEF Births, Apart, Types, TypeOK, Used
  <2> QED
    BY <2>1 DEF Free, Types, TypeOK, Used, Going, Defer
<1> QED
  BY <1>1, <1>2, <1>3, <1>4, <1>5, <1>6

\* A free of the syncing txg keeps it.
LEMMA FreeDvaInv == ASSUME MsInv, NEW b \in Blocks, FreeDva(b) PROVE MsInv'
<1> USE DEF MsInv, FreeDva, trees, loadVars, smVars, syncVars, useVars, Dirtied
<1>1. Types'
  BY SlotFacts DEF Types, TypeOK
<1>2. Phases' /\ Births' /\ Dirty' /\ Map'
  BY DEF Phases, Defer, Used, Births, Types, TypeOK, Dirty, Changing, Map, Committed
<1>3. Apart' /\ Free' /\ Old' /\ Logged'
  BY DEF Apart, Types, TypeOK, Used, Going, Defer, Free, Old, Committed, Logged
<1> QED
  BY <1>1, <1>2, <1>3

\* Claiming a block of the log after a restart keeps it.
LEMMA ClaimInv == ASSUME MsInv, NEW b \in Blocks, Claim(b) PROVE MsInv'
<1> USE DEF MsInv, Claim, trees, loadVars, smVars, syncVars, useVars, Dirtied
<1>1. Types'
  BY SlotFacts DEF Types, TypeOK
<1>2. Phases' /\ Dirty'
  BY DEF Phases, Defer, Used, Dirty, Changing
<1>3. Births'
  BY SlotFacts, DeferFacts DEF Births, Types, TypeOK, Phases
<1>4. Map'
  BY SlotFacts, DeferFacts DEF Map, Births, Types, TypeOK, Phases, Free, Apart, Used, Going, Defer, Committed
<1>5. Apart'
  BY SlotFacts, DeferFacts DEF Apart, Free, Types, TypeOK, Phases, Used, Going, Defer
<1>6. Free' /\ Logged'
  BY DEF Free, Types, TypeOK, Used, Going, Defer, Logged, Committed
<1>7. Old'
  BY SlotFacts, DeferFacts DEF Old, Free, Apart, Map, Births, Types, TypeOK, Phases, Used, Going, Defer, Committed
<1> QED
  BY <1>1, <1>2, <1>3, <1>4, <1>5, <1>6, <1>7

\* Opening the next txg keeps it.
LEMMA OpenNextInv == MsInv /\ OpenNext => MsInv'
<1> SUFFICES ASSUME MsInv, OpenNext PROVE MsInv'
  OBVIOUS
<1> USE DEF MsInv, OpenNext, trees, loadVars, smVars, syncVars, useVars
<1>1. Types'
  BY DEF Types, TypeOK
<1>2. Phases' /\ Births' /\ Dirty' /\ Map'
  BY DEF Phases, Types, TypeOK, Defer, Used, Births, Dirty, Changing, Map, Committed
<1>3. Apart' /\ Free' /\ Old' /\ Logged'
  BY DEF Apart, Used, Going, Defer, Free, Old, Committed, Logged
<1> QED
  BY <1>1, <1>2, <1>3

\* The start of spa_sync keeps it.
LEMMA SyncBeginInv == MsInv /\ SyncBegin => MsInv'
<1> SUFFICES ASSUME MsInv, SyncBegin PROVE MsInv'
  OBVIOUS
<1> USE DEF MsInv, SyncBegin, trees, loadVars, smVars, syncVars, useVars
<1>1. Types'
  BY DEF Types, TypeOK
<1>2. Phases' /\ Births' /\ Dirty' /\ Map'
  BY DEF Phases, Types, TypeOK, Defer, Used, Births, Dirty, Map, Changing, Committed
<1>3. Apart' /\ Free' /\ Old' /\ Logged'
  BY DEF Apart, Used, Going, Defer, Free, Old, Committed, Logged
<1> QED
  BY <1>1, <1>2, <1>3

\* The start of metaslab_sync keeps it.
LEMMA MetaslabsBeginInv == MsInv /\ MetaslabsBegin => MsInv'
<1> SUFFICES ASSUME MsInv, MetaslabsBegin PROVE MsInv'
  OBVIOUS
<1> USE DEF MsInv, MetaslabsBegin, trees, loadVars, smVars, syncVars, useVars
<1>1. Types'
  BY SlotFacts DEF Types, TypeOK
<1>2. Phases' /\ Births'
  BY DEF Phases, Dirty, Types, TypeOK, Defer, Used, Changing, Births
<1>3. Dirty'
  BY SlotFacts DEF Dirty, Types, TypeOK, Defer, Changing
<1>4. Map'
  <2>1. pc' = "next" => ms_freeingtree = {} /\ ms_alloctree[Slot(txg)] = {}
    BY DEF Dirty, Types, TypeOK, Changing
  <2> QED
    BY <2>1 DEF Map, Committed
<1>5. Apart' /\ Free' /\ Old' /\ Logged'
  BY DEF Apart, Used, Going, Defer, Free, Old, Committed, Logged
<1> QED
  BY <1>1, <1>2, <1>3, <1>4, <1>5

\* The start of a condense, which computes the condense tree, keeps it.
LEMMA CondenseBeginInv == MsInv /\ CondenseBegin => MsInv'
<1> SUFFICES ASSUME MsInv, CondenseBegin PROVE MsInv'
  OBVIOUS
<1> USE DEF MsInv, CondenseBegin, trees, loadVars, smVars, syncVars, useVars
<1>1. Types'
  BY DEF Types, TypeOK, CondenseTree
<1>2. Phases' /\ Births' /\ Dirty'
  BY DEF Phases, Defer, Used, Births, Dirty, Changing
<1>3. Map'
  <2>1. \A b \in Blocks : b \in condense_tree' <=>
          /\ b \notin ms_freeingtree /\ ~Defer(b)
          /\ b \notin ms_alloctree[Slot(txg + 1)] /\ b \notin ms_alloctree[Slot(txg + 2)]
    <3>1. 1 .. 2 = {1, 2}
      OBVIOUS
    <3> QED
      BY <3>1, DeferredBlocks DEF CondenseTree
  <2>2. ASSUME NEW b \in Blocks
        PROVE birth[b] \in 1 .. txg <=> b \in condense_tree' /\ b \notin ms_tree
    <3>1. /\ b \in ms_alloctree[Slot(txg + 1)] <=> birth[b] = txg + 1
          /\ b \in ms_alloctree[Slot(txg + 2)] <=> birth[b] = txg + 2
          /\ birth[b] \in Nat /\ birth[b] <= txg + 2
      BY DEF Births, Types, TypeOK
    <3>2. b \in ms_tree <=> birth[b] = 0 /\ b \notin ms_freeingtree /\ ~Defer(b)
      BY DEF Free, Phases, Used, Going
    <3>3. birth[b] # 0 => b \notin ms_freeingtree /\ ~Defer(b)
      BY DEF Apart, Used, Going
    <3> QED
      BY <2>1, <3>1, <3>2, <3>3 DEF Types, TypeOK
  <2> QED
    BY <2>2 DEF Map, Committed
<1>4. Apart' /\ Free' /\ Old' /\ Logged'
  BY DEF Apart, Used, Going, Defer, Free, Old, Committed, Logged
<1> QED
  BY <1>1, <1>2, <1>3, <1>4

\* Writing the condense tree keeps it.
LEMMA CondenseAllocInv == MsInv /\ CondenseAlloc => MsInv'
<1> SUFFICES ASSUME MsInv, CondenseAlloc PROVE MsInv'
  OBVIOUS
<1> USE DEF MsInv, CondenseAlloc, trees, loadVars, smVars, syncVars, useVars
<1>1. Types'
  BY DEF Types, TypeOK
<1>2. Phases' /\ Births' /\ Dirty' /\ Map'
  BY ZenonT(40) DEF Phases, Defer, Used, Births, Dirty, Changing, Map, Committed
<1>3. Apart' /\ Free' /\ Old' /\ Logged'
  BY ZenonT(40) DEF Apart, Used, Going, Defer, Free, Old, Committed, Logged
<1> QED
  BY <1>1, <1>2, <1>3

\* Writing the free tree keeps it.
LEMMA CondenseFreeInv == MsInv /\ CondenseFree => MsInv'
<1> SUFFICES ASSUME MsInv, CondenseFree PROVE MsInv'
  OBVIOUS
<1> USE DEF MsInv, CondenseFree, trees, loadVars, smVars, syncVars, useVars
<1>1. Types'
  BY ZenonT(40) DEF Types, TypeOK
<1>2. Phases' /\ Births' /\ Dirty' /\ Map'
  BY DEF Phases, Defer, Used, Births, Dirty, Changing, Map, Committed
<1>3. Apart' /\ Free' /\ Old' /\ Logged'
  BY ZenonT(40) DEF Apart, Used, Going, Defer, Free, Old, Committed, Logged
<1> QED
  BY <1>1, <1>2, <1>3

\* Appending the trees of the txg to the space map keeps it.
LEMMA SpaceMapWriteInv == MsInv /\ SpaceMapWrite => MsInv'
<1> SUFFICES ASSUME MsInv, SpaceMapWrite PROVE MsInv'
  OBVIOUS
<1> USE DEF MsInv, SpaceMapWrite, trees, loadVars, smVars, syncVars, useVars, alloctree
<1>1. Types'
  BY SlotFacts DEF Types, TypeOK
<1>2. Phases' /\ Births' /\ Dirty' /\ Map'
  BY ZenonT(40) DEF Phases, Defer, Used, Births, Dirty, Changing, Map, Committed
<1>3. Apart' /\ Free' /\ Old' /\ Logged'
  BY ZenonT(40) DEF Apart, Used, Going, Defer, Free, Old, Committed, Logged
<1> QED
  BY ZenonT(40), <1>1, <1>2, <1>3

\* The end of metaslab_sync keeps it.
LEMMA MetaslabSyncedInv == MsInv /\ MetaslabSynced => MsInv'
<1> SUFFICES ASSUME MsInv, MetaslabSynced PROVE MsInv'
  OBVIOUS
<1> USE DEF MsInv, MetaslabSynced, trees, loadVars, smVars, syncVars, useVars, Freed
<1>1. Types'
  BY ZenonT(40) DEF Types, TypeOK
<1>2. Phases'
  BY SlotFacts DEF Phases, Types, TypeOK, Defer, Used
<1>3. Births'
  BY SlotFacts DEF Births, Types, TypeOK
<1>4. Dirty' /\ Map'
  BY DEF Dirty, Defer, Changing, Map, Committed
<1>5. Apart' /\ Free' /\ Old' /\ Logged'
  BY DEF Apart, Used, Going, Defer, Free, Old, Committed, Logged
<1> QED
  BY <1>1, <1>2, <1>3, <1>4, <1>5

\* The next pass of spa_sync keeps it.
LEMMA PassNextInv == MsInv /\ PassNext => MsInv'
<1> SUFFICES ASSUME MsInv, PassNext PROVE MsInv'
  OBVIOUS
<1> USE DEF MsInv, PassNext, trees, loadVars, smVars, syncVars, useVars
<1>1. Types'
  BY DEF Types, TypeOK
<1>2. Phases' /\ Map'
  BY DEF Phases, Types, TypeOK, Defer, Used, Map, Committed
<1>3. Births'
  <2>1. ms_alloctree[Slot(txg)] = {}
    BY DEF Phases
  <2> QED
    BY <2>1 DEF Births, Types, TypeOK
<1>4. Dirty'
  BY SlotFacts, DeferFacts DEF Dirty, Births, Types, TypeOK, Phases, Defer, Changing
<1>5. Apart' /\ Free' /\ Old' /\ Logged'
  BY DEF Apart, Used, Going, Defer, Free, Old, Committed, Logged
<1> QED
  BY <1>1, <1>2, <1>3, <1>4, <1>5

\* Writing the uberblock keeps it.
LEMMA CommitInv == MsInv /\ Commit => MsInv'
<1> SUFFICES ASSUME MsInv, Commit PROVE MsInv'
  OBVIOUS
<1> USE DEF MsInv, Commit, trees, loadVars, smVars, syncVars, useVars, Referenced
<1>0. /\ kept' \in 1 .. 3 /\ Kept(2)' = ub[1] /\ Kept(3)' \in {Kept(2), {}}
      /\ ub'[1] = {b \in Blocks : birth[b] \in 1 .. txg}
  BY DEF Types
<1> HIDE DEF Kept
<1>1. Types'
  BY <1>0 DEF Types, TypeOK
<1>2. Phases'
  <2>1. pc' = "end" => ms_freedtree = {}
    BY SlotFacts DEF Dirty, Types, TypeOK
  <2> QED
    BY <2>1 DEF Phases, Types, TypeOK, Defer, Used
<1>3. Births'
  BY DEF Births
<1>4. Dirty'
  BY SlotFacts DEF Dirty, Types, TypeOK, Defer, Changing
<1>5. Map'
  <2>1. pc' = "end" => sm_phys = sm_alloc
    BY SlotFacts DEF Dirty, Types, TypeOK
  <2>2. ub'[1] = sm_phys
    BY DEF Map, Types, TypeOK
  <2> QED
    BY <2>1, <2>2 DEF Map, Committed
<1>6. Apart' /\ Free' /\ Old' /\ Logged'
  BY <1>0 DEF Apart, Used, Going, Defer, Free, Old, Committed, Logged
<1> QED
  BY <1>1, <1>2, <1>3, <1>4, <1>5, <1>6

\* metaslab_sync_done, which defers the frees of the txg and gives back those
\* deferred two txgs before, keeps it.
LEMMA Metaslab_sync_doneInv == MsInv /\ metaslab_sync_done => MsInv'
<1> SUFFICES ASSUME MsInv, metaslab_sync_done PROVE MsInv'
  OBVIOUS
<1> USE DEF MsInv, metaslab_sync_done, trees, loadVars, smVars, syncVars, useVars, DeferAllowed, DirtyAgain, UnloadDue, TXG_DEFER_SIZE
<1>1. PICK allowed \in DeferAllowed :
       /\ ms_defertree' = [ms_defertree EXCEPT ![txg % 2] = IF allowed THEN ms_freedtree ELSE {}]
       /\ ms_tree' = IF ~ms_loaded \/ UnloadDue THEN {}
                    ELSE ms_tree \cup (ms_defertree[txg % 2] \cup (IF allowed THEN {} ELSE ms_freedtree))
  BY ZenonT(40)
<1>a. /\ ~LowSpace => allowed
      /\ ms_freeingtree = {} /\ ms_freeingtree' = {} /\ ms_freedtree' = {}
  BY MetaslabAssumption, ZenonT(40) DEF Phases, DeferAllowed
<1>b. \A b \in Blocks :
       /\ b \in ms_defertree'[txg % 2] <=> allowed /\ b \in ms_freedtree
       /\ b \in ms_defertree'[(txg + 1) % 2] <=> b \in ms_defertree[(txg + 1) % 2]
       /\ Defer(b) <=> b \in ms_defertree[txg % 2] \/ b \in ms_defertree[(txg + 1) % 2]
       /\ Defer(b)' <=> b \in ms_defertree'[txg % 2] \/ b \in ms_defertree'[(txg + 1) % 2]
       /\ ~Going(b)' /\ (Going(b) <=> b \in ms_freedtree) /\ (Used(b)' <=> Used(b))
  BY <1>1, <1>a, DeferFacts DEF Types, TypeOK, Defer, Going, Used
<1>2. Types'
  BY SlotFacts, DeferFacts DEF Types, TypeOK
<1>3. Phases' /\ Map'
  BY DEF Phases, Defer, Used, Map, Committed
<1>4. Births'
  <2>1. ASSUME NEW t \in txg + 1 .. txg + 2, ms_alloctree[Slot(t)] # {} PROVE ms_loaded /\ ~UnloadDue
    BY <2>1, MetaslabAssumption DEF Births, Types, TypeOK
  <2>2. ms_alloctree[Slot(txg)] = {}
    BY DEF Phases
  <2> QED
    BY <2>1, <2>2 DEF Births, Types, TypeOK
<1>5. Dirty'
  BY SlotFacts, DeferFacts DEF Dirty, Types, TypeOK, Defer, Changing
<1>6. Apart'
  BY SlotFacts, DeferFacts DEF Apart, Free, Types, TypeOK, Phases, Used, Going, Defer
<1>7. Free'
  <2>1. ASSUME NEW b \in Blocks, ms_loaded' PROVE b \in ms_tree' <=> ~Used(b) /\ ~Defer(b)'
    <3>1. ms_tree' = ms_tree \cup (ms_defertree[txg % 2] \cup (IF allowed THEN {} ELSE ms_freedtree))
      BY <1>1, <2>1, ZenonT(40)
    <3>2. b \in ms_tree <=> ~Used(b) /\ b \notin ms_freedtree /\ ~Defer(b)
      BY <1>b, <2>1, ZenonT(40) DEF Free
    <3>3. /\ Used(b) => b \notin ms_freedtree
          /\ Used(b) \/ b \in ms_freedtree => ~Defer(b)
          /\ ~(b \in ms_defertree[txg % 2] /\ b \in ms_defertree[(txg + 1) % 2])
      BY <1>b, DeferFacts DEF Apart, Types, TypeOK
    <3> QED
      BY <1>b, <3>1, <3>2, <3>3
  <2>2. ASSUME NEW b \in Blocks, ~ms_loaded' PROVE b \in sm_alloc' <=> Used(b)
    <3>1. b \in sm_alloc' <=> birth[b] \in 1 .. txg
      BY DEF Map
    <3>2. birth[b] <= txg
      <4>1. ASSUME NEW t \in txg + 1 .. txg + 2, birth[b] = t PROVE FALSE
        <5>1. ms_alloctree[Slot(t)] # {}
          BY <4>1 DEF Births, Types, TypeOK
        <5> QED
          BY <2>2, <5>1, MetaslabAssumption DEF Births, Types, TypeOK
      <4> QED
        BY <4>1 DEF Births, Types, TypeOK
    <3> QED
      BY <3>1, <3>2 DEF Used, Types, TypeOK
  <2> QED
    BY <1>b, <2>1, <2>2 DEF Free
<1>8. Old'
  BY <1>a, <1>b DEF Old, Committed
<1>9. Logged'
  BY DEF Logged, Committed, Used, Going
<1> QED
  BY <1>2, <1>3, <1>4, <1>5, <1>6, <1>7, <1>8, <1>9

\* The end of spa_sync keeps it.
LEMMA SyncEndInv == MsInv /\ SyncEnd => MsInv'
<1> SUFFICES ASSUME MsInv, SyncEnd PROVE MsInv'
  OBVIOUS
<1> USE DEF MsInv, SyncEnd, trees, loadVars, smVars, syncVars, useVars
<1>1. Types'
  <2>1. txg' \in Nat /\ txg' > 1 /\ open' \in txg' .. txg' + 2 /\ pass' \in Nat
    BY DEF Types, TypeOK, Phases
  <2> QED
    BY <2>1 DEF Types, TypeOK
<1>2. Phases'
  BY DEF Phases, Defer, Used
<1>3. Births'
  <2>1. ms_alloctree[Slot(txg)] = {} /\ txg' = txg + 1 /\ txg \in Nat
    BY DEF Phases, Types, TypeOK
  <2>2. Slot(txg' + 3) = Slot(txg)
    BY <2>1, SlotFacts
  <2>3. ASSUME NEW t \in txg' + 1 .. txg' + 3, NEW b \in Blocks PROVE b \in ms_alloctree[Slot(t)] <=> birth[b] = t
    <3>1. CASE t = txg' + 3
      BY <2>1, <2>2, <3>1 DEF Births, Types, TypeOK
    <3>2. CASE t # txg' + 3
      BY <2>1, <3>2 DEF Births, Types, TypeOK
    <3> QED
      BY <3>1, <3>2
  <2>4. ASSUME NEW t \in txg' .. txg' + 2, ms_alloctree[Slot(t)] # {}
        PROVE ms_loaded /\ ms_selected_txg + 2 >= t
    <3>1. t # txg + 3
      <4>1. SUFFICES ASSUME t = txg + 3 PROVE ms_alloctree[Slot(t)] = {}
        BY <2>4
      <4> QED
        BY <4>1, <2>1, SlotFacts DEF Births, Types, TypeOK
    <3> QED
      BY <2>1, <2>4, <3>1 DEF Births, Types, TypeOK
  <2> QED
    BY <2>3, <2>4 DEF Births
<1>4. Dirty'
  BY SlotFacts, DeferFacts DEF Dirty, Births, Types, TypeOK, Phases, Defer, Changing
<1>5. Map'
  BY SlotFacts, DeferFacts DEF Map, Births, Types, TypeOK, Phases, Free, Apart, Used, Going, Defer, Committed
<1>6. Apart' /\ Free' /\ Old' /\ Logged'
  BY DEF Apart, Used, Going, Defer, Free, Old, Types, TypeOK, Committed, Logged
<1> QED
  BY <1>1, <1>2, <1>3, <1>4, <1>5, <1>6

\* A power failure and the restart keep it.
LEMMA CrashInv == MsInv /\ Crash => MsInv'
<1> SUFFICES ASSUME MsInv, Crash PROVE MsInv'
  OBVIOUS
<1> USE DEF MsInv, Crash, trees, loadVars, smVars, syncVars, useVars, LastSynced, ToClaim
<1>1. Types'
  <2>1. txg' \in Nat /\ txg' > 1 /\ open' \in txg' .. txg' + 2
    BY DEF Types, TypeOK
  <2>2. ms_alloctree' \in [Slots -> SUBSET Blocks] /\ ms_defertree' \in [Defers -> SUBSET Blocks]
    OBVIOUS
  <2>3. birth' \in [Blocks -> Nat]
    OBVIOUS
  <2>4. ub'[1] = ub[1] /\ Kept(2)' = {} /\ Kept(3)' = {} /\ kept' \in 1 .. 3
    BY DEF Kept
  <2>5. sm_alloc' \subseteq Blocks /\ sm_phys' \subseteq Blocks /\ claims' \subseteq Blocks /\ log' \subseteq Blocks
    BY DEF Types, TypeOK
  <2>6. TypeOK'
    BY <2>1, <2>2, <2>3, <2>5 DEF Types, TypeOK
  <2> QED
    BY <2>1, <2>4, <2>5, <2>6, ZenonT(40) DEF Types
<1>2. Phases'
  BY SlotFacts, DeferFacts DEF Phases, Types, TypeOK, Defer, Used
<1>3. Births'
  BY SlotFacts DEF Births, Types, TypeOK
<1>4. Dirty'
  BY SlotFacts, DeferFacts DEF Dirty, Types, TypeOK, Defer, Changing
<1>5. Map'
  BY SlotFacts DEF Map, Free, Committed, Types, TypeOK, Used, Going
<1>6. Apart'
  BY SlotFacts, DeferFacts DEF Apart, Free, Types, TypeOK, Phases, Used, Going, Defer
<1>7. Free'
  BY SlotFacts, DeferFacts DEF Free, Apart, Map, Births, Types, TypeOK, Phases, Used, Going, Defer, Committed
<1>8. Old' /\ Logged'
  BY DEF Old, Types, TypeOK, Committed, Used, Going, Defer, Logged
<1> QED
  BY <1>1, <1>2, <1>3, <1>4, <1>5, <1>6, <1>7, <1>8

-----------------------------------------------------------------------------

\* Every step keeps the invariant.
LEMMA Inductive == MsInv /\ [Next]_vars => MsInv'
<1> SUFFICES ASSUME MsInv, [Next]_vars PROVE MsInv'
  OBVIOUS
<1>1. CASE LoadBegin \/ LoadEnd \/ Preload
  BY <1>1, LoadBeginInv, LoadEndInv, PreloadInv
<1>2. ASSUME NEW b \in Blocks, NEW t \in txg .. open, metaslab_block_alloc(b, t) PROVE MsInv'
  BY <1>2, Metaslab_block_allocInv
<1>3. ASSUME NEW b \in Blocks, FreeNow(b) \/ FreeDva(b) \/ Claim(b) PROVE MsInv'
  BY <1>3, FreeNowInv, FreeDvaInv, ClaimInv
<1>4. CASE OpenNext \/ SyncBegin \/ MetaslabsBegin
  BY <1>4, OpenNextInv, SyncBeginInv, MetaslabsBeginInv
<1>5. CASE CondenseBegin \/ CondenseAlloc \/ CondenseFree \/ SpaceMapWrite
  BY <1>5, CondenseBeginInv, CondenseAllocInv, CondenseFreeInv, SpaceMapWriteInv
<1>6. CASE MetaslabSynced \/ PassNext \/ Commit \/ metaslab_sync_done \/ SyncEnd
  BY <1>6, MetaslabSyncedInv, PassNextInv, CommitInv, Metaslab_sync_doneInv, SyncEndInv
<1>7. CASE Crash
  BY <1>7, CrashInv
<1>8. CASE UNCHANGED vars
  <2> USE <1>8 DEF vars, trees, loadVars, smVars, syncVars, useVars, MsInv
  <2>1. Types' /\ Phases'
    BY DEF Types, TypeOK, Phases, Defer, Used
  <2>2. Births' /\ Dirty' /\ Map'
    BY DEF Births, Dirty, Map, Defer, Changing, Committed
  <2>3. Apart' /\ Free' /\ Old' /\ Logged'
    BY DEF Apart, Free, Old, Logged, Used, Going, Defer, Committed
  <2> QED
    BY <2>1, <2>2, <2>3
<1> QED
  BY <1>1, <1>2, <1>3, <1>4, <1>5, <1>6, <1>7, <1>8 DEF Next

\* The invariant that relates the trees of a metaslab, its space map, the txgs in
\* which blocks were born and the last three uberblocks holds through every
\* interleaving of allocation, loading, condensing, spa_sync and power failures.
THEOREM Invariance == Spec => []MsInv
<1> QED
  BY InitInv, Inductive, PTL DEF Spec

\* The invariant says what FreeIsUnused says.
LEMMA InvFree == MsInv => FreeIsUnused
<1> SUFFICES ASSUME MsInv, ms_loaded PROVE FreeIsUnused
  BY DEF FreeIsUnused
<1>1. \A b \in ms_tree : b \in Blocks /\ ~Used(b) /\ ~Going(b) /\ ~Defer(b)
  BY DEF MsInv, Free, Types, TypeOK
<1>2. \A b \in ms_tree : birth[b] = 0 /\ b \notin ub[1]
  BY <1>1 DEF MsInv, Old, Used
<1>3. ms_tree \cap log \subseteq claims
  BY <1>1 DEF MsInv, Logged
<1>4. ASSUME NEW b \in claims PROVE b \in ms_tree
  <2>1. b \in Blocks /\ ~Used(b) /\ ~Defer(b) /\ ms_freeingtree = {} /\ ms_freedtree = {}
    BY DEF MsInv, Types, Phases
  <2> QED
    BY <2>1 DEF MsInv, Free, Going
<1>5. ASSUME ~LowSpace, NEW b \in ms_tree PROVE b \notin Kept(2) /\ b \notin Kept(3)
  <2>1. b \notin ms_defertree[txg % 2] /\ b \notin ms_defertree[(txg + 1) % 2]
    BY <1>1, DeferFacts DEF MsInv, Types, TypeOK, Defer
  <2> QED
    BY <1>1, <1>5, <2>1 DEF MsInv, Old
<1> QED
  BY <1>2, <1>3, <1>4, <1>5 DEF FreeIsUnused

\* What metaslab_block_alloc can hand out is not in use in any txg, not referred to
\* by the last uberblock, not in the intent log, and, as long as frees are deferred,
\* not referred to by the two uberblocks before.
THEOREM FreeUnused == Spec => []FreeIsUnused
BY Invariance, InvFree, PTL

\* The invariant says what SpaceMapExact says.
LEMMA InvExact == MsInv => SpaceMapExact
<1> SUFFICES ASSUME MsInv PROVE SpaceMapExact
  OBVIOUS
<1> DEFINE opened == UNION {ms_alloctree[s] : s \in Slots}
<1>1. /\ pc \in {"idle", "end"} => sm_alloc = ub[1] /\ sm_phys = ub[1]
      /\ pc = "done" => sm_phys = ub[1]
  BY DEF MsInv, Map, Committed
<1>2. pc = "idle" /\ Deferred # {} => Slot(txg) \in ms_dirty
  BY DeferredBlocks, DeferFacts DEF MsInv, Dirty, Types, TypeOK, Defer
<1>3. ASSUME pc = "idle", ms_loaded
      PROVE /\ Blocks = ms_tree \cup sm_alloc \cup opened \cup Deferred
            /\ ms_tree \cap (sm_alloc \cup opened \cup Deferred) = {}
            /\ sm_alloc \cap (opened \cup Deferred) = {}
            /\ opened \cap Deferred = {} /\ ms_defertree[0] \cap ms_defertree[1] = {}
  <2>1. \A b : b \in opened <=>
          \/ b \in ms_alloctree[Slot(txg)] \/ b \in ms_alloctree[Slot(txg + 1)]
          \/ b \in ms_alloctree[Slot(txg + 2)] \/ b \in ms_alloctree[Slot(txg + 3)]
    <3>1. txg \in Nat /\ txg + 1 \in Nat /\ txg + 2 \in Nat /\ txg + 3 \in Nat
      BY DEF MsInv, Types, TypeOK
    <3>2. Slots = {Slot(txg), Slot(txg + 1), Slot(txg + 2), Slot(txg + 3)}
      BY <3>1, SlotFacts
    <3> QED
      BY <3>2
  <2>2. /\ ms_tree \subseteq Blocks /\ sm_alloc \subseteq Blocks /\ opened \subseteq Blocks
        /\ Deferred \subseteq Blocks
    BY DeferredBlocks, DeferFacts DEF MsInv, Types, TypeOK, Defer
  <2>3. ASSUME NEW b \in Blocks
        PROVE /\ b \in ms_tree <=> ~Used(b) /\ b \notin Deferred
              /\ Used(b) <=> b \in sm_alloc \/ b \in opened
              /\ ~(b \in sm_alloc /\ b \in opened)
              /\ Used(b) => b \notin Deferred
              /\ ~(b \in ms_defertree[0] /\ b \in ms_defertree[1])
    <3>1. ms_freeingtree = {} /\ ms_freedtree = {} /\ sm_alloc = sm_phys
      BY <1>3 DEF MsInv, Phases, Map
    <3>2. /\ b \in ms_tree <=> ~Used(b) /\ b \notin Deferred
          /\ Used(b) => b \notin Deferred
          /\ ~(b \in ms_defertree[0] /\ b \in ms_defertree[1])
      BY <1>3, <3>1, DeferredBlocks DEF MsInv, Free, Apart, Going
    <3>3. /\ birth[b] \in 1 .. txg <=> b \in sm_phys \/ b \in ms_alloctree[Slot(txg)]
          /\ ~(b \in sm_phys /\ b \in ms_alloctree[Slot(txg)])
      BY <1>3, <3>1 DEF MsInv, Map
    <3>4. /\ b \in ms_alloctree[Slot(txg + 1)] <=> birth[b] = txg + 1
          /\ b \in ms_alloctree[Slot(txg + 2)] <=> birth[b] = txg + 2
          /\ b \in ms_alloctree[Slot(txg + 3)] <=> birth[b] = txg + 3
          /\ birth[b] \in Nat /\ birth[b] <= txg + 2 /\ txg \in Nat
      BY DEF MsInv, Births, Types, TypeOK
    <3> HIDE DEF opened
    <3> QED
      BY <2>1, <3>1, <3>2, <3>3, <3>4 DEF Used
  <2> HIDE DEF opened
  <2>4. ms_defertree[0] \subseteq Blocks
    BY DeferFacts DEF MsInv, Types, TypeOK
  <2> QED
    BY <2>2, <2>3, <2>4
<1> QED
  BY <1>1, <1>2, <1>3 DEF SpaceMapExact

\* Between two txgs the space map on disk is what the uberblock refers to, whether it
\* was appended to or condensed, and the trees of a loaded metaslab partition its
\* blocks: none is lost, none is in two of them.
THEOREM SpaceMap == Spec => []SpaceMapExact
BY Invariance, InvExact, PTL

\* While the free tree is written, a step leaves it alone or gives back a block of
\* a later txg.
LEMMA CondenseStep ==
  ASSUME MsInv, [Next]_vars, ms_condensing, ms_condensing'
  PROVE  \/ ms_tree' = ms_tree
         \/ \E b \in Blocks : birth[b] > txg /\ b \notin ms_tree /\ ms_tree' = ms_tree \cup {b}
<1>1. /\ pc \in {"condense", "condenseFree"} /\ ms_loaded /\ ~ms_loading /\ claims = {}
  BY DEF MsInv, Phases, Types
<1>2. CASE LoadBegin \/ LoadEnd \/ Preload
  BY <1>1, <1>2, ZenonT(40) DEF LoadBegin, LoadEnd, Preload, trees
<1>3. ASSUME NEW b \in Blocks, NEW t \in txg .. open, metaslab_block_alloc(b, t) PROVE FALSE
  BY <1>3 DEF metaslab_block_alloc, CanAllocate
<1>4. ASSUME NEW b \in Blocks, FreeDva(b) \/ Claim(b) PROVE FALSE
  BY <1>1, <1>4 DEF FreeDva, Claim
<1>5. ASSUME NEW b \in Blocks, FreeNow(b)
      PROVE birth[b] > txg /\ b \notin ms_tree /\ ms_tree' = ms_tree \cup {b}
  <2>1. birth[b] \in txg .. open /\ birth[b] # txg /\ ms_tree' = ms_tree \cup {b}
    BY <1>1, <1>5 DEF FreeNow, Allocating
  <2>2. txg \in Nat /\ open \in Nat /\ txg > 1
    BY DEF MsInv, Types, TypeOK
  <2>3. birth[b] > txg /\ birth[b] # 0
    BY <2>1, <2>2
  <2> QED
    BY <1>1, <2>1, <2>3 DEF MsInv, Free, Used
<1>6. CASE OpenNext \/ SyncBegin \/ MetaslabsBegin \/ CondenseBegin \/ CondenseAlloc
           \/ CondenseFree \/ SpaceMapWrite
  BY <1>6 DEF OpenNext, SyncBegin, MetaslabsBegin, CondenseBegin, CondenseAlloc, CondenseFree,
              SpaceMapWrite, trees
<1>7. CASE MetaslabSynced \/ PassNext \/ Commit \/ metaslab_sync_done \/ SyncEnd \/ Crash
  BY <1>1, <1>7 DEF MetaslabSynced, PassNext, Commit, metaslab_sync_done, SyncEnd, Crash
<1>8. CASE UNCHANGED vars
  BY <1>8 DEF vars, trees
<1> QED
  BY <1>2, <1>3, <1>4, <1>5, <1>6, <1>7, <1>8 DEF Next

\* While metaslab_condense has dropped the lock, nothing is allocated from the free
\* tree that it is writing, and no load, unload or deferred free changes it: the one
\* thing that reaches it is a block of a later txg whose write has failed.
THEOREM CondenseStable == Spec => CondenseUndisturbed
<1> DEFINE Undisturbed ==
      ms_condensing /\ ms_condensing' =>
        \/ ms_tree' = ms_tree
        \/ \E b \in Blocks : birth[b] > txg /\ b \notin ms_tree /\ ms_tree' = ms_tree \cup {b}
<1>1. MsInv /\ [Next]_vars => [Undisturbed]_vars
  BY CondenseStep
<1>2. [][Undisturbed]_vars => CondenseUndisturbed
  BY PTL DEF CondenseUndisturbed
<1> HIDE DEF Undisturbed
<1> QED
  BY <1>1, <1>2, Invariance, PTL DEF Spec

-----------------------------------------------------------------------------
(* The callers of zil_commit and zil_suspend.                              *)

CONSTANTS Threads, Suspenders, Offliners, Calls, Fresh

VARIABLES zl_next_batch, zl_com_batch, zl_writer, zl_suspend, zl_suspending, zil_pc, mybatch, asleep,
          calls, assigned, stable, target, top, uselog, lwbs, zh_log, destroying, unplayed,
          emptied

Zc == INSTANCE ZilCommit WITH pc <- zil_pc

\* The writer has collected the records of its batch.
Collected(t) == zil_pc[t] \in {"create", "created", "write", "sync", "nothing"}

\* The suspenders that are counted by zl_suspend.
Inside == {s \in Suspenders : zil_pc[s] \notin {"idle", "end"}}

ZilTypes ==
  /\ zl_next_batch \in Nat \ {0} /\ zl_com_batch \in Nat /\ zl_writer \in BOOLEAN
  /\ assigned \in Nat /\ stable \in Nat /\ top \in Nat
  /\ target \in [Zc!All -> Nat] /\ mybatch \in [Zc!All -> Nat]
  /\ uselog \in BOOLEAN /\ lwbs \in BOOLEAN /\ emptied \in BOOLEAN
  /\ zil_pc \in [Zc!All -> {"idle", "enter", "wait", "collect", "create", "created", "write", "sync", "nothing",
                     "signal", "broadcast", "other", "destroy", "destroyed", "suspended",
                     "end"}]
  /\ \A t \in Threads : zil_pc[t] \notin {"other", "destroy", "destroyed", "suspended", "end"}

\* The one writer commits the batch before zl_next_batch; all earlier batches are
\* committed, and without a writer this one is, too.
Batches ==
  /\ zl_writer <=> \E t \in Zc!All : Zc!Writes(t)
  /\ \A t, u \in Zc!All : Zc!Writes(t) /\ Zc!Writes(u) => t = u
  /\ zl_next_batch = IF zl_writer THEN zl_com_batch + 2 ELSE zl_com_batch + 1
  /\ \A t \in Zc!All :
       /\ Zc!Writes(t) => mybatch[t] = zl_com_batch + 1
       /\ zil_pc[t] = "wait" => mybatch[t] <= zl_next_batch

\* Who waits for a batch that is committed has its records stable; who waits for the
\* one that is being written has them among those that were collected.
Records ==
  /\ stable <= top /\ top <= assigned
  /\ (\A t \in Zc!All : ~Collected(t)) => stable = top
  /\ \A t \in Zc!All :
       /\ target[t] <= assigned
       /\ Collected(t) => target[t] <= top
       /\ zil_pc[t] \in {"idle", "signal", "broadcast", "destroy"} => target[t] <= stable
       /\ zil_pc[t] = "wait" /\ mybatch[t] <= zl_com_batch => target[t] <= stable
       /\ zil_pc[t] = "wait" /\ mybatch[t] = zl_com_batch + 1 /\ (\E u \in Zc!All : Collected(u)) => target[t] <= top

\* zl_suspend counts the suspenders.  A writer that uses the log began before the
\* suspender in charge joined a batch; an emptied log is not used.
Suspended ==
  /\ IsFiniteSet(Inside) /\ zl_suspend = Cardinality(Inside)
  /\ uselog <=> \E t \in Zc!All : zil_pc[t] \in {"create", "created", "write"}
  /\ \A s \in Suspenders :
       /\ Zc!Writes(s) \/ zil_pc[s] \in {"signal", "broadcast", "destroy"} => ~uselog
       /\ zil_pc[s] = "wait" /\ mybatch[s] < zl_next_batch => ~uselog
  /\ emptied => Inside # {} /\ ~uselog /\ ~lwbs

ZilInv == ZilTypes /\ Batches /\ Records /\ Suspended

-----------------------------------------------------------------------------
(* The suspenders.                                                         *)

\* zl_suspend is positive exactly when a suspender is counted.
LEMMA Counting == ASSUME Suspended PROVE zl_suspend \in Nat /\ (zl_suspend > 0 <=> Inside # {})
<1>1. IsFiniteSet(Inside) /\ zl_suspend = Cardinality(Inside)
  BY DEF Suspended
<1>2. Cardinality(Inside) \in Nat /\ (Cardinality(Inside) = 0 <=> Inside = {})
  BY <1>1, FS_CardinalityType, FS_EmptySet
<1> QED
  BY <1>1, <1>2

\* The initial states satisfy the invariant.
LEMMA ZilInit == ASSUME Zc!ZilCommitAssumption, Zc!Init PROVE ZilInv
<1>1. ZilTypes
  <2>1. uselog \in BOOLEAN /\ lwbs \in BOOLEAN /\ emptied \in BOOLEAN /\ zl_writer \in BOOLEAN
    BY DEF Zc!ZilCommitAssumption, Zc!Init
  <2>2. \A t \in Threads : zil_pc[t] = "idle"
    BY DEF Zc!Init, Zc!All
  <2> QED
    BY <2>1, <2>2 DEF Zc!Init, ZilTypes
<1>2. Batches
  BY DEF Zc!Init, Batches, Zc!Writes, Zc!All
<1>3. Records
  BY DEF Zc!Init, Records, Collected, Zc!All
<1>4. Suspended
  <2>1. Inside = {}
    BY DEF Zc!Init, Inside, Zc!All
  <2> QED
    BY <2>1, FS_EmptySet DEF Zc!Init, Suspended, Zc!Writes, Zc!All
<1> QED
  BY <1>1, <1>2, <1>3, <1>4 DEF ZilInv

-----------------------------------------------------------------------------
(* One lemma per action.                                                   *)

\* A thread that logs a record and calls zil_commit keeps the invariant.
LEMMA CallInv == ASSUME Zc!ZilCommitAssumption, ZilInv, NEW t \in Zc!All, Zc!Call(t) PROVE ZilInv'
<1> USE DEF ZilInv, Zc!Call, Zc!batch, Zc!susp, Zc!log, Zc!recs, Zc!Goto, Zc!All
<1>1. ZilTypes'
  BY DEF ZilTypes
<1>2. Batches'
  BY DEF Batches, ZilTypes, Zc!Writes
<1>3. Records'
  BY DEF Records, Batches, ZilTypes, Collected, Zc!Writes
<1>4. Suspended'
  <2>1. Inside' = Inside
    BY DEF Zc!ZilCommitAssumption, Inside, ZilTypes
  <2> QED
    BY <2>1 DEF Suspended, Batches, ZilTypes, Zc!Writes
<1> QED
  BY <1>1, <1>2, <1>3, <1>4

\* Joining a batch, and becoming its writer when there is none, keeps it.
LEMMA EnterInv == ASSUME Zc!ZilCommitAssumption, ZilInv, NEW t \in Zc!All, Zc!Enter(t) PROVE ZilInv'
<1> USE DEF ZilInv, Zc!batch, Zc!susp, Zc!log, Zc!recs, Zc!Goto, Zc!All
<1>1. CASE zl_writer
  <2>1. /\ zil_pc' = [zil_pc EXCEPT ![t] = "wait"] /\ UNCHANGED <<Zc!batch, Zc!susp, Zc!log, Zc!recs>>
        /\ mybatch' = [mybatch EXCEPT ![t] = zl_next_batch]
    BY <1>1 DEF Zc!Enter, Zc!Sleep, Zc!BecomeWriter, Zc!Busy
  <2>2. ZilTypes'
    BY <2>1 DEF ZilTypes
  <2>3. Batches'
    BY <2>1 DEF Zc!Enter, Batches, ZilTypes, Zc!Writes
  <2>4. Records'
    BY <2>1, <1>1 DEF Zc!Enter, Records, Batches, ZilTypes, Collected, Zc!Writes
  <2>5. Suspended'
    BY <2>1 DEF Zc!Enter, Suspended, ZilTypes, Zc!Writes, Inside
  <2> QED
    BY <2>2, <2>3, <2>4, <2>5
<1>2. CASE ~zl_writer
  <2>1. /\ zil_pc' = [zil_pc EXCEPT ![t] = "collect"] /\ zl_next_batch' = zl_next_batch + 1 /\ zl_writer' = TRUE
        /\ UNCHANGED <<zl_com_batch, Zc!susp, Zc!log, Zc!recs>>
        /\ mybatch' = [mybatch EXCEPT ![t] = zl_next_batch]
    BY <1>2 DEF Zc!Enter, Zc!Sleep, Zc!BecomeWriter, Zc!Busy
  <2>2. ZilTypes'
    BY <2>1 DEF ZilTypes
  <2>3. Batches'
    BY <2>1, <1>2 DEF Zc!Enter, Batches, ZilTypes, Zc!Writes
  <2>4. Records'
    BY <2>1, <1>2 DEF Zc!Enter, Records, Batches, ZilTypes, Collected, Zc!Writes
  <2>5. ~uselog
    BY <1>2 DEF Batches, Suspended, Zc!Writes
  <2>6. Suspended'
    <3>1. Inside' = Inside
      BY <2>1 DEF Zc!Enter, Inside, ZilTypes
    <3>2. \A u \in Zc!All : zil_pc'[u] \notin {"create", "created", "write"}
      BY <2>1, <2>5 DEF Suspended, ZilTypes
    <3> QED
      BY <2>1, <2>5, <3>1, <3>2 DEF Suspended
  <2> QED
    BY <2>2, <2>3, <2>4, <2>6
<1> QED
  BY <1>1, <1>2 DEF ZilTypes

\* Waking up, to return, to sleep again or to become the writer, keeps it.
LEMMA WakeInv == ASSUME Zc!ZilCommitAssumption, ZilInv, NEW t \in Zc!All, Zc!Wake(t) PROVE ZilInv'
<1> USE DEF ZilInv, Zc!batch, Zc!susp, Zc!log, Zc!recs, Zc!Goto, Zc!All
<1>1. CASE Zc!Committed(t)
  <2>1. /\ zil_pc' = [zil_pc EXCEPT ![t] = Zc!After(t)] /\ mybatch' = [mybatch EXCEPT ![t] = 0]
        /\ UNCHANGED <<Zc!batch, Zc!susp, Zc!log, Zc!recs>>
    BY <1>1 DEF Zc!Wake, Zc!Return
  <2>2. ZilTypes'
    BY <2>1 DEF ZilTypes, Zc!After
  <2>3. Batches'
    BY <2>1 DEF Zc!Wake, Batches, ZilTypes, Zc!Writes, Zc!After
  <2>4. Records'
    BY <2>1, <1>1 DEF Zc!Wake, Records, ZilTypes, Collected, Zc!After, Zc!Committed
  <2>5. Inside' = Inside
    BY <2>1 DEF Zc!ZilCommitAssumption, Zc!Wake, Inside, ZilTypes, Zc!After
  <2>6. Suspended'
    BY <2>1, <2>5, <1>1 DEF Zc!Wake, Suspended, Batches, ZilTypes, Zc!Writes, Zc!After, Zc!Committed
  <2> QED
    BY <2>2, <2>3, <2>4, <2>6
<1>2. CASE ~Zc!Committed(t) /\ zl_writer
  <2>1. /\ zil_pc' = [zil_pc EXCEPT ![t] = "wait"] /\ UNCHANGED <<Zc!batch, Zc!susp, Zc!log, Zc!recs, mybatch>>
    BY <1>2, ZenonT(40) DEF Zc!Wake, Zc!Sleep, Zc!BecomeWriter, Zc!Busy
  <2>2. zil_pc' = zil_pc
    BY <2>1 DEF Zc!Wake, ZilTypes
  <2> QED
    BY <2>1, <2>2, ZenonT(40) DEF ZilTypes, Batches, Records, Suspended, Zc!Writes, Collected, Inside
<1>3. CASE ~Zc!Committed(t) /\ ~zl_writer
  <2>1. /\ zil_pc' = [zil_pc EXCEPT ![t] = "collect"] /\ zl_next_batch' = zl_next_batch + 1 /\ zl_writer' = TRUE
        /\ UNCHANGED <<zl_com_batch, Zc!susp, Zc!log, Zc!recs, mybatch>>
    BY <1>3 DEF Zc!Wake, Zc!Sleep, Zc!BecomeWriter, Zc!Busy
  <2>2. ZilTypes'
    BY <2>1 DEF ZilTypes
  <2>3. Batches'
    BY <2>1, <1>3 DEF Zc!Wake, Batches, ZilTypes, Zc!Writes, Zc!Committed
  <2>4. Records'
    BY <2>1, <1>3 DEF Zc!Wake, Records, Batches, ZilTypes, Collected, Zc!Writes
  <2>5. ~uselog
    BY <1>3 DEF Batches, Suspended, Zc!Writes
  <2>6. zil_pc[t] = "wait" /\ Inside' = Inside
    BY <2>1 DEF Zc!Wake, Inside, ZilTypes
  <2>7. /\ UNCHANGED <<uselog, zl_suspend, emptied, lwbs>>
        /\ uselog' <=> \E u \in Zc!All : zil_pc'[u] \in {"create", "created", "write"}
    BY <2>1, <2>6 DEF ZilTypes, Suspended, Zc!susp, Zc!log
  <2>8. Suspended'
    BY <2>5, <2>6, <2>7 DEF Suspended
  <2> QED
    BY <2>2, <2>3, <2>4, <2>8
<1> QED
  BY <1>1, <1>2, <1>3 DEF ZilTypes

\* Collecting the records of the batch keeps it.
LEMMA WriterCollectInv == ASSUME Zc!ZilCommitAssumption, ZilInv, NEW t \in Zc!All, Zc!WriterCollect(t) PROVE ZilInv'
<1> USE DEF ZilInv, Zc!WriterCollect, Zc!batch, Zc!susp, Zc!log, Zc!recs, Zc!Goto, Zc!All
<1>1. ZilTypes'
  BY DEF ZilTypes
<1>2. Batches'
  BY DEF Batches, ZilTypes, Zc!Writes
<1>3. Records'
  BY DEF Records, Batches, ZilTypes, Collected, Zc!Writes
<1>4. Suspended'
  <2>1. Inside' = Inside
    BY DEF Zc!ZilCommitAssumption, Inside, ZilTypes
  <2>2. /\ ~uselog
        /\ zil_pc'[t] \in {"create", "created", "write"} <=> uselog'
        /\ \A u \in Zc!All : u # t => zil_pc[u] \notin {"create", "created", "write"}
    BY DEF Suspended, Batches, Zc!Writes, ZilTypes, Records, Zc!KeptOff
  <2>3. uselog' => Inside = {}
    BY Counting, ZenonT(40) DEF Zc!KeptOff
  <2>4. \A u \in Zc!All : u # t => zil_pc'[u] = zil_pc[u]
    BY DEF ZilTypes
  <2> QED
    BY <2>1, <2>2, <2>3, <2>4 DEF Suspended, ZilTypes, Zc!Writes, Inside
<1> QED
  BY <1>1, <1>2, <1>3, <1>4

\* Creating the first buffer keeps it: only a writer that uses the log does.
LEMMA WriterCreateInv == ASSUME Zc!ZilCommitAssumption, ZilInv, NEW t \in Zc!All, Zc!WriterCreate(t) PROVE ZilInv'
<1> USE DEF ZilInv, Zc!batch, Zc!susp, Zc!recs, Zc!All
<1>1. PICK l \in {"created", "sync"} :
        /\ zil_pc[t] = "create" /\ zil_pc' = [zil_pc EXCEPT ![t] = l]
        /\ uselog' = (l = "created") /\ lwbs' \in {lwbs, TRUE} /\ uselog
        /\ UNCHANGED <<Zc!batch, Zc!susp, Zc!recs, mybatch>>
  <2>1. zil_pc[t] = "create" /\ uselog
    BY DEF Zc!WriterCreate, Suspended
  <2> QED
    BY <2>1 DEF Zc!WriterCreate, Zc!Goto, ZilTypes
<1>2. ZilTypes'
  BY <1>1 DEF ZilTypes
<1>3. Batches'
  BY <1>1 DEF Batches, ZilTypes, Zc!Writes
<1>4. Records'
  BY <1>1 DEF Records, Batches, ZilTypes, Collected, Zc!Writes
<1>5. Suspended'
  <2>1. Inside' = Inside /\ ~emptied
    BY <1>1 DEF Zc!ZilCommitAssumption, Inside, ZilTypes, Suspended
  <2>2. \A u \in Zc!All : u # t => zil_pc'[u] = zil_pc[u] /\ zil_pc[u] \notin {"create", "created", "write"}
    BY <1>1 DEF Batches, ZilTypes, Zc!Writes
  <2> QED
    BY <1>1, <2>1, <2>2 DEF Suspended, Batches, ZilTypes, Zc!Writes
<1> QED
  BY <1>2, <1>3, <1>4, <1>5

\* Waiting for the header keeps it.
LEMMA WriterCreatedInv == ASSUME Zc!ZilCommitAssumption, ZilInv, NEW t \in Zc!All, Zc!WriterCreated(t) PROVE ZilInv'
<1> USE DEF ZilInv, Zc!WriterCreated, Zc!batch, Zc!susp, Zc!log, Zc!recs, Zc!Goto, Zc!All
<1>1. ZilTypes'
  BY DEF ZilTypes
<1>2. Batches'
  BY DEF Batches, ZilTypes, Zc!Writes
<1>3. Records'
  BY DEF Records, Batches, ZilTypes, Collected, Zc!Writes
<1>4. Suspended'
  <2>1. Inside' = Inside
    BY DEF Zc!ZilCommitAssumption, Inside, ZilTypes
  <2> QED
    BY <2>1 DEF Suspended, Batches, ZilTypes, Zc!Writes
<1> QED
  BY <1>1, <1>2, <1>3, <1>4

\* The end of a batch keeps it: all records collected are stable.
LEMMA DoneInv == ASSUME Zc!ZilCommitAssumption, ZilInv, NEW t \in Zc!All, Zc!Done(t) PROVE ZilInv'
<1> USE DEF ZilInv, Zc!Done, Zc!batch, Zc!susp, Zc!log, Zc!recs, Zc!Goto, Zc!All
<1>1. ZilTypes'
  BY ZenonT(30) DEF ZilTypes
<1>2. Batches'
  BY DEF Batches, ZilTypes, Zc!Writes
<1>3. Records'
  BY DEF Records, Batches, ZilTypes, Collected, Zc!Writes
<1>4. Suspended'
  <2>1. Inside' = Inside
    BY DEF Zc!ZilCommitAssumption, Inside, ZilTypes
  <2> QED
    BY <2>1 DEF Suspended, Batches, ZilTypes, Zc!Writes
<1> QED
  BY <1>1, <1>2, <1>3, <1>4

\* Waking the next writer keeps it.
LEMMA SignalInv == ASSUME Zc!ZilCommitAssumption, ZilInv, NEW t \in Zc!All, Zc!Signal(t) PROVE ZilInv'
<1> USE DEF ZilInv, Zc!Signal, Zc!batch, Zc!susp, Zc!log, Zc!recs, Zc!Goto, Zc!All
<1>1. ZilTypes'
  BY DEF ZilTypes
<1>2. Batches'
  BY DEF Batches, ZilTypes, Zc!Writes
<1>3. Records'
  BY DEF Records, Batches, ZilTypes, Collected, Zc!Writes
<1>4. Suspended'
  <2>1. Inside' = Inside
    BY DEF Zc!ZilCommitAssumption, Inside, ZilTypes
  <2> QED
    BY <2>1 DEF Suspended, Batches, ZilTypes, Zc!Writes
<1> QED
  BY <1>1, <1>2, <1>3, <1>4

\* Waking the batch and returning keeps it.
LEMMA BroadcastInv == ASSUME Zc!ZilCommitAssumption, ZilInv, NEW t \in Zc!All, Zc!Broadcast(t) PROVE ZilInv'
<1> USE DEF ZilInv, Zc!Broadcast, Zc!batch, Zc!susp, Zc!log, Zc!recs, Zc!Goto, Zc!All
<1>1. ZilTypes'
  BY DEF ZilTypes, Zc!After, Zc!Return
<1>2. Batches'
  BY DEF Batches, ZilTypes, Zc!Writes, Zc!After, Zc!Return
<1>3. Records'
  BY DEF Records, Batches, ZilTypes, Collected, Zc!Writes, Zc!After, Zc!Return
<1>4. Suspended'
  <2>1. Inside' = Inside
    BY DEF Zc!ZilCommitAssumption, Inside, ZilTypes, Zc!After, Zc!Return
  <2> QED
    BY <2>1 DEF Suspended, Batches, ZilTypes, Zc!Writes, Zc!After, Zc!Return
<1> QED
  BY <1>1, <1>2, <1>3, <1>4

\* A wake-up that nobody asked for keeps it.
LEMMA SpuriousWakeInv == ASSUME Zc!ZilCommitAssumption, ZilInv, NEW t \in Zc!All, Zc!SpuriousWake(t) PROVE ZilInv'
<1> USE DEF ZilInv, Zc!SpuriousWake, Zc!batch, Zc!susp, Zc!log, Zc!recs, Zc!Goto, Zc!All
<1>1. ZilTypes'
  BY DEF ZilTypes
<1>2. Batches'
  BY DEF Batches, ZilTypes, Zc!Writes
<1>3. Records'
  BY DEF Records, Batches, ZilTypes, Collected, Zc!Writes
<1>4. Suspended'
  <2>1. Inside' = Inside
    BY DEF Zc!ZilCommitAssumption, Inside, ZilTypes
  <2> QED
    BY <2>1 DEF Suspended, Batches, ZilTypes, Zc!Writes
<1> QED
  BY <1>1, <1>2, <1>3, <1>4

\* The start of zil_suspend keeps it.
LEMMA Zil_suspendInv == ASSUME Zc!ZilCommitAssumption, ZilInv, NEW t \in Zc!All, Zc!zil_suspend(t) PROVE ZilInv'
<1> USE DEF ZilInv, Zc!batch, Zc!susp, Zc!log, Zc!recs, Zc!All
<1>0. CASE zil_pc' = [zil_pc EXCEPT ![t] = "end"] /\ UNCHANGED <<zl_suspend, target>>
  <2>1. /\ zil_pc[t] = "idle" /\ t \in Suspenders
        /\ UNCHANGED <<Zc!batch, Zc!log, emptied, mybatch, assigned, stable, top>>
    BY DEF Zc!zil_suspend
  <2>2. ZilTypes'
    BY <1>0, <2>1 DEF Zc!ZilCommitAssumption, ZilTypes
  <2>3. Batches'
    BY <1>0, <2>1 DEF Batches, ZilTypes, Zc!Writes
  <2>4. Records'
    BY <1>0, <2>1 DEF Records, ZilTypes, Collected
  <2>5. Inside' = Inside
    BY <1>0, <2>1 DEF Inside, ZilTypes
  <2>6. Suspended'
    BY <1>0, <2>1, <2>5 DEF Suspended, ZilTypes, Zc!Writes
  <2> QED
    BY <2>2, <2>3, <2>4, <2>6
<1> SUFFICES ASSUME ~(zil_pc' = [zil_pc EXCEPT ![t] = "end"] /\ UNCHANGED <<zl_suspend, target>>)
             PROVE  ZilInv'
  BY <1>0
<1>1. PICK l \in {"other", "suspended", "enter"} : zil_pc' = [zil_pc EXCEPT ![t] = l]
  BY DEF Zc!zil_suspend, Zc!Goto, Zc!FirstCommit
<1>2. PICK n \in Nat : n <= assigned /\ target' = [target EXCEPT ![t] = n]
  BY DEF Zc!zil_suspend, Records, ZilTypes
<1>3. /\ zil_pc[t] = "idle" /\ t \in Suspenders /\ zl_suspend' = zl_suspend + 1
      /\ UNCHANGED <<Zc!batch, Zc!log, emptied, mybatch, assigned, stable, top>>
  BY DEF Zc!zil_suspend, Zc!Counted, Zc!Goto
<1>4. ZilTypes'
  BY <1>1, <1>2, <1>3 DEF Zc!ZilCommitAssumption, ZilTypes
<1>5. Batches'
  BY <1>1, <1>3 DEF Batches, ZilTypes, Zc!Writes
<1>6. Records'
  BY <1>1, <1>2, <1>3 DEF Records, ZilTypes, Collected
<1>7. Inside' = Inside \cup {t} /\ t \notin Inside
  BY <1>1, <1>3 DEF Inside, ZilTypes
<1>8. IsFiniteSet(Inside') /\ zl_suspend' = Cardinality(Inside')
  BY <1>3, <1>7, FS_AddElement DEF Suspended
<1>9. Suspended'
  BY <1>1, <1>3, <1>7, <1>8 DEF Suspended, ZilTypes, Zc!Writes
<1> QED
  BY <1>4, <1>5, <1>6, <1>9

\* Waiting for the suspender in charge keeps it.
LEMMA WaitOtherInv == ASSUME Zc!ZilCommitAssumption, ZilInv, NEW t \in Zc!All, Zc!WaitOther(t) PROVE ZilInv'
<1> USE DEF ZilInv, Zc!WaitOther, Zc!batch, Zc!susp, Zc!log, Zc!recs, Zc!Goto, Zc!All
<1>1. ZilTypes'
  BY DEF ZilTypes
<1>2. Batches'
  BY DEF Batches, ZilTypes, Zc!Writes
<1>3. Records'
  BY DEF Records, Batches, ZilTypes, Collected, Zc!Writes
<1>4. Suspended'
  <2>1. Inside' = Inside
    BY DEF Zc!ZilCommitAssumption, Inside, ZilTypes
  <2> QED
    BY <2>1 DEF Suspended, Batches, ZilTypes, Zc!Writes
<1> QED
  BY <1>1, <1>2, <1>3, <1>4

\* Emptying the log keeps it.
LEMMA DestroyInv == ASSUME Zc!ZilCommitAssumption, ZilInv, NEW t \in Zc!All, Zc!Destroy(t) PROVE ZilInv'
<1> USE DEF ZilInv, Zc!Destroy, Zc!batch, Zc!susp, Zc!log, Zc!recs, Zc!Goto, Zc!All
<1>1. ZilTypes'
  BY ZenonT(30) DEF ZilTypes
<1>2. Batches'
  BY DEF Batches, ZilTypes, Zc!Writes
<1>3. Records'
  BY DEF Records, Batches, ZilTypes, Collected, Zc!Writes
<1>4. Suspended'
  <2>1. Inside' = Inside /\ t \in Inside
    BY DEF Zc!ZilCommitAssumption, Inside, ZilTypes
  <2>2. ~uselog
    BY DEF Zc!ZilCommitAssumption, Suspended, ZilTypes
  <2> QED
    BY <2>1, <2>2 DEF Suspended, ZilTypes, Zc!Writes
<1> QED
  BY <1>1, <1>2, <1>3, <1>4

\* The end of the suspension keeps it.
LEMMA DestroyedInv == ASSUME Zc!ZilCommitAssumption, ZilInv, NEW t \in Zc!All, Zc!Destroyed(t) PROVE ZilInv'
<1> USE DEF ZilInv, Zc!Destroyed, Zc!batch, Zc!susp, Zc!log, Zc!recs, Zc!Goto, Zc!All
<1>1. ZilTypes'
  BY DEF ZilTypes
<1>2. Batches'
  BY DEF Batches, ZilTypes, Zc!Writes
<1>3. Records'
  BY DEF Records, Batches, ZilTypes, Collected, Zc!Writes
<1>4. Suspended'
  <2>1. Inside' = Inside
    BY DEF Zc!ZilCommitAssumption, Inside, ZilTypes
  <2> QED
    BY <2>1 DEF Suspended, Batches, ZilTypes, Zc!Writes
<1> QED
  BY <1>1, <1>2, <1>3, <1>4

\* zil_resume keeps it.
LEMMA Zil_resumeInv == ASSUME Zc!ZilCommitAssumption, ZilInv, NEW t \in Zc!All, Zc!zil_resume(t) PROVE ZilInv'
<1> USE DEF ZilInv, Zc!zil_resume, Zc!batch, Zc!susp, Zc!log, Zc!recs, Zc!Goto, Zc!All
<1>1. ZilTypes'
  BY DEF ZilTypes
<1>2. Batches'
  BY DEF Batches, ZilTypes, Zc!Writes
<1>3. Records'
  BY DEF Records, Batches, ZilTypes, Collected, Zc!Writes
<1>4. Suspended'
  <2>1. t \in Inside /\ Inside' = Inside \ {t}
    BY DEF Zc!ZilCommitAssumption, Inside, ZilTypes
  <2>2. IsFiniteSet(Inside') /\ zl_suspend' = Cardinality(Inside')
    BY <2>1, FS_RemoveElement DEF Suspended
  <2>3. zl_suspend > 1 => Inside' # {}
    BY <2>2, FS_EmptySet, Counting
  <2>4. emptied' => Inside' # {} /\ ~uselog' /\ ~lwbs'
    BY <2>3 DEF Suspended, ZilTypes
  <2> QED
    BY <2>2, <2>4 DEF Suspended, ZilTypes, Zc!Writes
<1> QED
  BY <1>1, <1>2, <1>3, <1>4

\* A txg that syncs keeps it, and so does the end of zil_replay.
LEMMA SyncInv == ZilInv /\ (Zc!Sync \/ Zc!zil_replay) => ZilInv'
<1> SUFFICES ASSUME ZilInv, Zc!Sync \/ Zc!zil_replay PROVE ZilInv'
  OBVIOUS
<1> USE DEF ZilInv, Zc!Sync, Zc!zil_replay, Zc!batch, Zc!susp, Zc!recs
<1>1. ZilTypes' /\ Batches' /\ Records'
  BY DEF ZilTypes, Batches, Records, Zc!Writes, Collected
<1>2. Suspended'
  BY DEF Suspended, Inside, Zc!Writes
<1> QED
  BY <1>1, <1>2

-----------------------------------------------------------------------------
\* Every step keeps the invariant.
LEMMA ZilInductive == ASSUME Zc!ZilCommitAssumption, ZilInv, [Zc!Next]_Zc!vars PROVE ZilInv'
<1>1. ASSUME NEW t \in Zc!All, Zc!Step(t) PROVE ZilInv'
  BY <1>1, EnterInv, WakeInv, WriterCollectInv, WriterCreateInv, WriterCreatedInv, DoneInv, SignalInv,
     BroadcastInv, WaitOtherInv, DestroyInv, DestroyedInv, Zil_resumeInv DEF Zc!Step
<1>2. ASSUME NEW t \in Zc!All, Zc!Call(t) \/ Zc!SpuriousWake(t) \/ Zc!zil_suspend(t) PROVE ZilInv'
  BY <1>2, CallInv, SpuriousWakeInv, Zil_suspendInv
<1>3. CASE Zc!Sync \/ Zc!zil_replay
  BY <1>3, SyncInv
<1>4. CASE UNCHANGED Zc!vars
  <2>1. ZilTypes' /\ Batches' /\ Records'
    BY <1>4 DEF ZilInv, Zc!vars, Zc!batch, Zc!susp, Zc!log, Zc!recs, ZilTypes, Batches, Records, Zc!Writes, Collected
  <2>2. Suspended'
    BY ZenonT(40), <1>4 DEF ZilInv, Zc!vars, Zc!batch, Zc!susp, Zc!log, Zc!recs, Suspended, Inside, Zc!Writes
  <2> QED
    BY <2>1, <2>2 DEF ZilInv
<1> QED
  BY <1>1, <1>2, <1>3, <1>4 DEF Zc!Next

\* The invariant of zil_commit and zil_suspend holds through every interleaving of
\* callers, writers, suspenders and syncing txgs.
THEOREM ZilInvariance == Zc!ZilCommitAssumption => (Zc!Spec => []ZilInv)
<1> SUFFICES ASSUME Zc!ZilCommitAssumption PROVE Zc!Spec => []ZilInv
  OBVIOUS
<1>1. Zc!Init => ZilInv
  BY ZilInit
<1>2. ZilInv /\ [Zc!Next]_Zc!vars => ZilInv'
  BY ZilInductive
<1> QED
  BY <1>1, <1>2, PTL DEF Zc!Spec

\* When zil_commit returns, what was assigned before the call is stable; there is one
\* writer, the log is not destroyed under it, and a log that was emptied stays empty
\* until it is resumed.
THEOREM CommitStable == Zc!ZilCommitAssumption => (Zc!Spec => []Zc!ReturnsStable)
<1> SUFFICES ASSUME Zc!ZilCommitAssumption PROVE Zc!Spec => []Zc!ReturnsStable
  OBVIOUS
<1>1. ZilInv => Zc!ReturnsStable
  BY DEF ZilInv, Zc!ReturnsStable, ZilTypes, Batches, Records, Suspended, Zc!All, Zc!Writes
<1>2. Zc!Spec => []ZilInv
  BY ZilInvariance
<1> QED
  BY <1>1, <1>2, PTL
=============================================================================
