------------------------------ MODULE Deadlist ------------------------------
(***************************************************************************)
(* Deadlists (dsl_deadlist.c).  A deadlist holds blocks that the previous  *)
(* snapshot refers to and the dataset no longer does, grouped by when they *)
(* were born: entry k has those born after txg k, up to the next key.      *)
(* Here it is a function from keys to sets of blocks, and space is the     *)
(* number of blocks.                                                       *)
(***************************************************************************)
EXTENDS Integers, FiniteSets, FiniteSetsExt, Functions

\* avl_nearest(AVL_BEFORE) and AVL_PREV: the last key before t.
KeyBefore(dl, t) == Max({k \in DOMAIN dl : k < t})

dsl_deadlist_insert(dl, b, birth) == [dl EXCEPT ![KeyBefore(dl, birth)] = @ \cup {b}]

dsl_deadlist_add_key(dl, mintxg) ==
  [k \in DOMAIN dl \cup {mintxg} |-> IF k = mintxg THEN {} ELSE dl[k]]

\* Remove a key, joining its blocks to those of the key before.
dsl_deadlist_remove_key(dl, mintxg) ==
  Restrict([dl EXCEPT ![KeyBefore(dl, mintxg)] = @ \cup dl[mintxg]],
           DOMAIN dl \ {mintxg})

\* A list of the same keys below maxtxg, without blocks.
dsl_deadlist_clone(dl, maxtxg) == [k \in {j \in DOMAIN dl : j < maxtxg} |-> {}]

Blocks_(dl) == UNION {dl[k] : k \in DOMAIN dl}

dsl_deadlist_space(dl) == Cardinality(Blocks_(dl))

\* The space of the entries from mintxg, which must be a key, up to maxtxg.
dsl_deadlist_space_range(dl, mintxg, maxtxg) ==
  IF mintxg \in DOMAIN dl
    THEN MapThenSumSet(LAMBDA k : Cardinality(dl[k]),
                       {k \in DOMAIN dl : mintxg <= k /\ k < maxtxg})
    ELSE 0

\* Entry k of another list goes to the same key, or else to the one before.
dsl_deadlist_merge(dl, other) ==
  [k \in DOMAIN dl |->
     dl[k] \cup UNION {other[j] : j \in {i \in DOMAIN other :
                         k = Max({h \in DOMAIN dl : h <= i})}}]

\* What dsl_deadlist_move_bpobj moves, and what it leaves.
MovedFrom(dl, mintxg) == UNION {dl[k] : k \in {j \in DOMAIN dl : j >= mintxg}}
LeftBelow(dl, mintxg) == Restrict(dl, {k \in DOMAIN dl : k < mintxg})
=============================================================================
