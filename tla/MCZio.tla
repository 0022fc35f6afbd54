------------------------------- MODULE MCZio --------------------------------
EXTENDS Zio, TLC

CONSTANTS r, w, a, G, s1, s2

\* A root with a block and the block that refers to it.
Chain == [kind |-> (r :> "null") @@ (w :> "write") @@ (a :> "write"),
          up |-> (r :> NoZio) @@ (w :> a) @@ (a :> r), canFail |-> {}]

\* A root with a write below it, and a read without a parent that may fail.
Mixed == [kind |-> (r :> "null") @@ (w :> "write") @@ (a :> "read"),
          up |-> (r :> NoZio) @@ (w :> r) @@ (a :> NoZio), canFail |-> {a}]

\* A root with two reads, all of which may fail.
Reads == [kind |-> (r :> "null") @@ (w :> "read") @@ (a :> "read"),
          up |-> (r :> NoZio) @@ (w :> r) @@ (a :> r), canFail |-> {r, w, a}]

\* No root has a read that may fail beside a write that is reexecuted (see ErrorsReported).
MCTrees == {Chain, Mixed, Reads}
=============================================================================
