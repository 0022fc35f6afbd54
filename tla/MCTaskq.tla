------------------------------ MODULE MCTaskq ------------------------------
(* A task queue of two clients on small instances.                         *)
EXTENDS Taskq, TLC

CONSTANTS w1, w2, c1, c2, a, b, k, p

MCWorkers == {w1, w2}
MCClients == {c1, c2}

\* The clients dispatch a, b and p; task a dispatches k while it runs.
MCTasks == {a, b, k, p}
MCRoots == {a, b, p}
MCChild == [t \in Tasks |-> IF t = a THEN {k} ELSE {}]
=============================================================================
