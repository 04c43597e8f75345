-------------------------- MODULE MCDeletionEngine --------------------------
(* DeletionEngine on small instances.  Rows, requests, job slots and plans *)
(* are interchangeable; the runs with temporal properties do not use it.   *)
EXTENDS DeletionEngine, TLC

CONSTANTS o1, o2, h1, h2, w1, w2, p, q

OneOp == {o1}
TwoOps == {o1, o2}
OneHandler == {h1}
TwoHandlers == {h1, h2}
OneWorker == {w1}
TwoWorkers == {w1, w2}
TwoPlans == {p, q}
OnePlan == {p}

Interchangeable == Permutations(Ops) \cup Permutations(Handlers)
                     \cup Permutations(Workers) \cup Permutations(Plans)
=============================================================================
