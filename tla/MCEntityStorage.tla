-------------------------- MODULE MCEntityStorage --------------------------
(* The main thread and two threads of the session's queue store and read up *)
(* to three rewards of two kinds, over one restart.                         *)
EXTENDS BKEntityStorage, TLC

CONSTANTS main, worker1, worker2

MCThreads == {main, worker1, worker2}
MCSymmetry == Permutations(Rows) \cup Permutations({worker1, worker2})

=============================================================================
