----------------------------- MODULE MCJobQueue -----------------------------
(***************************************************************************)
(* Small instances of JobQueue for TLC.                                    *)
(***************************************************************************)
EXTENDS JobQueue

CONSTANTS w1, w2, work, cleanup

MCWorkers == {w1, w2}

MCJobs == {work, cleanup}

MCCleanup == {cleanup}

EveryKind == [w \in MCWorkers |-> MCJobs]

\* w1 runs one tick ahead of the database, w2 one tick behind it.
SkewedClocks == [w \in MCWorkers |-> IF w = w1 THEN 1 ELSE -1]

SyncedClocks == [w \in MCWorkers |-> 0]

=============================================================================
