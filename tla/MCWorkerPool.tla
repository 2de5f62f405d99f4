---------------------------- MODULE MCWorkerPool ----------------------------
(* Small instances of WorkerPool for TLC. *)
EXTENDS WorkerPool, TLC

\* The slots are interchangeable: no definition orders or names them.  Used
\* only by the runs that check no liveness.
SlotSymmetry == Permutations(Slots)
=============================================================================
