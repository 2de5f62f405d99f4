----------------------------- MODULE MCDkcQueue -----------------------------
(* Small instances of DkcQueue for TLC. *)
EXTENDS DkcQueue, TLC

\* The commands are interchangeable.  After chooses among one element when the
\* commands do not overlap, so this is sound for a run without Concurrent.
CallSymmetry == Permutations(Calls)
=============================================================================
