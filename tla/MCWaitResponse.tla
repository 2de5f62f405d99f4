--------------------------- MODULE MCWaitResponse ---------------------------
(* Small instances of WaitResponse for TLC. *)
EXTENDS WaitResponse, TLC
CONSTANTS c1, c2, c3, k1, k2

\* Two commands of one type and one of another, all with number 0.
KeyOfShared == (c1 :> k1) @@ (c2 :> k1) @@ (c3 :> k2)

=============================================================================
