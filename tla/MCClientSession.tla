-------------------------- MODULE MCClientSession ---------------------------
(* A small instance of ClientSession: a thread calls any function of the   *)
(* interface, then one of a few.                                           *)
EXTENDS ClientSession

CONSTANTS t1

MCOffers(t, n) ==
    IF n = 0 THEN DOMAIN Functions ELSE {"get_value", "set_value", "set_subkey", "cas_get"}
=============================================================================
