-------------------------- MODULE MCCommandReceipt --------------------------
(***************************************************************************)
(* A command sent three times, a request that reuses its id for another    *)
(* payload, and a command of its own.                                      *)
(***************************************************************************)
EXTENDS CommandReceipt

CONSTANTS first, again, late, reused, other, k1, k2, p1, p2

MCRequest == {first, again, late, reused, other}
MCIdentity == {k1, k2}
MCPayload == {p1, p2}
MCIdentityOf == [r \in MCRequest |-> IF r = other THEN k2 ELSE k1]
MCPayloadOf == [r \in MCRequest |-> IF r = reused THEN p2 ELSE p1]
=============================================================================
