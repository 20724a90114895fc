------------------------------- MODULE MCSpool -------------------------------
(* Three calls, one of them malformed. *)
EXTENDS Spool, TLC

CONSTANTS c1, c2, c3

MCCalls     == {c1, c2, c3}
MCMalformed == {c3}
=============================================================================
