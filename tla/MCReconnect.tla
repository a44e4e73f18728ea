----------------------------- MODULE MCReconnect -----------------------------
(* TLC instance of Reconnect *)
EXTENDS Reconnect

CONSTANTS a1, k1, k2

MCOneApp == {a1}
MCTasks == {k1, k2}
=============================================================================
