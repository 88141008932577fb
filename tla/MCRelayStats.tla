---------------------------- MODULE MCRelayStats ----------------------------
(***************************************************************************)
(* An instance of RelayStats for TLC.                                      *)
(***************************************************************************)
EXTENDS RelayStats, TLC

CONSTANTS t1, t2, r1

=============================================================================
