-------------------------- MODULE MCRelayLifecycle --------------------------
(***************************************************************************)
(* Small instances of RelayLifecycle for TLC: two calls of run(), which    *)
(* may overlap or follow each other.                                       *)
(***************************************************************************)
EXTENDS RelayLifecycle

CONSTANTS r1, r2
=============================================================================
