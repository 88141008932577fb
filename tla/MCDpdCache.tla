----------------------------- MODULE MCDpdCache -----------------------------
(***************************************************************************)
(* Small instances of DpdCache for TLC.                                    *)
(***************************************************************************)
EXTENDS DpdCache, TLC

\* Threads are interchangeable.
Symmetry == Permutations(Thread)
=============================================================================
