---------------------------- MODULE MCCoreThread ----------------------------
(***************************************************************************)
(* Small instances of CoreThread for TLC.                                  *)
(***************************************************************************)
EXTENDS CoreThread, TLC

\* Jobs are interchangeable (used by a run without liveness); threads are told
\* apart by the CHOOSE of NewThread.
Symmetry == Permutations(Jobs)

=============================================================================
