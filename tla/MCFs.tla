--------------------------------- MODULE MCFs ---------------------------------
(***************************************************************************)
(* Module Fs on its own.                                                   *)
(***************************************************************************)
EXTENDS Fs, FsCalls, TLC

Symmetry == Permutations(Procs)
=============================================================================
