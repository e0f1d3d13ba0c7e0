-------------------------- MODULE MCRepoAccessLock --------------------------
(* RepoAccessLock on a few processes, for TLC.                             *)
EXTENDS RepoAccessLock, TLC

Symmetry == Permutations(Procs)
=============================================================================
