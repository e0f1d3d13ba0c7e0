---------------------------- MODULE MCRuntimeExec ----------------------------
(* RuntimeExec on a few invocations and identifiers, for TLC.              *)
EXTENDS RuntimeExec, TLC

Symmetry == Permutations(Execs) \cup Permutations(Owners)
            \cup Permutations(Requests)
=============================================================================
