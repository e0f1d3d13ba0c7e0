--------------------------- MODULE MCStartScheduler ---------------------------
(* StartScheduler on one or two issues and scout roles, for TLC.           *)
EXTENDS StartScheduler, TLC

Symmetry == Permutations(Issues) \cup Permutations(Roles) \cup Permutations(Workers)
=============================================================================
