-------------------------- MODULE MCNodeExecution --------------------------
(* Small instances of NodeExecution.                                        *)
EXTENDS NodeExecution, TLC

Symmetry == Permutations(Workers)
=============================================================================
