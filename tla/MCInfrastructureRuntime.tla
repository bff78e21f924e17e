---------------------- MODULE MCInfrastructureRuntime ----------------------
(* A small instance of InfrastructureRuntime for TLC.                      *)
EXTENDS InfrastructureRuntime, TLC



Symmetry == Permutations(Callers)
=============================================================================
