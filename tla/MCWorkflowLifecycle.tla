------------------------ MODULE MCWorkflowLifecycle ------------------------
(* Small instances of WorkflowLifecycle.                                    *)
EXTENDS WorkflowLifecycle, TLC

Symmetry == Permutations(Authors) \cup Permutations(Callers)
=============================================================================
