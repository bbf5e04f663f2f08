------------------------ MODULE MCDiagnosticsExecutor ------------------------
(* Instances of DiagnosticsExecutor for TLC.                                *)
EXTENDS DiagnosticsExecutor

\* The code treats all requests alike and no property names one of them.
RequestSymmetry == Permutations(Requests)
==============================================================================
