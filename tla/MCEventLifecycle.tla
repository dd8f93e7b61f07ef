-------------------------- MODULE MCEventLifecycle --------------------------
(* EventLifecycle for TLC.                                                 *)
EXTENDS EventLifecycle, TLC

\* Users and workers are interchangeable in the safety runs.
Symmetry == Permutations(Users) \union Permutations(Workers)

============================================================================
