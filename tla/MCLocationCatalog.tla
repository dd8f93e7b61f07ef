-------------------------- MODULE MCLocationCatalog -------------------------
(* LocationCatalog for TLC.                                                *)
EXTENDS LocationCatalog, TLC

\* Workers, names and degrees are interchangeable.
Symmetry == Permutations(Workers) \union Permutations(Names) \union Permutations(Degrees)

============================================================================
