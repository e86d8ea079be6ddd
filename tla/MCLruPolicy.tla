----------------------------- MODULE MCLruPolicy -----------------------------
(* LruPolicy on small instances for TLC.                                   *)
EXTENDS LruPolicy, TLC

\* Keys are interchangeable and so are values.
Symmetry == Permutations(Keys) \cup Permutations(Values)

=============================================================================
