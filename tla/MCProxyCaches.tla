--------------------------- MODULE MCProxyCaches ---------------------------
(* Instances of ProxyCaches for TLC.                                       *)
EXTENDS ProxyCaches, TLC

Symmetry == Permutations(Channels) \cup Permutations(FilterIds) \cup Permutations(Filters)
=============================================================================
