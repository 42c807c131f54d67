---------------------------- MODULE MCNavigation ----------------------------
(* Instances of Navigation for TLC.                                        *)
EXTENDS Navigation, TLC

Symmetry == Permutations(Navs) \cup Permutations(Clients)
=============================================================================
