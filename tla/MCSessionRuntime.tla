-------------------------- MODULE MCSessionRuntime --------------------------
(* Instances of SessionRuntime for TLC.                                    *)
EXTENDS SessionRuntime, TLC

Symmetry == Permutations(Threads) \cup Permutations(Sessions) \cup Permutations(Navs)
=============================================================================
