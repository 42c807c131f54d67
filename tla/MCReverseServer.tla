-------------------------- MODULE MCReverseServer --------------------------
(* Instances of ReverseServer for TLC.                                     *)
EXTENDS ReverseServer, TLC

(* Connections of a kind are interchangeable.                              *)
Symmetry == Permutations(Conns) \cup Permutations(Proxies)
=============================================================================
