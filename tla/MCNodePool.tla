----------------------------- MODULE MCNodePool -----------------------------
(* Instances of NodePool for TLC.                                          *)
EXTENDS NodePool, TLC

CONSTANTS w1, w2, n1, n2

\* The first window has a node in its zone, the second does not care.
Preferences == (w1 :> (n1 :> 0 @@ n2 :> 1)) @@ (w2 :> (n1 :> 2 @@ n2 :> 2))

\* Nothing is claimed of what follows an overlapping access.
NotRaced == ~raced

Symmetry == Permutations(Threads) \cup Permutations(Leases)
=============================================================================
