-------------------------- MODULE MCReverseClient --------------------------
EXTENDS ReverseClient, TLC

Symmetry == Permutations(Devices)
=============================================================================
