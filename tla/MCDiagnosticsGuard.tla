------------------------- MODULE MCDiagnosticsGuard -------------------------
EXTENDS DiagnosticsGuard, TLC

Symmetry == Permutations(Sessions)
=============================================================================
