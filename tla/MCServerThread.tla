--------------------------- MODULE MCServerThread ---------------------------
EXTENDS ServerThread, TLC

CONSTANTS k1, k2, k3, k4

MCConns == {k1, k2, k3, k4}

\* No action tells two connections apart.
ConnSymmetry == Permutations(MCConns)
=============================================================================
