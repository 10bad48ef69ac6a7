------------------------------ MODULE MCTunnel ------------------------------
\* TLC's instance of Tunnel.
EXTENDS Tunnel, TLC

CONSTANTS r1, r2, c1, a1, a2, b1

Symmetry == Permutations({r1, r2}) \union Permutations({a1, a2})
=============================================================================
