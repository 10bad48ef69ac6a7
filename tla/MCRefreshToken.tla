--------------------------- MODULE MCRefreshToken ---------------------------
(* Instances of RefreshToken for TLC. *)
EXTENDS RefreshToken, TLC

CONSTANTS h1, h2

\* The clocks of the replicas agree.
NoSkew == [h \in Handlers |-> 0]

Symmetry == Permutations(Handlers)
=============================================================================
