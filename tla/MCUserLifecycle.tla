-------------------------- MODULE MCUserLifecycle --------------------------
(* Instances of UserLifecycle for TLC. *)
EXTENDS UserLifecycle, TLC

CONSTANTS u1, r1, r2, i1, i2, c1

Symmetry == Permutations(Replicas)

OneUser == [c \in Codes |-> u1]
=============================================================================
