-------------------------- MODULE MCProviderDaemon --------------------------
(* Instances of ProviderDaemon for TLC. *)
EXTENDS ProviderDaemon

CONSTANTS r1, r2, q1, q2, q3, p1, p2

TwoOnOne == [q \in Requests |-> IF q = q3 THEN r2 ELSE r1]
=============================================================================
