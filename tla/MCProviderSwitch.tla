-------------------------- MODULE MCProviderSwitch --------------------------
(* Instances of ProviderSwitch for TLC. *)
EXTENDS ProviderSwitch, TLC

CONSTANTS p, q, h1

\* Providers are alike; only safety is checked.
Symmetry == Permutations({p, q})
=============================================================================
