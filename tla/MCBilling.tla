----------------------------- MODULE MCBilling -----------------------------
(* Cameras are interchangeable.                                            *)
EXTENDS Billing, TLC

Symmetry == Permutations(Cameras)

=============================================================================
