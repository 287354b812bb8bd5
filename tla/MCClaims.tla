------------------------------- MODULE MCClaims -------------------------------
EXTENDS CheckoutClaims, TLC

Symmetry == Permutations(Workers) \cup Permutations(OrderIds)
=============================================================================
