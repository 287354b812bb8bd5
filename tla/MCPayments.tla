------------------------------ MODULE MCPayments ------------------------------
EXTENDS CheckoutInvariants, TLC

Symmetry == Permutations(Workers) \cup Permutations(OrderIds)
=============================================================================
