------------------------------- MODULE MCSerial -------------------------------
EXTENDS SerialCheckout, TLC

Symmetry == Permutations(OrderIds) \cup Permutations(Types)
=============================================================================
