------------------------------ MODULE MCSessions ------------------------------
EXTENDS Sessions, TLC

Symmetry == Permutations(Requests) \cup Permutations(Passwords)
                \cup Permutations(SessionIds) \cup Permutations(TokenIds)
                \cup Permutations(ResetIds)
=============================================================================
