--------------------------- MODULE MCOrganization ---------------------------
EXTENDS Organization, TLC

\* A permission that admins have, and one that only owners have.
MCGrants == {<<"event", "update">>, <<"role", "update">>}

Symmetry == Permutations(Users) \cup Permutations(Workers)
=============================================================================
