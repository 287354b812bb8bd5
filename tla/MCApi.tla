-------------------------------- MODULE MCApi --------------------------------
\* The API for TLC: one caller, one custom role with every permission that a
\* custom role may grant.
EXTENDS Api

MCGrants == RoleRegistry
=============================================================================
