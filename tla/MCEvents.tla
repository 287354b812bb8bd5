------------------------------ MODULE MCEvents ------------------------------
EXTENDS Events
=============================================================================
