------------------------------ MODULE MCBilling ------------------------------
EXTENDS Billing
=============================================================================
